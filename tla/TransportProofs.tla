-------------------------- MODULE TransportProofs --------------------------
(***************************************************************************)
(* The transport of a socket.  First its ring: RingBuf implements the      *)
(* bounded FIFO of ByteQueue, for every buffer size that divides the range *)
(* of the counters.  Then a TCP connection over such rings (TcpConn), for  *)
(* any buffers, segment size and losses: what is received, in every use    *)
(* and over a network that reorders, and what is sent, in the use Careful  *)
(* describes.                                                              *)
(***************************************************************************)
EXTENDS RingBuf, TcpConn, TLAPS

----------------------------------------------------------------------------
(* Arithmetic of the counters.                                             *)

\* Division with remainder.
LEMMA DivMod ==
    ASSUME NEW m \in Nat \ {0}, NEW a \in Int
    PROVE  /\ a % m \in 0..(m - 1)
           /\ a \div m \in Int
           /\ a = m * (a \div m) + (a % m)
    OBVIOUS

\* The remainder is unique.
LEMMA ModUnique ==
    ASSUME NEW m \in Nat \ {0}, NEW q \in Int, NEW r \in 0..(m - 1)
    PROVE  (m * q + r) % m = r
    OBVIOUS

\* A small step up or down wraps around at most once.
LEMMA WrapOnce ==
    ASSUME NEW m \in Nat \ {0}, NEW a \in 0..(m - 1), NEW d \in 0..m
    PROVE  /\ (a + d) % m = IF a + d < m THEN a + d ELSE a + d - m
           /\ (a - d) % m = IF a >= d THEN a - d ELSE a - d + m
    OBVIOUS

\* Adding a multiple of m does not change the remainder by m.
LEMMA AddMultiple ==
    ASSUME NEW m \in Nat \ {0}, NEW q \in Int, NEW x \in Int
    PROVE  (m * q + x) % m = x % m
  <1>1. PICK p \in Int, r \in 0..(m - 1) : x = m * p + r /\ r = x % m
    BY DivMod
  <1>2. q + p \in Int /\ m * q + x = m * (q + p) + r
    BY <1>1
  <1>3. (m * (q + p) + r) % m = r
    BY <1>2, ModUnique
  <1> QED BY <1>1, <1>2, <1>3

\* Quotients of a multiple of m, with the products named.
LEMMA MultipleOf ==
    ASSUME NEW m \in Int, NEW k \in Int, NEW q \in Int, NEW M \in Int, M = m * k
    PROVE  k * q \in Int /\ M * q = m * (k * q)
  OBVIOUS

\* A number and its remainder by a multiple of m differ by a multiple of m.
LEMMA RemainderOfMultiple ==
    ASSUME NEW m \in Nat \ {0}, NEW M \in Nat \ {0}, M % m = 0, NEW c \in Int
    PROVE  /\ c % M \in Int
           /\ \E y \in Int : c = m * y + (c % M)
  <1>1. PICK k \in Int : M = m * k
    BY DivMod
  <1> DEFINE q == c \div M
             y == k * q
  <1>2. q \in Int /\ c % M \in Int /\ c = M * q + (c % M)
    BY DivMod
  <1> HIDE DEF q
  <1>3. y \in Int /\ M * q = m * y
    BY <1>1, <1>2, MultipleOf
  <1> HIDE DEF y
  <1> QED BY <1>2, <1>3

\* Reducing by a multiple of m first does not change the remainder by m.
LEMMA ModOfMod ==
    ASSUME NEW m \in Nat \ {0}, NEW M \in Nat \ {0}, M % m = 0, NEW c \in Int
    PROVE  /\ (c % M) % m = c % m
           /\ \A i \in Int : ((c % M) + i) % m = (c + i) % m
  <1> DEFINE r == c % M
  <1>1. PICK y \in Int : c = m * y + r
    BY RemainderOfMultiple
  <1>2. r \in Int
    BY RemainderOfMultiple
  <1> HIDE DEF r
  <1>3. r % m = c % m
    BY <1>1, <1>2, AddMultiple
  <1>4. ASSUME NEW i \in Int
        PROVE  (r + i) % m = (c + i) % m
    <2>1. r + i \in Int /\ c + i = m * y + (r + i)
      BY <1>1, <1>2
    <2>2. (m * y + (r + i)) % m = (r + i) % m
      BY <2>1, AddMultiple
    <2> QED BY <2>1, <2>2
  <1> QED BY <1>3, <1>4 DEF r

----------------------------------------------------------------------------
(* The counters: their distance, and where they point.                     *)

\* Writing n bytes that fit below the range moves the distance up by n.
LEMMA HeadMoves ==
    ASSUME NEW m \in Nat \ {0}, NEW h \in 0..(m - 1), NEW t \in 0..(m - 1),
           NEW n \in Nat, ((h - t) % m) + n < m
    PROVE  (((h + n) % m) - t) % m = ((h - t) % m) + n
  OBVIOUS

\* Releasing n of the bytes held moves the distance down by n.
LEMMA TailMoves ==
    ASSUME NEW m \in Nat \ {0}, NEW h \in 0..(m - 1), NEW t \in 0..(m - 1),
           NEW n \in Nat, n <= (h - t) % m
    PROVE  (h - ((t + n) % m)) % m = ((h - t) % m) - n
  OBVIOUS

\* The distance leads from the tail back to the head.
LEMMA HeadIsAhead ==
    ASSUME NEW m \in Nat \ {0}, NEW h \in 0..(m - 1), NEW t \in 0..(m - 1)
    PROVE  h = (t + ((h - t) % m)) % m
  OBVIOUS

\* What SizeAssumption and the types say of the current state.
LEMMA Shape ==
    ASSUME RingTypeOK
    PROVE  /\ BufSize \in Nat \ {0} /\ Mod \in Nat \ {0} /\ BufSize < Mod
           /\ Mod % BufSize = 0
           /\ MaxLen \in Nat
           /\ head \in Int /\ head >= 0 /\ head < Mod
           /\ tail \in Int /\ tail >= 0 /\ tail < Mod
           /\ Available \in Nat /\ Available <= BufSize
           /\ buf \in [Index -> Byte]
  BY SizeAssumption DEF RingTypeOK, Counter

\* The slot of the byte d places after the tail, with its wrap made explicit.
Slot(d) == IF Masked(tail) + d < BufSize THEN Masked(tail) + d
           ELSE Masked(tail) + d - BufSize

LEMMA SlotIsMasked ==
    ASSUME RingTypeOK, NEW d \in 0..BufSize
    PROVE  /\ Masked(tail) \in 0..(BufSize - 1)
           /\ Masked(tail + d) = Slot(d)
           /\ Slot(d) \in Index
  <1>1. Masked(tail) \in 0..(BufSize - 1)
    BY Shape, DivMod DEF Masked
  <1>2. BufSize \in Nat \ {0} /\ BufSize % BufSize = 0 /\ tail \in Int /\ d \in Int
    BY Shape
  <1>3. ((tail % BufSize) + d) % BufSize = (tail + d) % BufSize
    BY <1>2, ModOfMod
  <1>4. (Masked(tail) + d) % BufSize = Slot(d)
    BY Shape, <1>1, WrapOnce DEF Slot
  <1>5. Slot(d) \in Index
    BY <1>1, <1>2 DEF Slot, Index
  <1> QED BY <1>1, <1>3, <1>4, <1>5 DEF Masked

\* The head points at the slot just after the bytes held.
LEMMA HeadSlot ==
    ASSUME RingTypeOK
    PROVE  Masked(head) = Slot(Available)
  <1>1. head = (tail + Available) % Mod
    BY SizeAssumption, HeadIsAhead DEF RingTypeOK, Counter, Available
  <1>2. ((tail + Available) % Mod) % BufSize = (tail + Available) % BufSize
    <2>1. tail + Available \in Int
      BY Shape
    <2> QED BY <2>1, Shape, ModOfMod
  <1>3. Masked(head) = Masked(tail + Available)
    BY <1>1, <1>2, Shape DEF Masked
  <1> QED BY <1>3, SlotIsMasked, Shape

----------------------------------------------------------------------------
(* The two-segment copies.                                                 *)

\* The facts about a chunk that the copies use.
LEMMA ChunkShape ==
    ASSUME NEW data \in Chunk, MaxLen \in Nat
    PROVE  /\ Len(data) \in 0..MaxLen
           /\ data \in [1..Len(data) -> Byte]
  BY DEF Chunk

\* A copy out of n held bytes returns the n oldest ones in order.
LEMMA CopyOutReads ==
    ASSUME RingTypeOK, NEW n \in Nat, n <= Available
    PROVE  /\ CopyOut(Masked(tail), n) = [i \in 1..n |-> buf[Masked(tail + i - 1)]]
           /\ CopyOut(Masked(tail), n) = [i \in 1..n |-> Contents[i]]
  <1> DEFINE at == Masked(tail)
             first == FirstSegment(at, n)
  <1>1. at \in 0..(BufSize - 1)
    BY SlotIsMasked, Shape
  <1>2. ASSUME NEW i \in 1..n
        PROVE  /\ Masked(tail + i - 1) = (IF i <= first THEN at + i - 1 ELSE i - first - 1)
               /\ Contents[i] = buf[Masked(tail + i - 1)]
    <2>1. i - 1 \in 0..BufSize /\ tail + i - 1 = tail + (i - 1) /\ i \in 1..Available
      BY Shape
    <2>2. Masked(tail + i - 1) = Slot(i - 1)
      BY <2>1, SlotIsMasked
    <2>3. Slot(i - 1) = (IF i <= first THEN at + i - 1 ELSE i - first - 1)
      BY <1>1, Shape DEF Slot, FirstSegment, Least
    <2> QED BY <2>1, <2>2, <2>3 DEF Contents
  <1> HIDE DEF at, first
  <1>3. CopyOut(at, n) = [i \in 1..n |-> IF i <= first THEN buf[at + i - 1]
                                         ELSE buf[i - first - 1]]
    BY DEF CopyOut, first
  <1>4. CopyOut(at, n) = [i \in 1..n |-> buf[Masked(tail + i - 1)]]
    BY <1>2, <1>3
  <1>5. CopyOut(at, n) = [i \in 1..n |-> Contents[i]]
    BY <1>2, <1>4
  <1> QED BY <1>4, <1>5 DEF at

\* A copy in of n bytes that fit leaves the bytes held where they were and
\* puts the new ones behind them.
LEMMA CopyInAppends ==
    ASSUME RingTypeOK, NEW data \in Chunk, NEW n \in Nat,
           n <= Len(data), Available + n <= BufSize
    PROVE  /\ CopyIn(Masked(head), data, n) \in [Index -> Byte]
           /\ \A i \in 1..(Available + n) :
                 CopyIn(Masked(head), data, n)[Masked(tail + i - 1)] =
                     IF i <= Available THEN Contents[i] ELSE data[i - Available]
  <1> DEFINE at == Masked(head)
             first == FirstSegment(at, n)
             new == CopyIn(at, data, n)
  <1>1. Masked(tail) \in 0..(BufSize - 1) /\ at = Slot(Available)
    BY SlotIsMasked, HeadSlot, Shape
  <1>2. at \in 0..(BufSize - 1) /\ first \in 0..n /\ first <= BufSize - at
    BY SMTT(30), <1>1, Shape DEF Slot, FirstSegment, Least
  <1>3. Len(data) \in Nat /\ data \in [1..Len(data) -> Byte]
    BY ChunkShape, Shape
  <1> HIDE DEF at, first
  <1>4. new = [i \in Index |->
                  IF at <= i /\ i < at + first THEN data[i - at + 1]
                  ELSE IF i < n - first THEN data[first + i + 1]
                  ELSE buf[i]]
    BY DEF CopyIn, first, SecondSegment
  <1>5. new \in [Index -> Byte]
    <2> SUFFICES ASSUME NEW i \in Index
                 PROVE  new[i] \in Byte
      BY <1>4
    <2>1. i \in Int /\ 0 <= i /\ i < BufSize
      BY Shape DEF Index
    <2>2. CASE at <= i /\ i < at + first
      <3>1. i - at + 1 \in 1..Len(data)
        BY <2>1, <2>2, <1>2, <1>3
      <3> QED BY <3>1, <2>2, <1>3, <1>4
    <2>3. CASE ~(at <= i /\ i < at + first) /\ i < n - first
      <3>1. first + i + 1 \in 1..Len(data)
        BY <2>1, <2>3, <1>2, <1>3
      <3> QED BY <3>1, <2>3, <1>3, <1>4
    <2>4. CASE ~(at <= i /\ i < at + first) /\ ~(i < n - first)
      BY <2>4, <1>4, Shape
    <2> QED BY <2>2, <2>3, <2>4
  <1>6. ASSUME NEW i \in 1..(Available + n)
        PROVE  new[Masked(tail + i - 1)] =
                   IF i <= Available THEN Contents[i] ELSE data[i - Available]
    <2> DEFINE p == Masked(tail + i - 1)
    <2>1. i - 1 \in 0..BufSize /\ tail + i - 1 = tail + (i - 1) /\ i - 1 < BufSize
      BY Shape
    <2>2. p = Slot(i - 1)
      BY <2>1, SlotIsMasked
    <2>3. p \in Index
      BY <2>1, <2>2, SlotIsMasked
    <2>4. at = (IF Masked(tail) + Available < BufSize THEN Masked(tail) + Available
                ELSE Masked(tail) + Available - BufSize)
      BY <1>1 DEF Slot
    <2>5. first = (IF BufSize - at < n THEN BufSize - at ELSE n)
      BY DEF first, FirstSegment, Least
    <2> HIDE DEF p
    <2>6. PICK d \in Int : d = i - 1
      BY Shape
    <2>7. BufSize \in Nat \ {0} /\ Available \in 0..BufSize /\ Masked(tail) \in Int
          /\ 0 <= d /\ d < Available + n
      BY <2>6, <1>1, Shape
    <2>8. /\ d < Available => ~(at <= p /\ p < at + first) /\ ~(p < n - first)
          /\ d >= Available =>
                \/ at <= p /\ p < at + first /\ p - at = d - Available
                \/ /\ ~(at <= p /\ p < at + first)
                   /\ p < n - first
                   /\ first + p = d - Available
      <3>1. p = (IF Masked(tail) + d < BufSize THEN Masked(tail) + d
                 ELSE Masked(tail) + d - BufSize)
        BY <2>2, <2>6 DEF Slot
      <3>2. PICK t \in 0..(BufSize - 1) : t = Masked(tail)
        BY <1>1
      <3>3. PICK A \in 0..BufSize : A = Available
        BY <2>7
      <3>4. /\ at = (IF t + A < BufSize THEN t + A ELSE t + A - BufSize)
            /\ p = (IF t + d < BufSize THEN t + d ELSE t + d - BufSize)
            /\ 0 <= d /\ d < A + n /\ A + n <= BufSize
        BY <2>4, <2>7, <3>1, <3>2, <3>3
      <3>5. BufSize \in Nat \ {0}
        BY <2>7
      <3> HIDE DEF new
      <3>6. /\ d < A => ~(at <= p /\ p < at + first) /\ ~(p < n - first)
            /\ d >= A => \/ at <= p /\ p < at + first /\ p - at = d - A
                         \/ /\ ~(at <= p /\ p < at + first)
                            /\ p < n - first
                            /\ first + p = d - A
        BY <2>5, <3>4, <3>5
      <3> QED BY <3>3, <3>6
    <2>9. p \in Int
      BY <2>3, Shape DEF Index
    <2>10. CASE i <= Available
      <3>1. Contents[i] = buf[p]
        BY <2>10, Shape DEF Contents, p
      <3>2. ~(at <= p /\ p < at + first) /\ ~(p < n - first)
        BY <2>6, <2>7, <2>8, <2>10
      <3> QED BY <2>3, <2>10, <3>1, <3>2, <1>4 DEF p
    <2>11. CASE ~(i <= Available)
      <3>1. CASE at <= p /\ p < at + first
        <4>1. p - at + 1 = i - Available
          BY <2>6, <2>7, <2>8, <2>9, <2>11, <3>1, <1>2
        <4>2. new[p] = data[p - at + 1]
          BY <2>3, <3>1, <1>4
        <4> QED BY <2>11, <4>1, <4>2 DEF p
      <3>2. CASE ~(at <= p /\ p < at + first)
        <4>1. p < n - first /\ first + p + 1 = i - Available
          BY <2>6, <2>7, <2>8, <2>9, <2>11, <3>2, <1>2
        <4>2. new[p] = data[first + p + 1]
          BY <2>3, <3>2, <4>1, <1>4
        <4> QED BY <2>11, <4>1, <4>2 DEF p
      <3> QED BY <3>1, <3>2
    <2> QED BY <2>10, <2>11
  <1> QED BY <1>5, <1>6 DEF at

----------------------------------------------------------------------------
(* Every step keeps the types and maps to a step of the FIFO.              *)

\* The bytes held form a sequence whose length is the distance.
LEMMA ContentsShape ==
    ASSUME RingTypeOK
    PROVE  /\ Len(Contents) = Available
           /\ DOMAIN Contents = 1..Available
           /\ Contents \in [1..Available -> Byte]
  <1>1. ASSUME NEW i \in 1..Available
        PROVE  buf[Masked(tail + i - 1)] \in Byte
    <2>1. i - 1 \in 0..BufSize /\ tail + i - 1 = tail + (i - 1)
      BY Shape
    <2>2. Masked(tail + i - 1) \in Index
      BY <2>1, SlotIsMasked
    <2> QED BY <2>2, Shape
  <1>2. Contents \in [1..Available -> Byte]
    BY <1>1 DEF Contents
  <1> QED BY <1>2, Shape DEF Contents

\* Releasing the n oldest bytes.
LEMMA TailAdvances ==
    ASSUME RingTypeOK, NEW n \in Nat, n <= Available,
           tail' = (tail + n) % Mod, head' = head, buf' = buf
    PROVE  /\ Available' = Available - n
           /\ tail' \in Counter
           /\ Contents' = [i \in 1..(Available - n) |-> Contents[i + n]]
  <1>1. Available' = Available - n
    BY SizeAssumption, TailMoves DEF RingTypeOK, Counter, Available
  <1>2. tail' \in Counter
    <2>1. tail + n \in Int /\ Mod \in Nat \ {0}
      BY Shape
    <2> QED BY <2>1, DivMod DEF Counter
  <1>3. ASSUME NEW i \in 1..(Available - n)
        PROVE  buf[Masked(tail' + i - 1)] = Contents[i + n]
    <2>1. tail + n \in Int /\ i - 1 \in Int /\ i + n \in 1..Available
      BY Shape
    <2>2. (((tail + n) % Mod) + (i - 1)) % BufSize = ((tail + n) + (i - 1)) % BufSize
      BY <2>1, Shape, ModOfMod
    <2>3. /\ tail' + i - 1 = ((tail + n) % Mod) + (i - 1)
          /\ tail + (i + n) - 1 = (tail + n) + (i - 1)
      BY Shape, <1>2 DEF Counter
    <2>4. Masked(tail' + i - 1) = Masked(tail + (i + n) - 1)
      BY <2>2, <2>3 DEF Masked
    <2> QED BY <2>1, <2>4 DEF Contents
  <1>4. Contents' = [i \in 1..Available' |-> buf'[Masked(tail' + i - 1)]]
    BY DEF Contents, Masked
  <1> QED BY <1>1, <1>2, <1>3, <1>4

\* Writing n bytes behind those held.
LEMMA HeadAdvances ==
    ASSUME RingTypeOK, NEW data \in Chunk, NEW n \in Nat,
           n <= Len(data), Available + n <= BufSize,
           buf' = CopyIn(Masked(head), data, n),
           head' = (head + n) % Mod, tail' = tail
    PROVE  /\ Available' = Available + n
           /\ head' \in Counter
           /\ buf' \in [Index -> Byte]
           /\ Contents' = [i \in 1..(Available + n) |->
                              IF i <= Available THEN Contents[i]
                              ELSE data[i - Available]]
  <1>1. ((head - tail) % Mod) + n < Mod
    BY Shape DEF Available
  <1>2. Available' = Available + n
    BY SMTT(30), <1>1, SizeAssumption, HeadMoves DEF RingTypeOK, Counter, Available
  <1>3. head' \in Counter
    <2>1. head + n \in Int /\ Mod \in Nat \ {0}
      BY Shape
    <2> QED BY <2>1, DivMod DEF Counter
  <1>4. Contents' = [i \in 1..Available' |-> buf'[Masked(tail' + i - 1)]]
    BY DEF Contents, Masked
  <1> QED BY <1>2, <1>3, <1>4, CopyInAppends

\* What a read or a peek returns is a chunk the caller's buffer can hold.
LEMMA PrefixIsChunk ==
    ASSUME RingTypeOK, NEW n \in 0..MaxLen, n <= Available
    PROVE  [i \in 1..n |-> Contents[i]] \in Chunk
  BY ContentsShape, Shape DEF Chunk

LEMMA EmptyIsChunk ==
    ASSUME MaxLen \in Nat
    PROVE  <<>> \in Chunk
  BY DEF Chunk

\* The specification starts in a state of the right types.
LEMMA InitTypes == RingInit => RingTypeOK
  <1> SUFFICES ASSUME RingInit PROVE RingTypeOK
    OBVIOUS
  <1>1. (0 - 0) % Mod = 0
    BY SizeAssumption
  <1> QED BY <1>1, SizeAssumption, EmptyIsChunk
          DEF RingInit, RingTypeOK, Counter, Available

----------------------------------------------------------------------------
(* One lemma per operation: the types, and the matching step of the FIFO.  *)

LEMMA WriteStep ==
    ASSUME RingTypeOK, Write
    PROVE  RingTypeOK' /\ Queue!Write
  <1>1. PICK data \in Chunk :
            /\ buf' = CopyIn(Masked(head), data, Accepted(Len(data)))
            /\ head' = (head + Accepted(Len(data))) % Mod
            /\ tail' = tail
            /\ last' = [n |-> Accepted(Len(data)), data |-> data]
    BY DEF Write
  <1> DEFINE n == Accepted(Len(data))
  <1>2. Len(data) \in 0..MaxLen
    BY ChunkShape, Shape
  <1>3. n \in Nat /\ n <= Len(data) /\ Available + n <= BufSize /\ n \in 0..MaxLen
    BY <1>2, Shape DEF Accepted, Least, Free
  <1>4. n = Queue!Least(Len(data), BufSize - Len(Contents))
    BY ContentsShape DEF Accepted, Least, Free, Queue!Least
  <1> HIDE DEF n
  <1>5. /\ Available' = Available + n
        /\ head' \in Counter
        /\ buf' \in [Index -> Byte]
        /\ Contents' = [i \in 1..(Available + n) |->
                           IF i <= Available THEN Contents[i] ELSE data[i - Available]]
    BY <1>1, <1>3, HeadAdvances DEF n
  <1>6. RingTypeOK'
    BY <1>1, <1>3, <1>5, Shape DEF RingTypeOK, n
  <1>7. Queue!Write
    BY <1>1, <1>4, <1>5, ContentsShape DEF Queue!Write, Queue!Chunk, Chunk, n
  <1> QED BY <1>6, <1>7

LEMMA ReadStep ==
    ASSUME RingTypeOK, Read
    PROVE  RingTypeOK' /\ Queue!Read
  <1>1. PICK want \in 0..MaxLen :
            /\ last' = [n |-> Granted(want), data |-> CopyOut(Masked(tail), Granted(want))]
            /\ tail' = (tail + Granted(want)) % Mod
            /\ head' = head /\ buf' = buf
    BY DEF Read, TailAfterRead
  <1> DEFINE n == Granted(want)
  <1>2. n \in Nat /\ n <= Available /\ n \in 0..MaxLen
    BY Shape DEF Granted, Least
  <1>3. n = Queue!Least(want, Len(Contents))
    BY ContentsShape DEF Granted, Least, Queue!Least
  <1> HIDE DEF n
  <1>4. /\ Available' = Available - n
        /\ tail' \in Counter
        /\ Contents' = [i \in 1..(Available - n) |-> Contents[i + n]]
    BY <1>1, <1>2, TailAdvances DEF n
  <1>5. last' = [n |-> n, data |-> [i \in 1..n |-> Contents[i]]]
    BY <1>1, <1>2, CopyOutReads DEF n
  <1>6. last' \in [n : 0..MaxLen, data : Chunk]
    BY <1>2, <1>5, PrefixIsChunk
  <1>7. RingTypeOK'
    BY SMTT(30), <1>1, <1>2, <1>4, <1>6, Shape DEF RingTypeOK
  <1>8. Queue!Read
    BY <1>3, <1>4, <1>5, ContentsShape DEF Queue!Read
  <1> QED BY <1>7, <1>8

LEMMA PeekStep ==
    ASSUME RingTypeOK, Peek
    PROVE  RingTypeOK' /\ Queue!Peek
  <1>1. PICK want \in 0..MaxLen :
            /\ last' = [n |-> Granted(want), data |-> CopyOut(Masked(tail), Granted(want))]
            /\ tail' = tail /\ head' = head /\ buf' = buf
    BY DEF Peek
  <1> DEFINE n == Granted(want)
  <1>2. n \in Nat /\ n <= Available /\ n \in 0..MaxLen
    BY Shape DEF Granted, Least
  <1>3. n = Queue!Least(want, Len(Contents))
    BY ContentsShape DEF Granted, Least, Queue!Least
  <1> HIDE DEF n
  <1>4. Available' = Available /\ Contents' = Contents
    BY <1>1 DEF Available, Contents, Masked
  <1>5. last' = [n |-> n, data |-> [i \in 1..n |-> Contents[i]]]
    BY <1>1, <1>2, CopyOutReads DEF n
  <1>6. RingTypeOK'
    BY <1>1, <1>2, <1>4, <1>5, PrefixIsChunk DEF RingTypeOK
  <1>7. Queue!Peek
    BY <1>3, <1>4, <1>5 DEF Queue!Peek
  <1> QED BY <1>6, <1>7

LEMMA AdvanceStep ==
    ASSUME RingTypeOK, Advance
    PROVE  RingTypeOK' /\ Queue!Advance
  <1>1. PICK n \in 0..Available :
            /\ tail' = (tail + n) % Mod
            /\ last' = [n |-> 0, data |-> <<>>]
            /\ head' = head /\ buf' = buf
    BY DEF Advance, TailAfterAdvance
  <1>2. n \in Nat /\ n <= Available /\ n \in 0..Len(Contents)
    BY ContentsShape, Shape
  <1>3. /\ Available' = Available - n
        /\ tail' \in Counter
        /\ Contents' = [i \in 1..(Available - n) |-> Contents[i + n]]
    BY <1>1, <1>2, TailAdvances
  <1>4. RingTypeOK'
    BY <1>1, <1>2, <1>3, Shape, EmptyIsChunk DEF RingTypeOK
  <1>5. Queue!Advance
    BY <1>1, <1>2, <1>3, ContentsShape DEF Queue!Advance
  <1> QED BY <1>4, <1>5

LEMMA ResetRingStep ==
    ASSUME RingTypeOK, ResetRing
    PROVE  RingTypeOK' /\ Queue!Reset
  <1>1. head' = 0 /\ tail' = 0 /\ buf' = buf /\ last' = [n |-> 0, data |-> <<>>]
    BY DEF ResetRing, ClearCounters
  <1>2. Available' = 0
    BY <1>1, SizeAssumption DEF Available
  <1>3. Contents' = <<>>
    <2>1. Contents' = [i \in 1..Available' |-> buf'[Masked(tail' + i - 1)]]
      BY DEF Contents, Masked
    <2> QED BY <1>2, <2>1
  <1>4. RingTypeOK'
    BY <1>1, <1>2, SizeAssumption, EmptyIsChunk DEF RingTypeOK, Counter
  <1> QED BY <1>1, <1>3, <1>4 DEF Queue!Reset

\* A stuttering step of the ring is one of the FIFO.
LEMMA StutterStep ==
    ASSUME RingTypeOK, UNCHANGED ringVars
    PROVE  RingTypeOK' /\ Contents' = Contents /\ last' = last
  BY DEF ringVars, RingTypeOK, Available, Contents, Masked, Index, Counter, Chunk

\* The distance of the two uint16 counters never leaves 0..BufSize, for any
\* sizes that divide the counters' range and any sequence of calls
\* (src/stack/socket.go:85-205).
THEOREM RingTypesHold == RingSpec => []RingTypeOK
  <1>1. RingTypeOK /\ [RingNext]_ringVars => RingTypeOK'
    BY WriteStep, ReadStep, PeekStep, AdvanceStep, ResetRingStep, StutterStep DEF RingNext
  <1> QED BY <1>1, InitTypes, PTL DEF RingSpec

\* The two counters, the masks and the two-segment copies of the socket rings
\* implement a bounded FIFO of bytes, wherever the counters wrap.
THEOREM RingImplementsQueue == RingSpec => IsByteQueue
  <1>1. RingInit => Queue!Init
    <2> SUFFICES ASSUME RingInit PROVE Queue!Init
      OBVIOUS
    <2>1. Available = 0
      BY SizeAssumption DEF RingInit, Available
    <2> QED BY <2>1 DEF RingInit, Queue!Init, Contents
  <1>2. RingTypeOK /\ [RingNext]_ringVars => [Queue!Next]_(Queue!vars)
    BY WriteStep, ReadStep, PeekStep, AdvanceStep, ResetRingStep, StutterStep
       DEF RingNext, Queue!Next, Queue!vars
  <1> QED BY <1>1, <1>2, RingTypesHold, PTL DEF RingSpec, IsByteQueue, Queue!Spec

----------------------------------------------------------------------------
(* A TCP connection.                                                       *)

Num == 0..(SeqMod - 1)

\* The sequence number of the peer's unit k + 1.
Pos(k) == (PeerIss + 1 + k) % SeqMod

----------------------------------------------------------------------------
(* The invariant.  One part is about the socket, one about the peer, and   *)
(* one about the frames between them.                                      *)

SockRecord ==
    [st : SockState, tcp : TcpState, seq : Num, ack : Num, una : Num, win : Nat,
     armed : BOOLEAN, cnt : 0..MaxRetx, finSent : BOOLEAN, finAcked : BOOLEAN,
     finRecvd : BOOLEAN, wr : Nat, rel : Nat, rx : Seq(Nat), out : Seq(Segment)]

\* The two states of a socket agree.
Agree(s) ==
    /\ s.st \in {"Free", "Bound", "Closed"} => s.tcp = "Closed"
    /\ s.st = "Connecting" => s.tcp \in {"SynSent", "SynReceived"}
    /\ s.st = "Connected" => s.tcp \in {"Established", "CloseWait"}
    /\ s.st = "Closing" => s.tcp \in {"FinWait1", "FinWait2", "LastAck", "TimeWait"}

\* The rings are within their sizes.
Fit(s) ==
    /\ s \in SockRecord
    /\ Agree(s)
    /\ s.rel <= s.wr /\ s.wr - s.rel <= TxBuf
    /\ Len(s.rx) <= RxBuf

PeerRecord ==
    [st : {"listen", "synSent", "synRcvd", "estab", "dead"}, bytes : Nat, closes : BOOLEAN,
     rcv : Num, got : Seq(Nat), eof : BOOLEAN, unread : 0..PeerBuf, acked : Nat, sent : Nat,
     win : Nat, out : Seq(Segment)]

PeerFit(p) == p \in PeerRecord /\ p.acked <= p.sent /\ p.sent <= p.bytes + PeerFins(p)

\* A segment of a peer that sends b bytes: what it carries is the part of the
\* stream that its sequence number says, and a FIN comes at the end.
FromPeer(g, b) ==
    /\ g \in Segment
    /\ "SYN" \in g.flags => g.seq = PeerIss /\ Len(g.data) = 0 /\ "FIN" \notin g.flags
    /\ Len(g.data) > 0 \/ "FIN" \in g.flags =>
          \E start \in 0..b :
              /\ g.seq = Pos(start) /\ start + Len(g.data) <= b
              /\ \A i \in 1..Len(g.data) : g.data[i] = start + i
              /\ "FIN" \in g.flags => start + Len(g.data) = b

\* How far the socket s has come in the peer's stream, r bytes of which were
\* read.
Top(s, r) == r + Len(s.rx) + (IF s.tcp = "CloseWait" THEN 1 ELSE 0)

Receiving(s, r, b) ==
    /\ r + Len(s.rx) <= b
    /\ \A i \in 1..Len(s.rx) : s.rx[i] = r + i
    /\ s.tcp \in {"SynReceived", "Established", "CloseWait"} => s.ack = Pos(Top(s, r))
    /\ s.tcp = "CloseWait" => r + Len(s.rx) = b
    /\ s.st \in {"Bound", "Connecting"} => r = 0 /\ Len(s.rx) = 0

\* No frame of q acknowledges more than k units.
AcksWithin(q, k) ==
    \A i \in 1..Len(q) : "ACK" \in q[i].flags => \E j \in 0..k : q[i].ack = Pos(j)

\* The connection may still come up, or is up.
Alive(s) == s.st \in {"Free", "Bound", "Connecting", "Connected"}

AppRecord == [open : BOOLEAN, closed : BOOLEAN, asked : Nat, pending : Nat, full : BOOLEAN,
              read : Seq(Nat), eof : BOOLEAN]

AppFits ==
    /\ app \in AppRecord
    /\ app.pending <= app.asked
    /\ app.full => app.pending > 0
    /\ conn.st # "Free" => app.pending + conn.wr <= app.asked
    /\ app.pending > 0 => conn.st \in {"Connected", "Closed"}
    /\ app.closed => conn.st \in {"Free", "Closing", "Closed"}
    /\ conn.st = "Closing" => app.closed
    /\ conn.st = "Free" => app.closed \/ scene.passive

Flight ==
    /\ toUs \in Seq(Segment) /\ Len(toUs) <= MaxFlight
    /\ toPeer \in Seq(Segment) /\ Len(toPeer) <= MaxFlight
    /\ \A i \in 1..Len(toUs) : FromPeer(toUs[i], peer.bytes)

Acknowledged ==
    ~app.closed /\ Alive(conn) =>
        /\ AcksWithin(toPeer, Top(conn, Len(app.read)))
        /\ peer.acked <= Top(conn, Len(app.read))
        /\ conn.st = "Free" => app.read = <<>> /\ conn.rx = <<>>

Types ==
    /\ scene \in Scene /\ scene.bytes = peer.bytes
    /\ Fit(conn) /\ conn.out = <<>>
    /\ PeerFit(peer) /\ peer.out = <<>>
    /\ lost \in [in : Nat, out : Nat]

Received ==
    /\ \A i \in 1..Len(app.read) : app.read[i] = i
    /\ Receiving(conn, Len(app.read), peer.bytes)

RecvInv == Types /\ AppFits /\ Flight /\ Received /\ Acknowledged

----------------------------------------------------------------------------
(* What one handler of the stack does to a socket.                         *)

LEMMA ModNum == \A x \in Int : x % SeqMod \in Num
  BY EndpointAssumption DEF Num

\* The numbers of a socket.
LEMMA FitNumbers ==
    ASSUME NEW s, Fit(s)
    PROVE  /\ s.seq \in Num /\ s.ack \in Num /\ s.una \in Num /\ Num \subseteq Int
           /\ s.wr \in Nat /\ s.rel \in Nat /\ s.win \in Nat
           /\ TxAvailable(s) \in 0..TxBuf /\ Len(s.rx) \in 0..RxBuf /\ RxFree(s) \in 0..RxBuf
  <1>1. s \in SockRecord /\ s.rel <= s.wr /\ s.wr - s.rel <= TxBuf /\ Len(s.rx) <= RxBuf
    BY DEF Fit
  <1>2. /\ s.seq \in Num /\ s.ack \in Num /\ s.una \in Num
        /\ s.wr \in Nat /\ s.rel \in Nat /\ s.win \in Nat /\ s.rx \in Seq(Nat)
    BY <1>1 DEF SockRecord
  <1>3. Len(s.rx) \in 0..RxBuf
    BY <1>1, <1>2, EndpointAssumption
  <1> QED BY <1>1, <1>2, <1>3, EndpointAssumption DEF TxAvailable, RxFree, Num

\* The frame SendTCP appends.
FrameOf(s, flags, n) ==
    [flags |-> flags, seq |-> s.seq, ack |-> s.ack, win |-> RxFree(s),
     data |-> [i \in 1..n |-> s.rel + i]]

\* A step that only sends leaves these alone.
SameStream(s, t) ==
    /\ t.st = s.st /\ t.tcp = s.tcp /\ t.ack = s.ack /\ t.una = s.una /\ t.win = s.win
    /\ t.wr = s.wr /\ t.rel = s.rel /\ t.rx = s.rx

LEMMA FrameIsSegment ==
    ASSUME NEW s, Fit(s), NEW flags \in SUBSET Flag, NEW n \in Nat
    PROVE  FrameOf(s, flags, n) \in Segment
  <1>1. s.seq \in Num /\ s.ack \in Num /\ s.rel \in Nat /\ RxFree(s) \in Nat
    BY FitNumbers
  <1>2. [i \in 1..n |-> s.rel + i] \in Seq(Nat)
    BY <1>1
  <1> QED BY <1>1, <1>2 DEF FrameOf, Segment, Num

LEMMA SendTCPShape ==
    ASSUME NEW s, Fit(s), NEW flags \in SUBSET Flag, NEW n \in Nat
    PROVE  /\ Fit(SendTCP(s, flags, n)) /\ SameStream(s, SendTCP(s, flags, n))
           /\ SendTCP(s, flags, n).out = Append(s.out, FrameOf(s, flags, n))
           /\ SendTCP(s, flags, n).seq = (s.seq + n + Takes(flags)) % SeqMod
           /\ SendTCP(s, flags, n).armed = s.armed
           /\ SendTCP(s, flags, n).finSent = s.finSent
  <1>1. FrameOf(s, flags, n) \in Segment
    BY FrameIsSegment
  <1>2. Takes(flags) \in Nat
    BY DEF Takes
  <1>3. (s.seq + n + Takes(flags)) % SeqMod \in Num
    BY SMTT(30), <1>2, ModNum, FitNumbers
  <1>4. s \in SockRecord /\ s.out \in Seq(Segment)
    BY DEF Fit, SockRecord
  <1>5. SendTCP(s, flags, n) = [s EXCEPT !.out = Append(s.out, FrameOf(s, flags, n)),
                                         !.seq = (s.seq + n + Takes(flags)) % SeqMod]
    BY <1>4 DEF SendTCP, FrameOf, SockRecord
  <1>6. Append(s.out, FrameOf(s, flags, n)) \in Seq(Segment)
    BY <1>1, <1>4
  <1> HIDE DEF SendTCP, FrameOf
  <1>7. SendTCP(s, flags, n) \in SockRecord
    BY <1>3, <1>4, <1>5, <1>6 DEF SockRecord
  <1> QED BY <1>4, <1>5, <1>7 DEF Fit, Agree, SameStream, SockRecord

LEMMA SendFlagsShape ==
    ASSUME NEW s, Fit(s), NEW flags \in SUBSET Flag, NEW ok \in BOOLEAN
    PROVE  /\ Fit(SendFlags(s, flags, ok)) /\ SameStream(s, SendFlags(s, flags, ok))
           /\ \/ ~ok /\ SendFlags(s, flags, ok) = s
              \/ /\ ok /\ SendFlags(s, flags, ok).out = Append(s.out, FrameOf(s, flags, 0))
                 /\ SendFlags(s, flags, ok).seq = (s.seq + Takes(flags)) % SeqMod
           /\ SendFlags(s, flags, ok).armed = s.armed
           /\ SendFlags(s, flags, ok).finSent = s.finSent
  <1>1. CASE ok
    <2>1. Takes(flags) \in Nat /\ s.seq \in Int
      BY DEF Takes, Fit, SockRecord, Num
    <2>2. s.seq + 0 + Takes(flags) = s.seq + Takes(flags)
      BY <2>1
    <2> QED BY <1>1, <2>2, SendTCPShape DEF SendFlags
  <1>2. CASE ~ok
    BY <1>2 DEF SendFlags, SameStream
  <1> QED BY <1>1, <1>2

LEMMA OutputFlagsAreFlags ==
    ASSUME NEW s
    PROVE  OutputFlags(s) \in SUBSET Flag /\ ("ACK" \in OutputFlags(s) => s.tcp # "SynSent")
  BY DEF OutputFlags, Flag

LEMMA SendLenBounds ==
    ASSUME NEW s, Fit(s)
    PROVE  /\ SendLen(s) \in 0..TxAvailable(s)
           /\ SendLen(s) <= s.win /\ SendLen(s) <= Mss
  BY FitNumbers, EndpointAssumption DEF SendLen, Lesser

\* tcpOutput sends one frame, or none.
LEMMA OutputShape ==
    ASSUME NEW s, Fit(s), NEW ok \in BOOLEAN
    PROVE  /\ Fit(Output(s, ok)) /\ SameStream(s, Output(s, ok))
           /\ \/ ~ok /\ Output(s, ok).out = s.out /\ Output(s, ok).seq = s.seq
              \/ /\ ok
                 /\ Output(s, ok).out = Append(s.out, FrameOf(s, OutputFlags(s), SendLen(s)))
                 /\ Output(s, ok).seq = (s.seq + SendLen(s) + Takes(OutputFlags(s))) % SeqMod
  <1> DEFINE s1 == [s EXCEPT !.finSent = s.finSent \/ s.tcp \in {"FinWait1", "LastAck"}]
  <1>1. s \in SockRecord
    BY DEF Fit
  <1>2. s1 \in SockRecord /\ s1.finSent \in BOOLEAN
    BY <1>1 DEF SockRecord
  <1>3. /\ SameStream(s, s1) /\ s1.out = s.out /\ s1.seq = s.seq /\ s1.armed = s.armed
    BY <1>1 DEF SameStream, SockRecord
  <1>4. Output(s, ok) = IF ok THEN [SendTCP(s1, OutputFlags(s1), SendLen(s1))
                                      EXCEPT !.armed = ArmedAfter(s1)]
                        ELSE s1
    BY <1>1 DEF Output, SockRecord
  <1> HIDE DEF s1
  <1>5. Fit(s1)
    BY <1>2, <1>3 DEF Fit, Agree, SameStream
  <1>6. /\ SendLen(s1) = SendLen(s) /\ OutputFlags(s1) = OutputFlags(s)
        /\ \A flags, n : FrameOf(s1, flags, n) = FrameOf(s, flags, n)
    BY <1>3 DEF SameStream, SendLen, OutputFlags, TxAvailable, FrameOf, RxFree
  <1>7. CASE ~ok
    BY <1>3, <1>4, <1>5, <1>7
  <1>8. CASE ok
    <2> DEFINE t == SendTCP(s1, OutputFlags(s1), SendLen(s1))
    <2>1. SendLen(s1) \in Nat /\ OutputFlags(s1) \in SUBSET Flag
      BY <1>5, SendLenBounds, FitNumbers, OutputFlagsAreFlags
    <2>2. /\ Fit(t) /\ SameStream(s1, t)
          /\ t.out = Append(s1.out, FrameOf(s1, OutputFlags(s1), SendLen(s1)))
          /\ t.seq = (s1.seq + SendLen(s1) + Takes(OutputFlags(s1))) % SeqMod
      BY <1>5, <2>1, SendTCPShape
    <2>3. ArmedAfter(s1) \in BOOLEAN
      <3>1. s1.armed \in BOOLEAN
        BY <1>2 DEF SockRecord
      <3> QED BY <3>1 DEF ArmedAfter
    <2>4. Output(s, ok) = [t EXCEPT !.armed = ArmedAfter(s1)]
      BY <1>4, <1>8
    <2> HIDE DEF t
    <2>5. t \in SockRecord
      BY <2>2 DEF Fit
    <2>6. Output(s, ok) \in SockRecord
      BY <2>3, <2>4, <2>5 DEF SockRecord
    <2>7. /\ SameStream(t, Output(s, ok)) /\ Output(s, ok).out = t.out
          /\ Output(s, ok).seq = t.seq
      BY <2>4, <2>5 DEF SameStream, SockRecord
    <2>8. Fit(Output(s, ok))
      BY <2>2, <2>6, <2>7 DEF Fit, Agree, SameStream
    <2>9. SameStream(s, Output(s, ok))
      BY <1>3, <2>2, <2>7 DEF SameStream
    <2> QED BY <1>3, <1>6, <1>8, <2>2, <2>7, <2>8, <2>9
  <1> QED BY <1>7, <1>8

----------------------------------------------------------------------------
(* Sequence numbers.                                                       *)

\* Two numbers with one remainder that are less than the modulus apart.
LEMMA SameRemainder ==
    ASSUME NEW m \in Nat \ {0}, NEW x \in Int, NEW y \in Int, x % m = y % m,
           x - y < m, y - x < m
    PROVE  x = y
  <1> DEFINE p == x \div m
             q == y \div m
             d == p - q
  <1>1. p \in Int /\ q \in Int /\ x = m * p + (x % m) /\ y = m * q + (y % m)
        /\ x % m \in Int /\ y % m \in Int
    BY DivMod
  <1>2. x - y = m * d /\ d \in Int
    <2> HIDE DEF p, q
    <2> QED BY <1>1, Z3 DEF d
  <1> HIDE DEF d
  <1>3. d >= 1 => m * d >= m
    BY <1>2, Z3
  <1>4. d <= -1 => m * d <= -m
    BY <1>2, Z3
  <1>5. d = 0
    BY <1>2, <1>3, <1>4
  <1> QED BY <1>2, <1>5

\* Adding to a remainder.
LEMMA AddToRemainder ==
    ASSUME NEW m \in Nat \ {0}, NEW x \in Int, NEW n \in Int
    PROVE  ((x % m) + n) % m = (x + n) % m
  <1> DEFINE q == x \div m
             r == x % m
             y == r + n
  <1>1. q \in Int /\ r \in Int /\ x = m * q + r
    BY DivMod
  <1>2. y \in Int
    BY <1>1
  <1> HIDE DEF q, r, y
  <1>3. y \div m \in Int /\ y % m \in 0..(m - 1) /\ y = m * (y \div m) + (y % m)
    BY <1>2, DivMod
  <1> DEFINE p == y \div m
             z == y % m
  <1>4. x + n = m * q + (m * p + z)
    BY <1>1, <1>2, <1>3 DEF y
  <1>5. m * q + (m * p + z) = m * (q + p) + z
    <2> HIDE DEF p, z
    <2>1. p \in Int /\ z \in Int
      BY <1>3 DEF p, z
    <2> QED BY <1>1, <2>1, Z3
  <1>6. (m * (q + p) + z) % m = z
    <2>1. q + p \in Int
      BY <1>1, <1>3
    <2> QED BY <1>3, <2>1, ModUnique
  <1> QED BY <1>4, <1>5, <1>6 DEF r, y

\* Different units of a stream have different sequence numbers.
LEMMA PosInjective ==
    ASSUME NEW j \in Nat, NEW k \in Nat, j < SeqMod, k < SeqMod, Pos(j) = Pos(k)
    PROVE  j = k
  <1>1. PeerIss + 1 + j \in Int /\ PeerIss + 1 + k \in Int /\ SeqMod \in Nat \ {0}
    BY PeerAssumption, EndpointAssumption
  <1>2. (PeerIss + 1 + j) - (PeerIss + 1 + k) < SeqMod
        /\ (PeerIss + 1 + k) - (PeerIss + 1 + j) < SeqMod
    BY <1>1, PeerAssumption, EndpointAssumption
  <1>3. PeerIss + 1 + j = PeerIss + 1 + k
    BY <1>1, <1>2, SameRemainder DEF Pos
  <1> QED BY <1>3, PeerAssumption

LEMMA PosAdd ==
    ASSUME NEW k \in Nat, NEW n \in Nat
    PROVE  Pos(k) \in Num /\ (Pos(k) + n) % SeqMod = Pos(k + n)
  <1>1. PeerIss + 1 + k \in Int /\ SeqMod \in Nat \ {0}
        /\ (PeerIss + 1 + k) + n = PeerIss + 1 + (k + n)
    BY PeerAssumption, EndpointAssumption
  <1>2. (((PeerIss + 1 + k) % SeqMod) + n) % SeqMod = ((PeerIss + 1 + k) + n) % SeqMod
    BY <1>1, AddToRemainder
  <1> QED BY <1>1, <1>2, ModNum DEF Pos

LEMMA PosNext ==
    ASSUME NEW k \in Nat
    PROVE  Pos(k + 1) \in Num /\ (Pos(k) + 1) % SeqMod = Pos(k + 1)
  <1>1. PeerIss + 1 + k \in Int /\ SeqMod \in Nat \ {0} /\ 1 \in Int
        /\ (PeerIss + 1 + k) + 1 = PeerIss + 1 + (k + 1)
        /\ PeerIss + 1 + (k + 1) \in Int
    BY PeerAssumption, EndpointAssumption
  <1>2. (((PeerIss + 1 + k) % SeqMod) + 1) % SeqMod = ((PeerIss + 1 + k) + 1) % SeqMod
    BY <1>1, AddToRemainder
  <1> QED BY <1>1, <1>2, ModNum DEF Pos

LEMMA FirstPos == (PeerIss + 1) % SeqMod = Pos(0) /\ (PeerIss + 1 + 0) % SeqMod = Pos(0)
  <1>1. PeerIss + 1 + 0 = PeerIss + 1
    BY PeerAssumption
  <1> QED BY <1>1 DEF Pos

----------------------------------------------------------------------------
(* Acknowledgments in frames.                                              *)

LEMMA AcksMonotone ==
    ASSUME NEW q, NEW k \in Nat, NEW m \in Nat, k <= m, AcksWithin(q, k)
    PROVE  AcksWithin(q, m)
  BY DEF AcksWithin

LEMMA AcksAppend ==
    ASSUME NEW q \in Seq(Segment), NEW k \in Nat, AcksWithin(q, k),
           NEW f \in Segment, "ACK" \in f.flags => \E j \in 0..k : f.ack = Pos(j)
    PROVE  AcksWithin(Append(q, f), k)
  <1>1. Len(Append(q, f)) = Len(q) + 1 /\ Len(q) \in Nat
    OBVIOUS
  <1>2. \A i \in 1..(Len(q) + 1) : Append(q, f)[i] = IF i <= Len(q) THEN q[i] ELSE f
    OBVIOUS
  <1> QED BY <1>1, <1>2 DEF AcksWithin

LEMMA AcksJoin ==
    ASSUME NEW q \in Seq(Segment), NEW p \in Seq(Segment), NEW k \in Nat,
           AcksWithin(q, k), AcksWithin(p, k)
    PROVE  AcksWithin(q \o p, k)
  <1>1. Len(q \o p) = Len(q) + Len(p) /\ Len(q) \in Nat /\ Len(p) \in Nat
    OBVIOUS
  <1>2. \A i \in 1..(Len(q) + Len(p)) :
            (q \o p)[i] = IF i <= Len(q) THEN q[i] ELSE p[i - Len(q)]
    OBVIOUS
  <1>3. \A i \in 1..(Len(q) + Len(p)) : i > Len(q) => i - Len(q) \in 1..Len(p)
    BY <1>1
  <1> QED BY <1>1, <1>2, <1>3 DEF AcksWithin

\* What is left of a queue.
LEMMA WithoutShape ==
    ASSUME NEW q \in Seq(Segment), NEW i \in 1..Len(q)
    PROVE  /\ Without(q, i) \in Seq(Segment)
           /\ Len(Without(q, i)) = Len(q) - 1
           /\ \A j \in 1..(Len(q) - 1) :
                 Without(q, i)[j] = IF j < i THEN q[j] ELSE q[j + 1]
  <1> DEFINE front == SubSeq(q, 1, i - 1)
             back == SubSeq(q, i + 1, Len(q))
  <1>1. Len(q) \in Nat /\ i \in Nat /\ i >= 1 /\ i <= Len(q)
    OBVIOUS
  <1>2. /\ front \in Seq(Segment) /\ Len(front) = i - 1
        /\ \A j \in 1..(i - 1) : front[j] = q[j]
    BY <1>1
  <1>3. /\ back \in Seq(Segment) /\ Len(back) = Len(q) - i
        /\ \A j \in 1..(Len(q) - i) : back[j] = q[i + j]
    BY <1>1
  <1> HIDE DEF front, back
  <1>4. /\ front \o back \in Seq(Segment) /\ Len(front \o back) = Len(q) - 1
        /\ \A j \in 1..(Len(q) - 1) :
              (front \o back)[j] = IF j <= i - 1 THEN front[j] ELSE back[j - (i - 1)]
    <2>1. front \in Seq(Segment) /\ back \in Seq(Segment)
      BY <1>2, <1>3
    <2>2. /\ front \o back \in Seq(Segment) /\ Len(front \o back) = Len(front) + Len(back)
          /\ \A j \in 1..(Len(front) + Len(back)) :
                (front \o back)[j] = IF j <= Len(front) THEN front[j] ELSE back[j - Len(front)]
      BY <2>1
    <2>3. Len(front) = i - 1 /\ Len(front) + Len(back) = Len(q) - 1
      BY <1>1, <1>2, <1>3
    <2> QED BY <2>2, <2>3
  <1>5. ASSUME NEW j \in 1..(Len(q) - 1)
        PROVE  (front \o back)[j] = IF j < i THEN q[j] ELSE q[j + 1]
    <2>1. CASE j < i
      BY <1>1, <1>2, <1>4, <2>1
    <2>2. CASE j >= i
      <3>1. j - (i - 1) \in 1..(Len(q) - i) /\ i + (j - (i - 1)) = j + 1
        BY <1>1, <2>2
      <3> DEFINE k == j - (i - 1)
      <3>2. (front \o back)[j] = back[k]
        BY <1>1, <1>4, <2>2
      <3>3. back[k] = q[i + k] /\ i + k = j + 1
        BY <1>3, <3>1
      <3>4. ~(j < i)
        BY <1>1, <2>2
      <3> HIDE DEF k
      <3> QED BY <3>2, <3>3, <3>4
    <2>3. j < i \/ j >= i
      BY <1>1
    <2> QED BY <2>1, <2>2, <2>3
  <1> QED BY <1>4, <1>5 DEF Without, front, back

LEMMA AcksWithout ==
    ASSUME NEW q \in Seq(Segment), NEW i \in 1..Len(q), NEW k, AcksWithin(q, k)
    PROVE  AcksWithin(Without(q, i), k)
  <1>1. \A j \in 1..(Len(q) - 1) : j \in 1..Len(q) /\ j + 1 \in 1..Len(q)
    OBVIOUS
  <1>2. /\ Len(Without(q, i)) = Len(q) - 1
        /\ \A j \in 1..(Len(q) - 1) : Without(q, i)[j] = q[j] \/ Without(q, i)[j] = q[j + 1]
    BY WithoutShape
  <1>3. ASSUME NEW j \in 1..(Len(q) - 1) PROVE \E m \in 1..Len(q) : Without(q, i)[j] = q[m]
    BY <1>1, <1>2
  <1> DEFINE w == Without(q, i)
  <1>4. Len(w) = Len(q) - 1 /\ \A j \in 1..(Len(q) - 1) : \E m \in 1..Len(q) : w[j] = q[m]
    BY <1>2, <1>3
  <1> HIDE DEF w
  <1>5. ASSUME NEW j \in 1..Len(w), "ACK" \in w[j].flags
        PROVE  \E n \in 0..k : w[j].ack = Pos(n)
    <2>1. PICK m \in 1..Len(q) : w[j] = q[m]
      BY <1>4
    <2> QED BY <1>5, <2>1 DEF AcksWithin
  <1>6. AcksWithin(w, k)
    BY <1>5 DEF AcksWithin
  <1> QED BY <1>6 DEF w

----------------------------------------------------------------------------
(* What one handler does for the peer's stream, r units of which the       *)
(* application has read and b bytes of which there are.                    *)

Answers(s, r) == Alive(s) => AcksWithin(s.out, Top(s, r))

InOrder(s, r, b) == Fit(s) /\ Receiving(s, r, b) /\ Answers(s, r)

\* From the socket s to the socket t.
Step(s, t, r, b) ==
    /\ InOrder(t, r, b)
    /\ t.wr = s.wr
    /\ t.st \in {s.st, "Closed"} \/ (s.st = "Connecting" /\ t.st = "Connected")
    /\ Alive(t) => Top(s, r) <= Top(t, r)

SameIn(s, t) ==
    t.st = s.st /\ t.tcp = s.tcp /\ t.ack = s.ack /\ t.rx = s.rx /\ t.wr = s.wr

LEMMA TopIsNat ==
    ASSUME NEW s, Fit(s), NEW r \in Nat
    PROVE  Top(s, r) \in Nat /\ Top(s, r) >= r + Len(s.rx) /\ Top(s, r) <= r + Len(s.rx) + 1
  <1>1. Len(s.rx) \in Nat
    BY FitNumbers, EndpointAssumption
  <1>2. CASE s.tcp = "CloseWait"
    BY <1>1, <1>2 DEF Top
  <1>3. CASE s.tcp # "CloseWait"
    BY <1>1, <1>3 DEF Top
  <1> QED BY <1>2, <1>3

LEMMA StepSelf ==
    ASSUME NEW s, NEW r \in Nat, NEW b \in Nat, InOrder(s, r, b)
    PROVE  Step(s, s, r, b)
  <1>1. Top(s, r) \in Nat
    BY TopIsNat DEF InOrder
  <1>2. Top(s, r) <= Top(s, r)
    BY <1>1
  <1> QED BY <1>2 DEF Step

LEMMA StepTwice ==
    ASSUME NEW s, NEW t, NEW u, NEW r \in Nat, NEW b \in Nat,
           InOrder(s, r, b), Step(s, t, r, b), Step(t, u, r, b)
    PROVE  Step(s, u, r, b)
  <1>1. Top(s, r) \in Nat /\ Top(t, r) \in Nat /\ Top(u, r) \in Nat
    BY TopIsNat DEF InOrder, Step
  <1>2. Alive(u) => Alive(t)
    BY DEF Step, Alive
  <1>3. Alive(u) => Top(s, r) <= Top(u, r)
    BY <1>1, <1>2 DEF Step
  <1>4. u.wr = s.wr
    BY DEF Step
  <1>5. u.st \in {s.st, "Closed"} \/ (s.st = "Connecting" /\ u.st = "Connected")
    BY DEF Step
  <1> QED BY <1>3, <1>4, <1>5 DEF Step

LEMMA SameInReceives ==
    ASSUME NEW s, NEW t, NEW r, NEW b, SameIn(s, t), Receiving(s, r, b)
    PROVE  Receiving(t, r, b) /\ Top(t, r) = Top(s, r) /\ (Alive(t) <=> Alive(s))
  BY DEF SameIn, Receiving, Top, Alive

\* A step that changes nothing but our own side and sends at most a frame that
\* acknowledges what the socket has.
LEMMA EmitStep ==
    ASSUME NEW s, NEW t, NEW r \in Nat, NEW b \in Nat, InOrder(s, r, b),
           Fit(t), SameIn(s, t),
           \/ t.out = s.out
           \/ /\ s.st \notin {"Free", "Bound"}
              /\ \E f \in Segment : /\ t.out = Append(s.out, f) /\ f.ack = s.ack
                                    /\ "ACK" \in f.flags => s.tcp # "SynSent"
    PROVE  Step(s, t, r, b)
  <1>1. Receiving(t, r, b) /\ Top(t, r) = Top(s, r) /\ (Alive(t) <=> Alive(s))
    BY SameInReceives DEF InOrder
  <1>2. Fit(s) /\ Top(s, r) \in Nat
    BY TopIsNat DEF InOrder
  <1>3. ASSUME Alive(s) PROVE AcksWithin(t.out, Top(s, r))
    <2>1. AcksWithin(s.out, Top(s, r))
      BY <1>3 DEF InOrder, Answers
    <2>2. CASE t.out = s.out
      BY <2>1, <2>2
    <2>3. CASE s.st \notin {"Free", "Bound"} /\ t.out # s.out
      <3>1. PICK f \in Segment : /\ t.out = Append(s.out, f) /\ f.ack = s.ack
                                 /\ "ACK" \in f.flags => s.tcp # "SynSent"
        BY <2>3
      <3>2. s.tcp \in {"SynSent", "SynReceived", "Established", "CloseWait"}
        BY <1>2, <1>3, <2>3 DEF Fit, Agree, Alive
      <3>3. "ACK" \in f.flags => f.ack = Pos(Top(s, r))
        BY <3>1, <3>2 DEF InOrder, Receiving
      <3>4. "ACK" \in f.flags => \E j \in 0..Top(s, r) : f.ack = Pos(j)
        BY <1>2, <3>3
      <3>5. s.out \in Seq(Segment)
        BY <1>2 DEF Fit, SockRecord
      <3> QED BY <1>2, <2>1, <3>1, <3>4, <3>5, AcksAppend
    <2> QED BY <2>2, <2>3
  <1>4. Answers(t, r)
    BY <1>1, <1>3 DEF Answers
  <1> QED BY <1>1, <1>2, <1>4 DEF Step, InOrder, SameIn

LEMMA FrameFacts ==
    ASSUME NEW s, NEW flags, NEW n
    PROVE  FrameOf(s, flags, n).ack = s.ack /\ FrameOf(s, flags, n).flags = flags
  BY DEF FrameOf

LEMMA SendFlagsStep ==
    ASSUME NEW s, NEW r \in Nat, NEW b \in Nat, InOrder(s, r, b),
           NEW flags \in SUBSET Flag, NEW ok \in BOOLEAN,
           s.st \notin {"Free", "Bound"}, "ACK" \in flags => s.tcp # "SynSent"
    PROVE  Step(s, SendFlags(s, flags, ok), r, b)
  <1> DEFINE t == SendFlags(s, flags, ok)
             f == FrameOf(s, flags, 0)
  <1>1. Fit(s)
    BY DEF InOrder
  <1>2. Fit(t) /\ SameStream(s, t) /\ (t = s \/ t.out = Append(s.out, f))
    BY <1>1, SendFlagsShape
  <1>3. f \in Segment /\ f.ack = s.ack /\ f.flags = flags
    BY <1>1, FrameIsSegment, FrameFacts
  <1>4. SameIn(s, t)
    BY <1>2 DEF SameStream, SameIn
  <1> HIDE DEF t, f
  <1>5. Step(s, t, r, b)
    BY <1>2, <1>3, <1>4, EmitStep
  <1> QED BY <1>5 DEF t

LEMMA OutputStep ==
    ASSUME NEW s, NEW r \in Nat, NEW b \in Nat, InOrder(s, r, b), NEW ok \in BOOLEAN,
           s.st \notin {"Free", "Bound"}
    PROVE  Step(s, Output(s, ok), r, b)
  <1> DEFINE t == Output(s, ok)
             f == FrameOf(s, OutputFlags(s), SendLen(s))
  <1>1. Fit(s)
    BY DEF InOrder
  <1>2. Fit(t) /\ SameStream(s, t) /\ (t.out = s.out \/ t.out = Append(s.out, f))
    BY <1>1, OutputShape
  <1>3. SendLen(s) \in Nat
    BY <1>1, SendLenBounds, FitNumbers
  <1>4. f \in Segment /\ f.ack = s.ack /\ f.flags = OutputFlags(s)
    BY <1>1, <1>3, FrameIsSegment, FrameFacts, OutputFlagsAreFlags
  <1>5. SameIn(s, t)
    BY <1>2 DEF SameStream, SameIn
  <1> HIDE DEF t, f
  <1>6. Step(s, t, r, b)
    BY <1>2, <1>4, <1>5, EmitStep, OutputFlagsAreFlags
  <1> QED BY <1>6 DEF t

LEMMA AcksStep ==
    ASSUME NEW s, NEW r \in Nat, NEW b \in Nat, InOrder(s, r, b), NEW g \in Segment
    PROVE  /\ Step(s, ProcessAck(s, g), r, b)
           /\ SameIn(s, ProcessAck(s, g)) /\ ProcessAck(s, g).out = s.out
  <1> DEFINE t == ProcessAck(s, g)
             acked == AckedBytes(s, g)
  <1>1. Fit(s) /\ s \in SockRecord
    BY DEF InOrder, Fit
  <1>2. CASE ~Acceptable(s, acked)
    <2>1. t = s
      BY <1>2 DEF ProcessAck
    <2> HIDE DEF t
    <2>2. Step(s, t, r, b) /\ SameIn(s, t) /\ t.out = s.out
      BY <2>1, StepSelf DEF SameIn
    <2> QED BY <2>2 DEF t
  <1>3. CASE Acceptable(s, acked)
    <2>1. acked \in Int
      <3>1. g.ack \in Int /\ s.una \in Int
        BY <1>1 DEF Segment, SockRecord, Num
      <3>2. (g.ack - s.una) % SeqMod \in Int
        BY <3>1, ModNum DEF Num
      <3> QED BY <3>2, EndpointAssumption DEF AckedBytes, Distance
    <2>2. acked > 0 /\ acked <= s.wr - s.rel
      BY <1>3 DEF Acceptable, TxAvailable
    <2> DEFINE more == acked < TxAvailable(s)
    <2>3. t = [s EXCEPT !.rel = s.rel + acked, !.una = g.ack, !.cnt = 0, !.armed = more]
      BY <1>1, <1>3 DEF ProcessAck, SockRecord
    <2>10. more \in BOOLEAN
      OBVIOUS
    <2> HIDE DEF t, acked, more
    <2>4. s.rel \in Nat /\ s.wr \in Nat /\ g.ack \in Num /\ 0 \in 0..MaxRetx
      BY <1>1, EndpointAssumption DEF SockRecord, Segment, Num
    <2>5. s.rel + acked \in Nat /\ s.rel + acked <= s.wr /\ s.wr - (s.rel + acked) <= TxBuf
      BY <1>1, <2>1, <2>2, <2>4, EndpointAssumption DEF Fit
    <2>6. t \in SockRecord
      BY <1>1, <2>3, <2>4, <2>5, <2>10 DEF SockRecord
    <2>7. /\ t.st = s.st /\ t.tcp = s.tcp /\ t.ack = s.ack /\ t.rx = s.rx /\ t.wr = s.wr
          /\ t.out = s.out /\ t.rel = s.rel + acked
      BY <1>1, <2>3 DEF SockRecord
    <2>8. Fit(t)
      BY <1>1, <2>5, <2>6, <2>7 DEF Fit, Agree
    <2>9. SameIn(s, t)
      BY <2>7 DEF SameIn
    <2> QED BY <2>7, <2>8, <2>9, EmitStep DEF t
  <1> QED BY <1>2, <1>3

LEMMA DeadStep ==
    ASSUME NEW s, NEW r \in Nat, NEW b \in Nat, InOrder(s, r, b)
    PROVE  Step(s, Dead(s), r, b)
  <1> DEFINE t == Dead(s)
  <1>1. s \in SockRecord /\ Fit(s)
    BY DEF InOrder, Fit
  <1>2. t = [s EXCEPT !.tcp = "Closed", !.st = "Closed"]
    BY DEF Dead
  <1> HIDE DEF t
  <1>3. t \in SockRecord
    BY <1>1, <1>2 DEF SockRecord, SockState, TcpState
  <1>4. t.st = "Closed" /\ t.tcp = "Closed" /\ t.rx = s.rx /\ t.wr = s.wr /\ t.rel = s.rel
    BY <1>1, <1>2 DEF SockRecord
  <1>5. Fit(t)
    BY <1>1, <1>3, <1>4 DEF Fit, Agree
  <1>6. ~Alive(t)
    BY <1>4 DEF Alive
  <1>7. Receiving(t, r, b)
    BY <1>4 DEF InOrder, Receiving
  <1>8. Step(s, t, r, b)
    BY <1>4, <1>5, <1>6, <1>7 DEF Step, InOrder, Answers
  <1> QED BY <1>8 DEF t

LEMMA ResetStep ==
    ASSUME NEW s, NEW r \in Nat, NEW b \in Nat, InOrder(s, r, b), NEW g
    PROVE  Step(s, Reset(s, g), r, b)
  BY DeadStep, StepSelf DEF Reset

LEMMA LesserBounds ==
    ASSUME NEW x \in Nat, NEW y \in Nat
    PROVE  Lesser(x, y) \in Nat /\ Lesser(x, y) <= x /\ Lesser(x, y) <= y
  BY DEF Lesser

LEMMA SamePos ==
    ASSUME NEW b \in Nat, b + 2 <= SeqMod, NEW j \in Nat, NEW k \in Nat,
           j <= b + 1, k <= b + 1, Pos(j) = Pos(k)
    PROVE  j = k
  <1>1. j < SeqMod /\ k < SeqMod
    BY EndpointAssumption
  <1> QED BY <1>1, PosInjective

LEMMA TakeShape ==
    ASSUME NEW d \in Seq(Nat), NEW n \in Nat, n <= Len(d)
    PROVE  /\ SubSeq(d, 1, n) \in Seq(Nat) /\ Len(SubSeq(d, 1, n)) = n
           /\ \A i \in 1..n : SubSeq(d, 1, n)[i] = d[i]
  OBVIOUS

LEMMA SliceShape ==
    ASSUME NEW d \in Seq(Nat), NEW x \in Nat, NEW n \in Nat, x + n <= Len(d)
    PROVE  /\ SubSeq(d, x + 1, x + n) \in Seq(Nat) /\ Len(SubSeq(d, x + 1, x + n)) = n
           /\ \A i \in 1..n : SubSeq(d, x + 1, x + n)[i] = d[x + i]
  <1>1. \A i \in (x + 1)..(x + n) : i \in 1..Len(d)
    OBVIOUS
  <1>2. \A i \in 1..n : (x + 1) + i - 1 = x + i /\ x + i \in (x + 1)..(x + n)
    OBVIOUS
  <1>3. (x + n) - (x + 1) + 1 = n
    OBVIOUS
  <1> QED BY <1>1, <1>2, <1>3

LEMMA JoinShape ==
    ASSUME NEW x \in Seq(Nat), NEW y \in Seq(Nat)
    PROVE  /\ x \o y \in Seq(Nat) /\ Len(x \o y) = Len(x) + Len(y)
           /\ \A i \in 1..(Len(x) + Len(y)) :
                 (x \o y)[i] = IF i <= Len(x) THEN x[i] ELSE y[i - Len(x)]
  OBVIOUS

LEMMA ConnectedWhenEstablished ==
    ASSUME NEW s, Fit(s), s.tcp = "Established" PROVE s.st = "Connected"
  BY DEF Fit, Agree, SockRecord, SockState

\* The socket with the bytes of g that fit in its ring.
Taken(s, g) ==
    [s EXCEPT !.rx = @ \o SubSeq(g.data, 1, Stored(s, g)),
              !.ack = (@ + AckAdvance(s, g)) % SeqMod]

\* The socket behind the peer's FIN.
Ended(s) == [s EXCEPT !.ack = (@ + 1) % SeqMod, !.finRecvd = TRUE, !.tcp = "CloseWait"]

\* Bytes are put in the ring only when they are the next of the stream, and as
\* many are acknowledged as were put in.
LEMMA DataStep ==
    ASSUME NEW s, NEW r \in Nat, NEW b \in Nat, b + 2 <= SeqMod, InOrder(s, r, b),
           NEW g, FromPeer(g, b), s.tcp = "Established", DataInSequence(s, g),
           NEW ok \in BOOLEAN
    PROVE  /\ Step(s, SendFlags(Taken(s, g), {"ACK"}, ok), r, b)
           /\ SendFlags(Taken(s, g), {"ACK"}, ok).tcp = "Established"
  <1> DEFINE n == Stored(s, g)
             new == SubSeq(g.data, 1, n)
             u == Taken(s, g)
             have == r + Len(s.rx)
  <1>1. s \in SockRecord /\ Fit(s) /\ g \in Segment /\ Len(g.data) > 0 /\ g.seq = s.ack
    BY DEF InOrder, Fit, FromPeer, DataInSequence
  <1>2. /\ s.rx \in Seq(Nat) /\ Len(s.rx) \in Nat /\ Len(s.rx) <= RxBuf /\ RxBuf \in Nat
        /\ g.data \in Seq(Nat) /\ Len(g.data) \in Nat /\ have \in Nat
    <2>1. s.rx \in Seq(Nat) /\ Len(s.rx) <= RxBuf
      BY <1>1 DEF SockRecord, Fit
    <2>2. g.data \in Seq(Nat)
      BY <1>1 DEF Segment
    <2>3. RxBuf \in Nat
      BY EndpointAssumption
    <2> QED BY <2>1, <2>2, <2>3
  <1>3. n \in Nat /\ n <= Len(g.data) /\ Len(s.rx) + n <= RxBuf
    <2>1. RxFree(s) \in Nat /\ RxFree(s) = RxBuf - Len(s.rx)
      BY <1>2 DEF RxFree
    <2>2. n \in Nat /\ n <= Len(g.data) /\ n <= RxFree(s)
      BY <1>2, <2>1, LesserBounds DEF Stored
    <2> HIDE DEF n
    <2> QED BY <1>2, <2>1, <2>2
  <1>4. new \in Seq(Nat) /\ Len(new) = n /\ \A i \in 1..n : new[i] = g.data[i]
    BY <1>2, <1>3, TakeShape
  <1>5. s.ack = Pos(have) /\ have <= b
    BY <1>1 DEF InOrder, Receiving, Top
  <1>6. PICK start \in 0..b :
            /\ g.seq = Pos(start) /\ start + Len(g.data) <= b
            /\ \A i \in 1..Len(g.data) : g.data[i] = start + i
    BY <1>1 DEF FromPeer
  <1>7. start = have
    <2>1. start \in Nat /\ start <= b + 1 /\ have <= b + 1 /\ Pos(start) = Pos(have)
      BY <1>1, <1>2, <1>5, <1>6
    <2> QED BY <1>2, <2>1, SamePos
  <1>8. have + n <= b /\ \A i \in 1..n : new[i] = have + i
    <2>1. have + n <= b
      <3> HIDE DEF have, n
      <3> QED BY <1>2, <1>3, <1>6, <1>7
    <2>2. \A i \in 1..n : i \in 1..Len(g.data)
      BY <1>2, <1>3
    <2> QED BY <1>4, <1>6, <1>7, <2>1, <2>2
  <1>9. (s.ack + AckAdvance(s, g)) % SeqMod = Pos(have + n) /\ Pos(have + n) \in Num
    <2>1. AckAdvance(s, g) = n
      BY DEF AckAdvance
    <2> HIDE DEF n, have
    <2>2. (Pos(have) + n) % SeqMod = Pos(have + n) /\ Pos(have + n) \in Num
      <3>1. have \in Nat /\ n \in Nat /\ have + n \in Nat
        BY <1>2, <1>3
      <3> QED BY <3>1, PosAdd, Zenon
    <2> QED BY <1>5, <2>1, <2>2
  <1>10. u = [s EXCEPT !.rx = s.rx \o new, !.ack = Pos(have + n)]
    BY <1>1, <1>9 DEF SockRecord, Taken
  <1> HIDE DEF n, new, u, have
  <1>11. /\ s.rx \o new \in Seq(Nat) /\ Len(s.rx \o new) = Len(s.rx) + n
         /\ \A i \in 1..(Len(s.rx) + n) :
               (s.rx \o new)[i] = IF i <= Len(s.rx) THEN s.rx[i] ELSE new[i - Len(s.rx)]
    <2>1. /\ s.rx \o new \in Seq(Nat) /\ Len(s.rx \o new) = Len(s.rx) + Len(new)
          /\ \A i \in 1..(Len(s.rx) + Len(new)) :
               (s.rx \o new)[i] = IF i <= Len(s.rx) THEN s.rx[i] ELSE new[i - Len(s.rx)]
      BY <1>2, <1>4, JoinShape
    <2> QED BY <1>4, <2>1
  <1>12. /\ u \in SockRecord /\ u.rx = s.rx \o new /\ u.ack = Pos(have + n) /\ u.st = s.st
         /\ u.tcp = s.tcp /\ u.wr = s.wr /\ u.rel = s.rel /\ u.out = s.out
    BY <1>1, <1>9, <1>10, <1>11 DEF SockRecord
  <1>13. Fit(u)
    BY <1>1, <1>2, <1>3, <1>11, <1>12 DEF Fit, Agree
  <1>14. Top(u, r) = have + n /\ Top(s, r) = have /\ r + Len(u.rx) = have + n
    <2>1. Len(u.rx) = Len(s.rx) + n /\ u.tcp = "Established"
      BY <1>11, <1>12
    <2> QED BY <1>2, <1>3, <2>1 DEF Top, have
  <1>15. ASSUME NEW i \in 1..Len(u.rx) PROVE u.rx[i] = r + i
    <2>1. CASE i <= Len(s.rx)
      BY <1>2, <1>3, <1>11, <1>12, <2>1 DEF InOrder, Receiving
    <2>2. CASE i > Len(s.rx)
      <3>3. Len(u.rx) = Len(s.rx) + n
        BY <1>11, <1>12
      <3>4. i \in Nat /\ i <= Len(s.rx) + n
        BY <1>2, <1>3, <3>3
      <3>5. i - Len(s.rx) \in 1..n
        BY <1>2, <1>3, <2>2, <3>4
      <3>6. have + (i - Len(s.rx)) = r + i
        <4> DEFINE l == Len(s.rx)
        <4>1. l \in Nat /\ i \in Nat /\ have = r + l
          BY <1>2, <3>4 DEF have
        <4> HIDE DEF l, have
        <4>2. have + (i - l) = r + i
          BY <4>1
        <4> QED BY <4>2 DEF l
      <3>1. i - Len(s.rx) \in 1..n /\ have + (i - Len(s.rx)) = r + i
        BY <3>5, <3>6
      <3>2. u.rx[i] = new[i - Len(s.rx)]
        BY <1>2, <1>3, <1>11, <1>12, <2>2
      <3> QED BY <1>8, <3>1, <3>2
    <2> QED BY <1>2, <1>3, <1>11, <1>12, <2>1, <2>2
  <1>16. s.st = "Connected"
    BY <1>1, ConnectedWhenEstablished
  <1>17. Receiving(u, r, b)
    BY <1>8, <1>12, <1>14, <1>15, <1>16 DEF Receiving
  <1>18. Answers(u, r)
    <2>1. Answers(s, r) /\ have \in Nat /\ have + n \in Nat /\ have <= have + n
      BY <1>2, <1>3 DEF InOrder
    <2> QED BY <1>12, <1>14, <2>1, AcksMonotone DEF Answers, Alive
  <1>19. Step(s, u, r, b) /\ InOrder(u, r, b)
    BY <1>2, <1>3, <1>12, <1>13, <1>14, <1>17, <1>18 DEF Step, InOrder
  <1> DEFINE t == SendFlags(u, {"ACK"}, ok)
  <1>20. {"ACK"} \in SUBSET Flag
    BY DEF Flag
  <1>21. Step(u, t, r, b) /\ SameStream(u, t)
    BY <1>12, <1>13, <1>16, <1>19, <1>20, SendFlagsStep, SendFlagsShape
  <1>22. Step(s, t, r, b) /\ t.tcp = "Established"
    BY <1>12, <1>19, <1>21, StepTwice DEF SameStream
  <1> QED BY <1>22 DEF t, u, new, n

\* A FIN is taken only behind the last byte.
LEMMA FinStep ==
    ASSUME NEW s, NEW r \in Nat, NEW b \in Nat, b + 2 <= SeqMod, InOrder(s, r, b),
           NEW g, FromPeer(g, b), s.tcp = "Established", FinInSequence(s, g),
           NEW ok \in BOOLEAN
    PROVE  Step(s, SendFlags(Ended(s), {"ACK"}, ok), r, b)
  <1> DEFINE u == Ended(s)
             have == r + Len(s.rx)
  <1>1. /\ s \in SockRecord /\ Fit(s) /\ g \in Segment /\ "FIN" \in g.flags
        /\ (g.seq + Len(g.data)) % SeqMod = s.ack
    BY DEF InOrder, Fit, FromPeer, FinInSequence
  <1>2. Len(s.rx) \in Nat /\ have \in Nat /\ Len(g.data) \in Nat
    BY <1>1 DEF SockRecord, Segment
  <1>3. s.ack = Pos(have) /\ have <= b
    BY <1>1 DEF InOrder, Receiving, Top
  <1>4. PICK start \in 0..b : g.seq = Pos(start) /\ start + Len(g.data) = b
    BY <1>1 DEF FromPeer
  <1>5. Pos(b) = Pos(have)
    <2>1. (Pos(start) + Len(g.data)) % SeqMod = Pos(start + Len(g.data))
      <3>1. start \in Nat
        OBVIOUS
      <3> QED BY <1>2, <3>1, PosAdd, Zenon
    <2> QED BY <1>1, <1>3, <1>4, <2>1
  <1>6. have = b
    <2>1. b <= b + 1 /\ have <= b + 1
      BY <1>2, <1>3
    <2> QED BY <1>2, <1>5, <2>1, SamePos
  <1>7. (s.ack + 1) % SeqMod = Pos(b + 1) /\ Pos(b + 1) \in Num
    <2>1. (Pos(b) + 1) % SeqMod = Pos(b + 1) /\ Pos(b + 1) \in Num
      BY PosNext, Zenon
    <2> QED BY <1>3, <1>6, <2>1
  <1>8. u = [s EXCEPT !.ack = Pos(b + 1), !.finRecvd = TRUE, !.tcp = "CloseWait"]
    BY <1>1, <1>7 DEF SockRecord, Ended
  <1>9. s.st = "Connected"
    BY <1>1, ConnectedWhenEstablished
  <1> HIDE DEF u
  <1>10. /\ u \in SockRecord /\ u.rx = s.rx /\ u.ack = Pos(b + 1) /\ u.st = s.st
         /\ u.tcp = "CloseWait" /\ u.wr = s.wr /\ u.rel = s.rel /\ u.out = s.out
    BY <1>1, <1>7, <1>8 DEF SockRecord, TcpState
  <1>11. Fit(u)
    BY <1>1, <1>9, <1>10 DEF Fit, Agree
  <1>12. Top(u, r) = b + 1 /\ Top(s, r) = b /\ r + Len(u.rx) = b
    BY <1>1, <1>2, <1>6, <1>10 DEF Top
  <1>13. Receiving(u, r, b)
    BY <1>9, <1>10, <1>12 DEF Receiving, InOrder
  <1>14. Answers(u, r)
    <2>1. Answers(s, r) /\ b <= b + 1 /\ b + 1 \in Nat
      BY DEF InOrder
    <2> QED BY <1>10, <1>12, <2>1, AcksMonotone DEF Answers, Alive
  <1>15. Step(s, u, r, b) /\ InOrder(u, r, b)
    BY <1>10, <1>11, <1>12, <1>13, <1>14 DEF Step, InOrder
  <1>16. {"ACK"} \in SUBSET Flag
    BY DEF Flag
  <1> DEFINE t == SendFlags(u, {"ACK"}, ok)
  <1>17. Step(u, t, r, b)
    BY <1>9, <1>10, <1>15, <1>16, SendFlagsStep
  <1>18. Step(s, t, r, b)
    BY <1>15, <1>17, StepTwice
  <1> QED BY <1>18 DEF t, u

LEMMA EstablishedStep ==
    ASSUME NEW s, NEW r \in Nat, NEW b \in Nat, b + 2 <= SeqMod, InOrder(s, r, b),
           NEW g, FromPeer(g, b), s.tcp = "Established", NEW ok \in BOOLEAN
    PROVE  Step(s, InEstablished(s, g, ok), r, b)
  <1> DEFINE s1 == IF "ACK" \in g.flags THEN [ProcessAck(s, g) EXCEPT !.win = g.win] ELSE s
             s2 == IF DataInSequence(s1, g) THEN SendFlags(Taken(s1, g), {"ACK"}, ok) ELSE s1
             s3 == IF FinInSequence(s2, g) THEN SendFlags(Ended(s2), {"ACK"}, ok) ELSE s2
  <1>0. InEstablished(s, g, ok) = Reset(s3, g)
    BY Zenon DEF InEstablished, Taken, Ended
  <1>1. g \in Segment
    BY DEF FromPeer
  <1>2. Step(s, s1, r, b) /\ s1.tcp = "Established"
    <2>1. CASE "ACK" \notin g.flags
      BY <2>1, StepSelf
    <2>2. CASE "ACK" \in g.flags
      <3> DEFINE p == ProcessAck(s, g)
      <3>1. Step(s, p, r, b) /\ SameIn(s, p)
        BY <1>1, AcksStep
      <3>2. s1 = [p EXCEPT !.win = g.win]
        BY <2>2
      <3> HIDE DEF p, s1
      <3>3. p \in SockRecord /\ Fit(p) /\ g.win \in Nat
        BY <1>1, <3>1 DEF Step, InOrder, Fit, Segment
      <3>4. /\ s1 \in SockRecord /\ s1.st = p.st /\ s1.tcp = p.tcp /\ s1.ack = p.ack
            /\ s1.rx = p.rx /\ s1.wr = p.wr /\ s1.rel = p.rel /\ s1.out = p.out
        BY <3>2, <3>3 DEF SockRecord
      <3>5. Fit(s1) /\ SameIn(p, s1)
        BY <3>3, <3>4 DEF Fit, Agree, SameIn
      <3>6. InOrder(p, r, b)
        BY <3>1 DEF Step
      <3>7. Step(p, s1, r, b)
        BY <3>4, <3>5, <3>6, EmitStep
      <3>8. Step(s, s1, r, b)
        BY <3>1, <3>7, StepTwice
      <3> QED BY <3>1, <3>4, <3>8 DEF SameIn
    <2> QED BY <2>1, <2>2
  <1>3. InOrder(s1, r, b)
    BY <1>2 DEF Step
  <1> HIDE DEF s1
  <1>4. Step(s1, s2, r, b) /\ s2.tcp = "Established"
    <2>1. CASE DataInSequence(s1, g)
      <3>1. Step(s1, SendFlags(Taken(s1, g), {"ACK"}, ok), r, b)
            /\ SendFlags(Taken(s1, g), {"ACK"}, ok).tcp = "Established"
        BY <1>2, <1>3, <2>1, DataStep
      <3> QED BY <2>1, <3>1
    <2>2. CASE ~DataInSequence(s1, g)
      BY <1>2, <1>3, <2>2, StepSelf
    <2> QED BY <2>1, <2>2
  <1>5. InOrder(s2, r, b)
    BY <1>4 DEF Step
  <1> HIDE DEF s2
  <1>6. Step(s2, s3, r, b)
    <2>1. CASE FinInSequence(s2, g)
      <3>1. Step(s2, SendFlags(Ended(s2), {"ACK"}, ok), r, b)
        BY <1>4, <1>5, <2>1, FinStep
      <3> QED BY <2>1, <3>1
    <2>2. CASE ~FinInSequence(s2, g)
      BY <1>5, <2>2, StepSelf
    <2> QED BY <2>1, <2>2
  <1>7. InOrder(s3, r, b)
    BY <1>6 DEF Step
  <1> HIDE DEF s3
  <1>8. Step(s3, Reset(s3, g), r, b)
    BY <1>7, ResetStep
  <1>9. Step(s, s2, r, b)
    BY <1>2, <1>4, StepTwice
  <1>10. Step(s, s3, r, b)
    BY <1>6, <1>9, StepTwice
  <1>11. Step(s, Reset(s3, g), r, b)
    BY <1>8, <1>10, StepTwice
  <1> QED BY <1>0, <1>11, Zenon

LEMMA SynSentStep ==
    ASSUME NEW s, NEW r \in Nat, NEW b \in Nat, InOrder(s, r, b),
           NEW g, FromPeer(g, b), s.tcp = "SynSent", NEW ok \in BOOLEAN
    PROVE  Step(s, InSynSent(s, g, ok), r, b)
  <1> DEFINE u == [s EXCEPT !.ack = (g.seq + 1) % SeqMod, !.seq = g.ack, !.una = g.ack,
                            !.win = g.win, !.tcp = "Established", !.st = "Connected",
                            !.armed = FALSE]
             t == SendFlags(u, {"ACK"}, ok)
  <1>1. CASE ~({"SYN", "ACK"} \subseteq g.flags)
    <2>1. InSynSent(s, g, ok) = Reset(s, g)
      BY <1>1 DEF InSynSent
    <2> QED BY <2>1, ResetStep
  <1>2. CASE {"SYN", "ACK"} \subseteq g.flags
    <2>1. s \in SockRecord /\ Fit(s) /\ g \in Segment /\ g.seq = PeerIss
      BY <1>2 DEF InOrder, Fit, FromPeer
    <2>2. s.st = "Connecting"
      BY <2>1 DEF Fit, Agree, SockRecord, SockState
    <2>3. r = 0 /\ Len(s.rx) = 0
      BY <2>2 DEF InOrder, Receiving
    <2>4. (g.seq + 1) % SeqMod = Pos(0) /\ Pos(0) \in Num
      <3>1. Pos(0) \in Num
        BY FirstPos, PeerAssumption, ModNum
      <3> QED BY <2>1, <3>1, FirstPos
    <2>5. InSynSent(s, g, ok) = t
      BY <1>2 DEF InSynSent
    <2>6. g.ack \in Num /\ g.win \in Nat
      BY <2>1 DEF Segment, Num
    <2> DEFINE first == (g.seq + 1) % SeqMod
    <2>7. u = [s EXCEPT !.ack = first, !.seq = g.ack, !.una = g.ack, !.win = g.win,
                        !.tcp = "Established", !.st = "Connected", !.armed = FALSE]
      OBVIOUS
    <2> HIDE DEF u, first
    <2>8. first \in Num /\ first = Pos(0)
      BY <2>4 DEF first
    <2>9. /\ u \in SockRecord /\ u.rx = s.rx /\ u.ack = Pos(0) /\ u.st = "Connected"
          /\ u.tcp = "Established" /\ u.wr = s.wr /\ u.rel = s.rel /\ u.out = s.out
      BY <2>1, <2>6, <2>7, <2>8 DEF SockRecord, SockState, TcpState
    <2>10. Fit(u)
      BY <2>1, <2>9 DEF Fit, Agree
    <2>11. Top(s, r) = 0 /\ Top(u, r) = 0 /\ Alive(s)
      BY <2>2, <2>3, <2>9 DEF Top, Alive
    <2>12. Receiving(u, r, b)
      BY <2>3, <2>9, <2>11 DEF Receiving
    <2>13. Answers(u, r)
      BY <2>9, <2>11 DEF InOrder, Answers
    <2>14. Step(s, u, r, b) /\ InOrder(u, r, b)
      BY <2>2, <2>9, <2>10, <2>11, <2>12, <2>13 DEF Step, InOrder
    <2>15. {"ACK"} \in SUBSET Flag
      BY DEF Flag
    <2> HIDE DEF t
    <2>16. Step(u, t, r, b)
      BY <2>9, <2>14, <2>15, SendFlagsStep DEF t
    <2> QED BY <2>5, <2>14, <2>16, StepTwice
  <1> QED BY <1>1, <1>2

\* A socket that is closing or closed takes no more of the stream.
LEMMA GoneStep ==
    ASSUME NEW s, NEW t, NEW r \in Nat, NEW b \in Nat, InOrder(s, r, b),
           Fit(t), t.st \in {s.st, "Closed"}, t.st \in {"Closing", "Closed"},
           t.rx = s.rx, t.wr = s.wr
    PROVE  Step(s, t, r, b)
  <1>1. ~Alive(t) /\ t.tcp \notin {"SynReceived", "Established", "CloseWait"}
        /\ t.st \notin {"Bound", "Connecting"}
    BY DEF Alive, Fit, Agree
  <1>2. Receiving(t, r, b)
    BY <1>1 DEF InOrder, Receiving
  <1> QED BY <1>1, <1>2 DEF Step, InOrder, Answers

\* The states of a closing socket, and what a change among them keeps.
LEMMA ClosingWhenFinWait ==
    ASSUME NEW s, Fit(s), s.tcp \in {"FinWait1", "FinWait2", "LastAck", "TimeWait"}
    PROVE  s.st = "Closing"
  BY DEF Fit, Agree, SockRecord, SockState

LEMMA ClosingFits ==
    ASSUME NEW s, Fit(s), s.st = "Closing", NEW t \in SockRecord,
           t.st = "Closing", t.tcp \in {"FinWait1", "FinWait2", "LastAck", "TimeWait"},
           t.rx = s.rx, t.wr = s.wr, t.rel = s.rel
    PROVE  Fit(t)
  BY DEF Fit, Agree

\* A closing socket behind the peer's FIN.
FinTaken(s, g, m) ==
    [s EXCEPT !.ack = (g.seq + 1) % SeqMod, !.tcp = "TimeWait", !.armed = m]

LEMMA FinTakenFits ==
    ASSUME NEW s, Fit(s), s.st = "Closing", NEW g \in Segment, NEW ok \in BOOLEAN, NEW m \in BOOLEAN
    PROVE  LET t == SendFlags(FinTaken(s, g, m), {"ACK"}, ok)
           IN Fit(t) /\ t.st = "Closing" /\ t.rx = s.rx /\ t.wr = s.wr
  <1> DEFINE next == (g.seq + 1) % SeqMod
             u == FinTaken(s, g, m)
  <1>1. s \in SockRecord /\ g.seq \in Int
    BY DEF Fit, Segment
  <1>2. next \in Num
    <2>1. g.seq + 1 \in Int
      BY <1>1
    <2> QED BY <2>1, ModNum
  <1>8. u = [s EXCEPT !.ack = next, !.tcp = "TimeWait", !.armed = m]
    BY DEF FinTaken
  <1> HIDE DEF next, u
  <1>3. /\ u \in SockRecord /\ u.st = "Closing" /\ u.tcp = "TimeWait" /\ u.rx = s.rx
        /\ u.wr = s.wr /\ u.rel = s.rel
    BY <1>1, <1>2, <1>8 DEF SockRecord, TcpState
  <1>4. Fit(u)
    BY <1>3, ClosingFits
  <1>5. {"ACK"} \in SUBSET Flag
    BY DEF Flag
  <1>6. SameStream(u, SendFlags(u, {"ACK"}, ok)) /\ Fit(SendFlags(u, {"ACK"}, ok))
    BY <1>4, <1>5, SendFlagsShape
  <1>7. Fit(SendFlags(u, {"ACK"}, ok)) /\ SendFlags(u, {"ACK"}, ok).st = "Closing"
        /\ SendFlags(u, {"ACK"}, ok).rx = s.rx /\ SendFlags(u, {"ACK"}, ok).wr = s.wr
    BY <1>3, <1>6 DEF SameStream
  <1> QED BY <1>7 DEF u

LEMMA FinWait1Step ==
    ASSUME NEW s, NEW r \in Nat, NEW b \in Nat, InOrder(s, r, b),
           NEW g, FromPeer(g, b), s.tcp = "FinWait1", NEW ok \in BOOLEAN
    PROVE  Step(s, InFinWait1(s, g, ok), r, b)
  <1> DEFINE s1 == IF "ACK" \in g.flags THEN ProcessAck(s, g) ELSE s
             acked == "ACK" \in g.flags /\ s1.finSent /\ g.ack = s1.seq
             s2 == IF acked THEN [s1 EXCEPT !.finAcked = TRUE, !.tcp = "FinWait2"] ELSE s1
             fin == "FIN" \in g.flags /\ (acked \/ (~s2.finAcked /\ g.seq = s2.ack))
             u == [s2 EXCEPT !.ack = (g.seq + 1) % SeqMod, !.tcp = "TimeWait"]
  <1>0. InFinWait1(s, g, ok) = IF fin THEN SendFlags(u, {"ACK"}, ok) ELSE s2
    BY Zenon DEF InFinWait1
  <1>1. g \in Segment /\ Fit(s)
    BY DEF FromPeer, InOrder
  <1>2. s.st = "Closing"
    BY <1>1, ClosingWhenFinWait
  <1>3. Fit(s1) /\ SameIn(s, s1)
    <2>1. Fit(ProcessAck(s, g)) /\ SameIn(s, ProcessAck(s, g))
      BY <1>1, AcksStep DEF Step, InOrder
    <2> QED BY <1>1, <2>1 DEF SameIn
  <1> HIDE DEF s1
  <1>4. Fit(s2) /\ s2.st = "Closing" /\ s2.rx = s.rx /\ s2.wr = s.wr
    <2>1. CASE ~acked
      BY <1>2, <1>3, <2>1 DEF SameIn
    <2>2. CASE acked
      <3>1. s2 = [s1 EXCEPT !.finAcked = TRUE, !.tcp = "FinWait2"]
        BY <2>2
      <3>2. s1 \in SockRecord
        BY <1>3 DEF Fit
      <3> HIDE DEF s2
      <3>3. /\ s2 \in SockRecord /\ s2.st = s1.st /\ s2.rx = s1.rx /\ s2.wr = s1.wr
            /\ s2.rel = s1.rel /\ s2.tcp = "FinWait2"
        BY <3>1, <3>2 DEF SockRecord, TcpState
      <3>4. s1.st = "Closing"
        BY <1>2, <1>3 DEF SameIn
      <3>5. Fit(s2)
        BY <1>3, <3>3, <3>4, ClosingFits
      <3> QED BY <1>2, <1>3, <3>3, <3>5 DEF SameIn
    <2> QED BY <2>1, <2>2
  <1> HIDE DEF s2
  <1>5. CASE ~fin
    <2>1. InFinWait1(s, g, ok) = s2
      BY <1>0, <1>5
    <2> QED BY <1>2, <1>4, <2>1, GoneStep
  <1>6. CASE fin
    <2>1. s2 \in SockRecord /\ s2.armed \in BOOLEAN
      BY <1>4 DEF Fit, SockRecord
    <2>2. u = FinTaken(s2, g, s2.armed)
      BY <2>1 DEF FinTaken, SockRecord
    <2> HIDE DEF u
    <2> DEFINE t == SendFlags(u, {"ACK"}, ok)
    <2>3. Fit(t) /\ t.st = "Closing" /\ t.rx = s2.rx /\ t.wr = s2.wr
      BY <1>1, <1>4, <2>1, <2>2, FinTakenFits
    <2>4. InFinWait1(s, g, ok) = t
      BY <1>0, <1>6
    <2> HIDE DEF t
    <2> QED BY <1>2, <1>4, <2>3, <2>4, GoneStep
  <1> QED BY <1>5, <1>6

LEMMA FinWait2Step ==
    ASSUME NEW s, NEW r \in Nat, NEW b \in Nat, InOrder(s, r, b),
           NEW g, FromPeer(g, b), s.tcp = "FinWait2", NEW ok \in BOOLEAN
    PROVE  Step(s, InFinWait2(s, g, ok), r, b)
  <1>1. g \in Segment /\ Fit(s)
    BY DEF FromPeer, InOrder
  <1>2. s.st = "Closing"
    BY <1>1, ClosingWhenFinWait
  <1>3. CASE "FIN" \in g.flags /\ g.seq = s.ack
    <2> DEFINE t == SendFlags(FinTaken(s, g, TRUE), {"ACK"}, ok)
    <2>1. InFinWait2(s, g, ok) = t
      BY <1>3 DEF InFinWait2, FinTaken
    <2>2. Fit(t) /\ t.st = "Closing" /\ t.rx = s.rx /\ t.wr = s.wr
      BY <1>1, <1>2, FinTakenFits
    <2> HIDE DEF t
    <2> QED BY <1>2, <2>1, <2>2, GoneStep
  <1>4. CASE ~("FIN" \in g.flags /\ g.seq = s.ack)
    BY <1>4, StepSelf DEF InFinWait2
  <1> QED BY <1>3, <1>4

LEMMA SynReceivedStep ==
    ASSUME NEW s, NEW r \in Nat, NEW b \in Nat, InOrder(s, r, b),
           NEW g, s.tcp = "SynReceived"
    PROVE  Step(s, InSynReceived(s, g), r, b)
  <1> DEFINE u == [s EXCEPT !.tcp = "Established", !.st = "Connected"]
             s1 == IF "ACK" \in g.flags THEN u ELSE s
  <1>1. InSynReceived(s, g) = Reset(s1, g)
    BY DEF InSynReceived
  <1>2. Step(s, u, r, b)
    <2>1. s \in SockRecord /\ Fit(s)
      BY DEF InOrder, Fit
    <2>2. s.st = "Connecting"
      BY <2>1 DEF Fit, Agree, SockRecord, SockState
    <2>3. /\ u \in SockRecord /\ u.st = "Connected" /\ u.tcp = "Established" /\ u.rx = s.rx
          /\ u.ack = s.ack /\ u.wr = s.wr /\ u.rel = s.rel /\ u.out = s.out
      BY <2>1 DEF SockRecord, SockState, TcpState
    <2> HIDE DEF u
    <2>4. Fit(u)
      BY <2>1, <2>3 DEF Fit, Agree
    <2>5. Top(s, r) = Top(u, r) /\ Alive(s) /\ Top(s, r) \in Nat
      BY <2>1, <2>2, <2>3, TopIsNat DEF Top, Alive
    <2>6. Receiving(u, r, b)
      BY <2>3, <2>5 DEF InOrder, Receiving
    <2>7. Answers(u, r)
      BY <2>3, <2>5 DEF InOrder, Answers
    <2> QED BY <2>2, <2>3, <2>4, <2>5, <2>6, <2>7 DEF Step, InOrder
  <1>3. Step(s, s1, r, b)
    BY <1>2, StepSelf
  <1>4. InOrder(s1, r, b)
    BY <1>3 DEF Step
  <1> HIDE DEF s1
  <1>5. Step(s1, Reset(s1, g), r, b)
    BY <1>4, ResetStep
  <1> QED BY <1>1, <1>3, <1>5, StepTwice

\* A segment handed to a socket.
LEMMA InputStep ==
    ASSUME NEW s, NEW r \in Nat, NEW b \in Nat, b + 2 <= SeqMod, InOrder(s, r, b),
           NEW g, FromPeer(g, b), NEW ok \in BOOLEAN
    PROVE  Step(s, TcpInput(s, g, ok), r, b)
  <1>1. g \in Segment
    BY DEF FromPeer
  <1>2. CASE s.tcp = "SynSent"
    BY <1>2, SynSentStep DEF TcpInput
  <1>3. CASE s.tcp = "Established"
    BY <1>3, EstablishedStep DEF TcpInput
  <1>4. CASE s.tcp = "FinWait1"
    BY <1>4, FinWait1Step DEF TcpInput
  <1>5. CASE s.tcp = "FinWait2"
    BY <1>5, FinWait2Step DEF TcpInput
  <1>6. CASE s.tcp = "CloseWait"
    <2>1. Step(s, InCloseWait(s, g), r, b)
      BY <1>1, AcksStep, StepSelf DEF InCloseWait
    <2> QED BY <1>6, <2>1 DEF TcpInput
  <1>7. CASE s.tcp = "LastAck"
    <2>1. Step(s, InLastAck(s, g), r, b)
      BY DeadStep, StepSelf DEF InLastAck
    <2> QED BY <1>7, <2>1 DEF TcpInput
  <1>8. CASE s.tcp = "SynReceived"
    BY <1>8, SynReceivedStep DEF TcpInput
  <1>9. CASE s.tcp \notin {"SynSent", "Established", "FinWait1", "FinWait2", "CloseWait",
                           "LastAck", "SynReceived"}
    <2>1. TcpInput(s, g, ok) = s
      BY <1>9 DEF TcpInput
    <2> QED BY <2>1, StepSelf
  <1> QED BY <1>2, <1>3, <1>4, <1>5, <1>6, <1>7, <1>8, <1>9

LEMMA TimerStep ==
    ASSUME NEW s, NEW r \in Nat, NEW b \in Nat, InOrder(s, r, b),
           TimerRuns(s), NEW ok \in BOOLEAN
    PROVE  Step(s, TimerExpired(s, ok), r, b)
  <1> DEFINE u == [s EXCEPT !.cnt = @ + 1, !.seq = Rewound(s), !.armed = TRUE]
  <1>1. s \in SockRecord /\ Fit(s)
    BY DEF InOrder, Fit
  <1>2. CASE s.tcp = "TimeWait" \/ s.cnt >= MaxRetx
    BY <1>2, DeadStep DEF TimerExpired
  <1>3. CASE ~(s.tcp = "TimeWait" \/ s.cnt >= MaxRetx)
    <2>1. s.cnt + 1 \in 0..MaxRetx
      BY <1>1, <1>3, EndpointAssumption DEF SockRecord
    <2>2. u = [s EXCEPT !.cnt = s.cnt + 1, !.seq = s.una, !.armed = TRUE]
      BY <1>1 DEF Rewound, SockRecord
    <2>3. TimerExpired(s, ok) = Output(u, ok)
      BY <1>3 DEF TimerExpired
    <2> HIDE DEF u
    <2>4. /\ u \in SockRecord /\ u.rx = s.rx /\ u.ack = s.ack /\ u.st = s.st /\ u.tcp = s.tcp
          /\ u.wr = s.wr /\ u.rel = s.rel /\ u.out = s.out
      BY <1>1, <2>1, <2>2 DEF SockRecord
    <2>5. Fit(u) /\ SameIn(s, u)
      BY <1>1, <2>4 DEF Fit, Agree, SameIn
    <2>6. Step(s, u, r, b)
      BY <2>4, <2>5, EmitStep
    <2>7. InOrder(u, r, b) /\ u.st \notin {"Free", "Bound"}
      BY <1>1, <2>4, <2>6 DEF Step, TimerRuns, Fit, Agree
    <2>8. Step(u, Output(u, ok), r, b)
      BY <2>7, OutputStep
    <2> QED BY <2>3, <2>6, <2>8, StepTwice
  <1> QED BY <1>2, <1>3

----------------------------------------------------------------------------
(* The calls of the application.                                           *)

LEMMA ArmedStep ==
    ASSUME NEW s, NEW r \in Nat, NEW b \in Nat, InOrder(s, r, b)
    PROVE  Step(s, [s EXCEPT !.armed = TRUE], r, b)
  <1> DEFINE u == [s EXCEPT !.armed = TRUE]
  <1>1. s \in SockRecord /\ Fit(s)
    BY DEF InOrder, Fit
  <1>2. /\ u \in SockRecord /\ u.rx = s.rx /\ u.ack = s.ack /\ u.st = s.st /\ u.tcp = s.tcp
        /\ u.wr = s.wr /\ u.rel = s.rel /\ u.out = s.out
    BY <1>1 DEF SockRecord
  <1> HIDE DEF u
  <1>3. Fit(u) /\ SameIn(s, u)
    BY <1>1, <1>2 DEF Fit, Agree, SameIn
  <1>4. Step(s, u, r, b)
    BY <1>2, <1>3, EmitStep
  <1> QED BY <1>4 DEF u

LEMMA ConnectCall ==
    ASSUME NEW s, NEW r \in Nat, NEW b \in Nat, InOrder(s, r, b), s.st = "Bound",
           NEW ok \in BOOLEAN
    PROVE  /\ InOrder(ConnectStart(s, ok), r, b)
           /\ ConnectStart(s, ok).wr = s.wr
           /\ ConnectStart(s, ok).st = "Connecting"
           /\ Alive(ConnectStart(s, ok)) => Top(s, r) <= Top(ConnectStart(s, ok), r)
  <1> DEFINE u == [s EXCEPT !.st = "Connecting", !.tcp = "SynSent", !.seq = Iss, !.una = Iss,
                            !.ack = 0]
             v == SendFlags(u, {"SYN"}, ok)
             t == [v EXCEPT !.armed = TRUE]
  <1>1. s \in SockRecord /\ Fit(s) /\ Iss \in Num /\ 0 \in Num
    BY EndpointAssumption DEF InOrder, Fit, Num
  <1>2. ConnectStart(s, ok) = t
    BY DEF ConnectStart
  <1> HIDE DEF t, v
  <1>3. /\ u \in SockRecord /\ u.rx = s.rx /\ u.ack = 0 /\ u.st = "Connecting"
        /\ u.tcp = "SynSent" /\ u.wr = s.wr /\ u.rel = s.rel /\ u.out = s.out
    BY <1>1 DEF SockRecord, SockState, TcpState
  <1> HIDE DEF u
  <1>4. Fit(u)
    BY <1>1, <1>3 DEF Fit, Agree
  <1>5. r = 0 /\ Len(s.rx) = 0
    BY DEF InOrder, Receiving
  <1>6. s.tcp = "Closed"
    BY <1>1 DEF Fit, Agree
  <1>7. Top(u, r) = 0 /\ Top(s, r) = 0
    BY <1>3, <1>5, <1>6 DEF Top
  <1>8. Receiving(u, r, b)
    BY <1>3, <1>5, <1>7 DEF Receiving
  <1>9. Answers(u, r)
    BY <1>3, <1>7 DEF InOrder, Answers, Alive
  <1>10. InOrder(u, r, b)
    BY <1>4, <1>8, <1>9 DEF InOrder
  <1>11. {"SYN"} \in SUBSET Flag /\ "ACK" \notin {"SYN"}
    BY DEF Flag
  <1>12. Step(u, v, r, b)
    BY <1>3, <1>10, <1>11, SendFlagsStep DEF v
  <1>13. InOrder(v, r, b)
    BY <1>12 DEF Step
  <1>14. Step(v, t, r, b)
    BY <1>13, ArmedStep DEF t
  <1>15. Step(u, t, r, b)
    BY <1>10, <1>12, <1>14, StepTwice
  <1>16. /\ SameStream(u, v) /\ v \in SockRecord
    BY <1>4, <1>11, <1>13, SendFlagsShape DEF v, InOrder, Fit
  <1>17. t.st = "Connecting"
    BY <1>3, <1>16 DEF SameStream, SockRecord, t
  <1> QED BY <1>2, <1>3, <1>7, <1>15, <1>17 DEF Step

LEMMA SendCall ==
    ASSUME NEW s, NEW r \in Nat, NEW b \in Nat, InOrder(s, r, b),
           s.st \notin {"Free", "Bound"},
           NEW n \in Nat, n <= TxFree(s), NEW ok \in BOOLEAN
    PROVE  /\ InOrder(SendTurn(s, n, ok), r, b)
           /\ SendTurn(s, n, ok).wr = s.wr + n
           /\ SendTurn(s, n, ok).st = s.st
           /\ Alive(SendTurn(s, n, ok)) => Top(s, r) <= Top(SendTurn(s, n, ok), r)
  <1> DEFINE u == [s EXCEPT !.wr = @ + n]
             t == Output(u, ok)
  <1>1. s \in SockRecord /\ Fit(s) /\ s.wr \in Nat /\ s.rel \in Nat
    BY DEF InOrder, Fit, SockRecord
  <1>2. s.wr + n \in Nat /\ s.rel <= s.wr + n /\ (s.wr + n) - s.rel <= TxBuf
    BY <1>1, EndpointAssumption DEF Fit, TxFree, TxAvailable
  <1>3. SendTurn(s, n, ok) = t
    BY DEF SendTurn
  <1> HIDE DEF t
  <1>4. /\ u \in SockRecord /\ u.rx = s.rx /\ u.ack = s.ack /\ u.st = s.st
        /\ u.tcp = s.tcp /\ u.wr = s.wr + n /\ u.rel = s.rel /\ u.out = s.out
    BY <1>1, <1>2 DEF SockRecord
  <1> HIDE DEF u
  <1>5. Fit(u)
    BY <1>1, <1>2, <1>4 DEF Fit, Agree
  <1>6. Receiving(u, r, b) /\ Top(u, r) = Top(s, r)
    BY <1>4 DEF InOrder, Receiving, Top
  <1>7. Answers(u, r)
    BY <1>4, <1>6 DEF InOrder, Answers, Alive
  <1>8. InOrder(u, r, b)
    BY <1>5, <1>6, <1>7 DEF InOrder
  <1>9. Step(u, t, r, b)
    BY <1>4, <1>8, OutputStep DEF t
  <1>10. SameStream(u, t)
    BY <1>5, OutputShape DEF t
  <1> QED BY <1>3, <1>4, <1>6, <1>9, <1>10 DEF Step, SameStream

\* Reading moves the boundary between what was read and what waits.
LEMMA RecvCall ==
    ASSUME NEW s, NEW r \in Nat, NEW b \in Nat, InOrder(s, r, b),
           s.st \notin {"Bound", "Connecting"}, NEW k \in 1..Len(s.rx)
    PROVE  /\ InOrder(RecvTake(s, k), r + k, b)
           /\ RecvTake(s, k).wr = s.wr /\ RecvTake(s, k).st = s.st
           /\ RecvTake(s, k).out = s.out
           /\ Top(RecvTake(s, k), r + k) = Top(s, r)
           /\ SubSeq(s.rx, 1, k) \in Seq(Nat) /\ Len(SubSeq(s.rx, 1, k)) = k
           /\ \A i \in 1..k : SubSeq(s.rx, 1, k)[i] = r + i
  <1> DEFINE rest == SubSeq(s.rx, k + 1, Len(s.rx))
             t == RecvTake(s, k)
  <1>1. s \in SockRecord /\ Fit(s) /\ s.rx \in Seq(Nat) /\ Len(s.rx) \in Nat /\ k \in Nat
        /\ k <= Len(s.rx)
    BY DEF InOrder, Fit, SockRecord
  <1>2. rest \in Seq(Nat) /\ Len(rest) = Len(s.rx) - k
        /\ \A i \in 1..(Len(s.rx) - k) : rest[i] = s.rx[k + i]
    BY <1>1
  <1>3. SubSeq(s.rx, 1, k) \in Seq(Nat) /\ Len(SubSeq(s.rx, 1, k)) = k
        /\ \A i \in 1..k : SubSeq(s.rx, 1, k)[i] = s.rx[i]
    BY <1>1, TakeShape
  <1>4. t = [s EXCEPT !.rx = rest]
    BY <1>1 DEF RecvTake, SockRecord
  <1> HIDE DEF rest, t
  <1>5. /\ t \in SockRecord /\ t.rx = rest /\ t.ack = s.ack /\ t.st = s.st
        /\ t.tcp = s.tcp /\ t.wr = s.wr /\ t.rel = s.rel /\ t.out = s.out
    BY <1>1, <1>2, <1>4 DEF SockRecord
  <1>6. r + Len(s.rx) = (r + k) + Len(t.rx) /\ Len(t.rx) \in Nat /\ Len(t.rx) <= Len(s.rx)
    <2> DEFINE l == Len(s.rx)
               m == Len(t.rx)
    <2>1. m = l - k /\ l \in Nat /\ k <= l
      BY <1>1, <1>2, <1>5
    <2> HIDE DEF l, m
    <2>2. r + l = (r + k) + m /\ m \in Nat /\ m <= l
      BY <2>1
    <2> QED BY <2>2 DEF l, m
  <1>7. Fit(t)
    <2>1. Len(t.rx) <= RxBuf
      BY <1>1, <1>6, EndpointAssumption DEF Fit
    <2> QED BY <1>1, <1>5, <2>1 DEF Fit, Agree
  <1>8. Top(t, r + k) = Top(s, r)
    BY <1>5, <1>6 DEF Top
  <1>9. \A i \in 1..Len(s.rx) : s.rx[i] = r + i
    BY DEF InOrder, Receiving
  <1>10. ASSUME NEW i \in 1..Len(t.rx) PROVE t.rx[i] = (r + k) + i
    <2>1. k + i \in 1..Len(s.rx) /\ r + (k + i) = (r + k) + i /\ i \in 1..(Len(s.rx) - k)
      <3>1. Len(t.rx) = Len(s.rx) - k
        BY <1>2, <1>5
      <3> QED BY <1>1, <3>1
    <2> QED BY <1>2, <1>5, <1>9, <2>1
  <1>11. Receiving(t, r + k, b)
    BY <1>5, <1>6, <1>8, <1>10 DEF InOrder, Receiving
  <1>12. Answers(t, r + k)
    BY <1>5, <1>8 DEF InOrder, Answers, Alive
  <1>13. \A i \in 1..k : SubSeq(s.rx, 1, k)[i] = r + i
    BY <1>1, <1>3, <1>9
  <1>14. InOrder(t, r + k, b)
    BY <1>7, <1>11, <1>12 DEF InOrder
  <1> QED BY <1>3, <1>5, <1>8, <1>13, <1>14 DEF t

LEMMA FreeFits ==
    Fit(FreeSocket) /\ FreeSocket.st = "Free" /\ Len(FreeSocket.rx) = 0 /\ FreeSocket.out = <<>>
    /\ FreeSocket.wr = 0
  <1>1. 0 \in Num /\ 0 \in 0..MaxRetx /\ TxBuf \in Nat /\ RxBuf \in Nat /\ <<>> \in Seq(Nat)
        /\ <<>> \in Seq(Segment) /\ Len(<<>>) = 0
    BY EndpointAssumption DEF Num
  <1>2. FreeSocket \in SockRecord
    BY <1>1 DEF FreeSocket, SockRecord, SockState, TcpState
  <1> QED BY <1>1, <1>2 DEF Fit, Agree, FreeSocket

LEMMA CloseLeaves ==
    ASSUME NEW s, NEW r \in Nat, NEW b \in Nat, InOrder(s, r, b), NEW ok \in BOOLEAN
    PROVE  /\ InOrder(CloseCall(s, ok), r, b)
           /\ CloseCall(s, ok).st \in {"Free", "Closing"}
           /\ CloseCall(s, ok).st = "Closing" => CloseCall(s, ok).wr = s.wr
  <1> DEFINE Sending(next) ==
                 [SendFlags([s EXCEPT !.tcp = next, !.st = "Closing"], {"FIN", "ACK"}, ok)
                     EXCEPT !.finSent = TRUE]
  <1>1. s \in SockRecord /\ Fit(s) /\ Len(s.rx) \in Nat
    BY DEF InOrder, Fit, SockRecord
  <1>2. ASSUME NEW next \in {"FinWait1", "LastAck"}
        PROVE  /\ InOrder(Sending(next), r, b) /\ Sending(next).st = "Closing"
               /\ Sending(next).wr = s.wr
    <2> DEFINE u == [s EXCEPT !.tcp = next, !.st = "Closing"]
               v == SendFlags(u, {"FIN", "ACK"}, ok)
               t == [v EXCEPT !.finSent = TRUE]
    <2>0. Sending(next) = t
      OBVIOUS
    <2> HIDE DEF t, v
    <2>1. /\ u \in SockRecord /\ u.rx = s.rx /\ u.st = "Closing"
          /\ u.tcp = next /\ u.wr = s.wr /\ u.rel = s.rel
      BY <1>1 DEF SockRecord, SockState, TcpState
    <2> HIDE DEF u
    <2>2. Fit(u)
      BY <1>1, <2>1 DEF Fit, Agree
    <2>3. {"FIN", "ACK"} \in SUBSET Flag
      BY DEF Flag
    <2>4. Fit(v) /\ SameStream(u, v)
      BY <2>2, <2>3, SendFlagsShape DEF v
    <2>5. v \in SockRecord
      BY <2>4 DEF Fit
    <2>6. /\ t \in SockRecord /\ t.rx = v.rx /\ t.st = v.st /\ t.tcp = v.tcp
          /\ t.wr = v.wr /\ t.rel = v.rel
      BY <2>5 DEF SockRecord, t
    <2>7. Fit(t) /\ t.rx = s.rx /\ t.st = "Closing" /\ t.tcp = next /\ t.wr = s.wr
      BY <2>1, <2>4, <2>6 DEF Fit, Agree, SameStream
    <2>8. Receiving(t, r, b) /\ ~Alive(t)
      BY <2>7 DEF InOrder, Receiving, Alive
    <2> HIDE DEF Sending
    <2> QED BY <2>0, <2>7, <2>8 DEF InOrder, Answers
  <1>3. /\ InOrder(FreeSocket, r, b) \/ s.tcp \in {"Established", "CloseWait"}
        /\ FreeSocket.st = "Free"
    <2>1. Fit(FreeSocket) /\ FreeSocket.st = "Free" /\ Len(FreeSocket.rx) = 0
          /\ FreeSocket.out = <<>> /\ FreeSocket.tcp = "Closed"
      BY FreeFits DEF FreeSocket
    <2>2. r <= b
      BY <1>1 DEF InOrder, Receiving
    <2>3. r + 0 = r
      OBVIOUS
    <2>4. Receiving(FreeSocket, r, b)
      BY <2>1, <2>2, <2>3 DEF Receiving
    <2>5. Answers(FreeSocket, r)
      BY <2>1 DEF Answers, AcksWithin
    <2> QED BY <2>1, <2>4, <2>5 DEF InOrder
  <1> HIDE DEF Sending
  <1>4. CASE s.tcp = "Established"
    <2>1. CloseCall(s, ok) = Sending("FinWait1")
      BY <1>4 DEF CloseCall, Sending
    <2> QED BY <1>2, <2>1
  <1>5. CASE s.tcp = "CloseWait"
    <2>1. CloseCall(s, ok) = Sending("LastAck")
      BY <1>5 DEF CloseCall, Sending
    <2> QED BY <1>2, <2>1
  <1>6. CASE s.tcp \notin {"Established", "CloseWait"}
    <2>1. CloseCall(s, ok) = FreeSocket
      BY <1>6 DEF CloseCall
    <2>2. "Free" # "Closing"
      OBVIOUS
    <2> QED BY <1>3, <1>6, <2>1, <2>2
  <1> QED BY <1>4, <1>5, <1>6

\* The SYN of the peer on a listening socket.
LEMMA ListenerTakes ==
    ASSUME NEW g, NEW b \in Nat, FromPeer(g, b), "SYN" \in g.flags, NEW ok \in BOOLEAN
    PROVE  /\ InOrder(ListenerInput(g, ok), 0, b)
           /\ ListenerInput(g, ok).st = "Connecting"
           /\ ListenerInput(g, ok).wr = 0
  <1> DEFINE first == (g.seq + 1) % SeqMod
             u == [FreeSocket EXCEPT !.st = "Connecting", !.tcp = "SynReceived",
                                     !.ack = first, !.seq = Iss, !.una = Iss, !.win = Mss]
             t == SendFlags(u, {"SYN", "ACK"}, ok)
  <1>1. g \in Segment /\ g.seq = PeerIss
    BY DEF FromPeer
  <1>2. first = Pos(0) /\ Pos(0) \in Num
    <2>1. Pos(0) \in Num
      BY FirstPos, PeerAssumption, ModNum
    <2> QED BY <1>1, <2>1, FirstPos
  <1>3. ListenerInput(g, ok) = t
    BY DEF ListenerInput
  <1> HIDE DEF first, t
  <1>4. FreeSocket \in SockRecord /\ Iss \in Num /\ Mss \in Nat /\ TxBuf \in Nat /\ RxBuf \in Nat
    BY FreeFits, EndpointAssumption DEF Fit, Num
  <1>5. /\ u \in SockRecord /\ u.st = "Connecting" /\ u.tcp = "SynReceived" /\ u.ack = Pos(0)
        /\ u.rx = FreeSocket.rx /\ u.out = FreeSocket.out /\ u.wr = FreeSocket.wr
        /\ u.rel = FreeSocket.rel
    BY <1>2, <1>4 DEF SockRecord, SockState, TcpState
  <1>6. FreeSocket.rx = <<>> /\ FreeSocket.out = <<>> /\ FreeSocket.wr = 0 /\ FreeSocket.rel = 0
    BY DEF FreeSocket
  <1> HIDE DEF u
  <1>7. Len(u.rx) = 0 /\ Len(u.out) = 0
    BY <1>5, <1>6
  <1>8. Fit(u)
    BY <1>4, <1>5, <1>6, <1>7 DEF Fit, Agree
  <1>9. Top(u, 0) = 0
    BY <1>5, <1>7 DEF Top
  <1>10. Receiving(u, 0, b)
    BY <1>5, <1>7, <1>9 DEF Receiving
  <1>11. Answers(u, 0)
    BY <1>7 DEF Answers, AcksWithin
  <1>12. InOrder(u, 0, b)
    BY <1>8, <1>10, <1>11 DEF InOrder
  <1>13. {"SYN", "ACK"} \in SUBSET Flag
    BY DEF Flag
  <1>14. Step(u, t, 0, b)
    BY <1>5, <1>12, <1>13, SendFlagsStep DEF t
  <1>15. SameStream(u, t)
    BY <1>8, <1>13, SendFlagsShape DEF t
  <1> QED BY <1>3, <1>5, <1>6, <1>14, <1>15 DEF Step, SameStream

----------------------------------------------------------------------------
(* The peer: what it sends is its stream, and it counts as acknowledged    *)
(* what a frame acknowledged.                                              *)

Sound(p) == PeerFit(p) /\ \A i \in 1..Len(p.out) : FromPeer(p.out[i], p.bytes)

\* The units the frame g acknowledges.
Units(g) == Distance(g.ack, (PeerIss + 1) % SeqMod)

\* From the peer p to the peer q when it receives g.
Hears(p, q, g) ==
    /\ Sound(q) /\ q.bytes = p.bytes /\ q.closes = p.closes
    /\ \/ q.acked = p.acked
       \/ "ACK" \in g.flags /\ q.acked = Units(g) /\ Units(g) \in 0..(p.bytes + 1)

LEMMA PeerNumbers ==
    ASSUME NEW p, PeerFit(p)
    PROVE  /\ p \in PeerRecord
           /\ p.rcv \in Num /\ p.rcv \in Nat /\ p.unread \in 0..PeerBuf /\ p.acked \in Nat
           /\ p.sent \in Nat /\ p.bytes \in Nat /\ p.win \in Nat
           /\ PeerBuf - p.unread \in Nat /\ PeerFins(p) \in 0..1
           /\ p.acked <= p.sent /\ p.sent <= p.bytes + PeerFins(p)
           /\ p.sent <= p.bytes + 1
  <1>1. p \in PeerRecord
    BY DEF PeerFit
  <1>2. /\ p.rcv \in Num /\ p.unread \in 0..PeerBuf /\ p.acked \in Nat
        /\ p.sent \in Nat /\ p.bytes \in Nat /\ p.win \in Nat
    BY <1>1 DEF PeerRecord
  <1>3. PeerFins(p) \in 0..1
    BY DEF PeerFins
  <1>4. p.rcv \in Nat
    BY <1>2, EndpointAssumption DEF Num
  <1> QED BY <1>1, <1>2, <1>3, <1>4, PeerAssumption DEF PeerFit

LEMMA SendsSound ==
    ASSUME NEW p, Sound(p), NEW f, FromPeer(f, p.bytes)
    PROVE  /\ Sound(PeerSends(p, f))
           /\ PeerSends(p, f).bytes = p.bytes /\ PeerSends(p, f).closes = p.closes
           /\ PeerSends(p, f).acked = p.acked
  <1> DEFINE q == PeerSends(p, f)
  <1>1. p \in PeerRecord /\ p.out \in Seq(Segment) /\ f \in Segment
    BY DEF Sound, PeerFit, PeerRecord, FromPeer
  <1>2. q = [p EXCEPT !.out = Append(p.out, f)]
    BY <1>1 DEF PeerSends, PeerRecord
  <1> HIDE DEF q
  <1>3. Append(p.out, f) \in Seq(Segment) /\ Len(Append(p.out, f)) = Len(p.out) + 1
        /\ Len(p.out) \in Nat
        /\ \A i \in 1..(Len(p.out) + 1) :
              Append(p.out, f)[i] = IF i <= Len(p.out) THEN p.out[i] ELSE f
    BY <1>1
  <1>4. /\ q \in PeerRecord /\ q.out = Append(p.out, f) /\ q.bytes = p.bytes
        /\ q.closes = p.closes /\ q.acked = p.acked /\ q.sent = p.sent
    BY <1>1, <1>2, <1>3 DEF PeerRecord
  <1>5. PeerFit(q)
    BY <1>4 DEF Sound, PeerFit, PeerFins
  <1>6. \A i \in 1..(Len(p.out) + 1) : FromPeer(Append(p.out, f)[i], p.bytes)
    BY <1>3 DEF Sound
  <1>7. Sound(q)
    BY <1>3, <1>4, <1>5, <1>6 DEF Sound
  <1> QED BY <1>4, <1>7 DEF q

\* A segment of the peer that carries n units behind the first start ones.
LEMMA PeerSegmentSound ==
    ASSUME NEW p, PeerFit(p), NEW flags \in SUBSET Flag, "SYN" \notin flags,
           NEW start \in Nat, NEW n \in Nat,
           n > 0 \/ "FIN" \in flags => start + n <= p.bytes,
           "FIN" \in flags => start + n = p.bytes
    PROVE  FromPeer(PeerSegment(p, flags, start, n), p.bytes)
  <1> DEFINE d == [i \in 1..n |-> start + i]
             f == PeerSegment(p, flags, start, n)
  <1>1. d \in Seq(Nat) /\ Len(d) = n /\ \A i \in 1..n : d[i] = start + i
    OBVIOUS
  <1>2. (PeerIss + 1 + start) % SeqMod = Pos(start) /\ Pos(start) \in Num
    <2>1. PeerIss + 1 + start \in Int
      BY PeerAssumption
    <2> QED BY <2>1, ModNum DEF Pos
  <1>3. f = [flags |-> flags, seq |-> Pos(start), ack |-> p.rcv, win |-> PeerBuf - p.unread,
             data |-> d]
    BY <1>2 DEF PeerSegment
  <1> HIDE DEF d, f
  <1>4. /\ f.flags = flags /\ f.seq = Pos(start) /\ f.data = d
    BY <1>3
  <1>5. f \in Segment
    BY <1>1, <1>2, <1>3, PeerNumbers DEF Segment, Num
  <1>6. n > 0 \/ "FIN" \in flags => start \in 0..p.bytes
    BY PeerNumbers
  <1>7. FromPeer(f, p.bytes)
    BY <1>1, <1>4, <1>5, <1>6 DEF FromPeer
  <1> QED BY <1>7 DEF f

LEMMA PeerAcksSound ==
    ASSUME NEW p, Sound(p)
    PROVE  /\ Sound(PeerAcks(p))
           /\ PeerAcks(p).bytes = p.bytes /\ PeerAcks(p).closes = p.closes
           /\ PeerAcks(p).acked = p.acked
  <1>1. {"ACK"} \in SUBSET Flag /\ "SYN" \notin {"ACK"} /\ "FIN" \notin {"ACK"}
    BY DEF Flag
  <1>2. PeerFit(p) /\ p.sent \in Nat
    BY PeerNumbers DEF Sound
  <1>3. ~(0 > 0) /\ 0 \in Nat
    OBVIOUS
  <1>4. FromPeer(PeerSegment(p, {"ACK"}, p.sent, 0), p.bytes)
    BY <1>1, <1>2, <1>3, PeerSegmentSound
  <1> QED BY <1>4, SendsSound DEF PeerAcks

LEMMA PeerSynsSound ==
    ASSUME NEW p, PeerFit(p)
    PROVE  FromPeer(PeerSynSegment, p.bytes) /\ FromPeer(PeerSynAckSegment(p), p.bytes)
  <1>1. /\ PeerIss \in 0..(SeqMod - 1) /\ 0 \in 0..(SeqMod - 1) /\ PeerBuf \in Nat
        /\ <<>> \in Seq(Nat) /\ Len(<<>>) = 0 /\ ~(0 > 0)
    BY PeerAssumption, EndpointAssumption
  <1>2. p.rcv \in 0..(SeqMod - 1)
    BY PeerNumbers DEF Num
  <1>3. PeerSynSegment \in Segment
    BY <1>1 DEF PeerSynSegment, Segment, Flag
  <1>4. PeerSynAckSegment(p) \in Segment
    BY <1>1, <1>2 DEF PeerSynAckSegment, Segment, Flag
  <1>5. FromPeer(PeerSynSegment, p.bytes)
    BY <1>1, <1>3 DEF FromPeer, PeerSynSegment
  <1>6. FromPeer(PeerSynAckSegment(p), p.bytes)
    BY <1>1, <1>4 DEF FromPeer, PeerSynAckSegment
  <1> QED BY <1>5, <1>6

LEMMA UnitsIsInt ==
    ASSUME NEW g \in Segment PROVE Units(g) \in Int
  <1>1. g.ack \in Int /\ (PeerIss + 1) % SeqMod \in Int
    <2>1. (PeerIss + 1) % SeqMod \in Num
      BY PeerAssumption, ModNum
    <2> QED BY <2>1 DEF Segment, Num
  <1>2. (g.ack - ((PeerIss + 1) % SeqMod)) % SeqMod \in Int
    BY <1>1, ModNum DEF Num
  <1> QED BY <1>2, EndpointAssumption DEF Units, Distance

LEMMA HearsSelf ==
    ASSUME NEW p, Sound(p), NEW g PROVE Hears(p, p, g)
  BY DEF Hears

LEMMA TakesAckSound ==
    ASSUME NEW p, Sound(p), NEW g \in Segment
    PROVE  Hears(p, PeerTakesAck(p, g), g)
  <1> DEFINE k == Units(g)
             q == PeerTakesAck(p, g)
             taken == "ACK" \in g.flags /\ p.acked <= k /\ k <= p.sent
  <1>1. p \in PeerRecord /\ PeerFit(p) /\ g.win \in Nat /\ k \in Int
    BY UnitsIsInt DEF Sound, PeerFit, Segment
  <1>2. p.acked \in Nat /\ p.sent \in Nat /\ p.bytes \in Nat /\ p.sent <= p.bytes + 1
    BY <1>1, PeerNumbers
  <1>3. CASE ~taken
    <2>1. q = p
      BY <1>3 DEF PeerTakesAck, Units
    <2> QED BY <2>1, HearsSelf
  <1>4. CASE taken
    <2>1. q = [p EXCEPT !.acked = k, !.win = g.win]
      BY <1>4 DEF PeerTakesAck, Units
    <2>2. k \in Nat /\ k <= p.sent /\ k <= p.bytes + 1 /\ "ACK" \in g.flags
      BY <1>1, <1>2, <1>4
    <2> HIDE DEF q, k
    <2>3. /\ q \in PeerRecord /\ q.acked = k /\ q.sent = p.sent /\ q.bytes = p.bytes
          /\ q.closes = p.closes /\ q.out = p.out
      BY <1>1, <2>1, <2>2 DEF PeerRecord
    <2>4. PeerFit(q)
      BY <1>1, <2>2, <2>3 DEF PeerFit, PeerFins
    <2>5. Sound(q)
      BY <2>3, <2>4 DEF Sound
    <2>6. k \in 0..(p.bytes + 1)
      BY <1>2, <2>2
    <2>7. Hears(p, q, g)
      BY <2>2, <2>3, <2>5, <2>6 DEF Hears, k
    <2> QED BY <2>7 DEF q
  <1> QED BY <1>3, <1>4

\* A step that keeps the peer's side of its own stream.
LEMMA KeepsSound ==
    ASSUME NEW p, Sound(p), NEW q \in PeerRecord, q.bytes = p.bytes, q.closes = p.closes,
           q.acked = p.acked, q.sent = p.sent, q.out = p.out
    PROVE  Sound(q)
  BY DEF Sound, PeerFit, PeerFins

LEMMA TakesDataSound ==
    ASSUME NEW p, Sound(p), NEW g \in Segment
    PROVE  /\ Sound(PeerTakesData(p, g))
           /\ PeerTakesData(p, g).bytes = p.bytes /\ PeerTakesData(p, g).closes = p.closes
           /\ PeerTakesData(p, g).acked = p.acked
  <1> DEFINE off == Distance(p.rcv, g.seq)
             inOrder == 0 <= off /\ off <= Len(g.data) /\ ~p.eof
             n == IF inOrder THEN Lesser(Len(g.data) - off, PeerBuf - p.unread) ELSE 0
             fin == inOrder /\ "FIN" \in g.flags /\ off + n = Len(g.data)
             new == SubSeq(g.data, off + 1, off + n)
             next == (p.rcv + n + (IF fin THEN 1 ELSE 0)) % SeqMod
             over == p.eof \/ fin
             p1 == [p EXCEPT !.got = @ \o new, !.unread = @ + n, !.eof = over, !.rcv = next]
             answers == Len(g.data) > 0 \/ "FIN" \in g.flags \/ off # 0
  <1>9. PeerTakesData(p, g) = IF answers THEN PeerAcks(p1) ELSE p1
    BY Zenon DEF PeerTakesData
  <1>1. p \in PeerRecord /\ PeerFit(p) /\ g.data \in Seq(Nat) /\ Len(g.data) \in Nat
        /\ g.seq \in Int
    BY DEF Sound, PeerFit, Segment
  <1>2. p.rcv \in Nat /\ p.unread \in 0..PeerBuf /\ PeerBuf - p.unread \in Nat /\ PeerBuf \in Nat
        /\ p.got \in Seq(Nat) /\ p.eof \in BOOLEAN
    BY <1>1, PeerNumbers, PeerAssumption DEF PeerRecord
  <1>3. off \in Int
    <2>1. (p.rcv - g.seq) % SeqMod \in Int
      <3>1. p.rcv - g.seq \in Int
        BY <1>1, <1>2
      <3> QED BY <3>1, ModNum DEF Num
    <2> QED BY <2>1, EndpointAssumption DEF Distance
  <1> HIDE DEF off
  <1>4. n \in Nat /\ p.unread + n \in 0..PeerBuf /\ (inOrder => off \in Nat /\ off + n <= Len(g.data))
    <2>1. CASE ~inOrder
      BY <1>2, <2>1
    <2>2. CASE inOrder
      <3>1. Len(g.data) - off \in Nat /\ off \in Nat
        BY <1>1, <1>3, <2>2
      <3>2. n = Lesser(Len(g.data) - off, PeerBuf - p.unread)
        BY <2>2
      <3> HIDE DEF n
      <3>3. n \in Nat /\ n <= Len(g.data) - off /\ n <= PeerBuf - p.unread
        BY <1>2, <3>1, <3>2, LesserBounds
      <3> QED BY <1>1, <1>2, <3>1, <3>3
    <2> QED BY <2>1, <2>2
  <1>5. new \in Seq(Nat)
    <2>1. CASE inOrder
      <3> HIDE DEF n, inOrder
      <3>1. off \in Nat /\ n \in Nat /\ off + n <= Len(g.data)
        BY <1>4, <2>1
      <3> QED BY <1>1, <3>1, SliceShape
    <2>2. CASE ~inOrder
      <3>1. n = 0 /\ off + n = off
        BY <1>3, <2>2
      <3>2. new = <<>>
        BY <1>1, <1>3, <3>1
      <3>3. <<>> \in Seq(Nat)
        OBVIOUS
      <3> QED BY <3>2, <3>3, Zenon
    <2> QED BY <2>1, <2>2
  <1>6. next \in Num
    <2>1. (IF fin THEN 1 ELSE 0) \in Int
      OBVIOUS
    <2>2. p.rcv + n + (IF fin THEN 1 ELSE 0) \in Int
      <3> HIDE DEF n, fin
      <3> QED BY <1>2, <1>4, <2>1
    <2> QED BY <2>2, ModNum
  <1>7. over \in BOOLEAN
    BY <1>2
  <1>8. p.got \o new \in Seq(Nat)
    BY <1>2, <1>5
  <1> HIDE DEF n, fin, new, next, over, inOrder
  <1>10. /\ p1 \in PeerRecord /\ p1.bytes = p.bytes /\ p1.closes = p.closes
         /\ p1.acked = p.acked /\ p1.sent = p.sent /\ p1.out = p.out
    BY <1>1, <1>4, <1>6, <1>7, <1>8 DEF PeerRecord
  <1> HIDE DEF p1, answers
  <1>11. Sound(p1)
    BY <1>10, KeepsSound
  <1>12. /\ Sound(PeerAcks(p1)) /\ PeerAcks(p1).bytes = p1.bytes
         /\ PeerAcks(p1).closes = p1.closes /\ PeerAcks(p1).acked = p1.acked
    BY <1>11, PeerAcksSound
  <1> QED BY <1>9, <1>10, <1>11, <1>12

LEMMA HearsTwice ==
    ASSUME NEW p, NEW q, NEW t, NEW g, Hears(p, q, g),
           Sound(t), t.bytes = q.bytes, t.closes = q.closes, t.acked = q.acked
    PROVE  Hears(p, t, g)
  BY DEF Hears

LEMMA PeerDies ==
    ASSUME NEW p, Sound(p), NEW g
    PROVE  Hears(p, [p EXCEPT !.st = "dead"], g)
  <1> DEFINE q == [p EXCEPT !.st = "dead"]
  <1>1. p \in PeerRecord
    BY DEF Sound, PeerFit
  <1>2. /\ q \in PeerRecord /\ q.bytes = p.bytes /\ q.closes = p.closes /\ q.acked = p.acked
        /\ q.sent = p.sent /\ q.out = p.out
    BY <1>1 DEF PeerRecord
  <1> HIDE DEF q
  <1>3. Sound(q)
    BY <1>2, KeepsSound
  <1>4. Hears(p, q, g)
    BY <1>2, <1>3 DEF Hears
  <1> QED BY <1>4 DEF q

LEMMA EstabHears ==
    ASSUME NEW p, Sound(p), NEW g \in Segment
    PROVE  Hears(p, PeerInEstablished(p, g), g)
  <1> DEFINE q == PeerTakesAck(p, g)
  <1>1. Hears(p, q, g)
    BY TakesAckSound
  <1> HIDE DEF q
  <1>2. Hears(p, PeerTakesData(q, g), g)
    <2>1. Sound(q)
      BY <1>1 DEF Hears
    <2> DEFINE t == PeerTakesData(q, g)
    <2>2. Sound(t) /\ t.bytes = q.bytes /\ t.closes = q.closes /\ t.acked = q.acked
      BY <2>1, TakesDataSound
    <2> HIDE DEF t
    <2>3. Hears(p, t, g)
      BY <1>1, <2>2, HearsTwice
    <2> QED BY <2>3 DEF t
  <1>3. Hears(p, PeerAcks(p), g)
    <2> DEFINE t == PeerAcks(p)
    <2>1. Sound(t) /\ t.bytes = p.bytes /\ t.closes = p.closes /\ t.acked = p.acked
      BY PeerAcksSound
    <2> HIDE DEF t
    <2>2. Hears(p, t, g)
      BY <2>1 DEF Hears
    <2> QED BY <2>2 DEF t
  <1>4. Hears(p, p, g) /\ Hears(p, [p EXCEPT !.st = "dead"], g)
    BY HearsSelf, PeerDies
  <1> QED BY <1>2, <1>3, <1>4 DEF PeerInEstablished, q

LEMMA SynRcvdHears ==
    ASSUME NEW p, Sound(p), NEW g \in Segment
    PROVE  Hears(p, PeerInSynRcvd(p, g), g)
  <1>1. Hears(p, PeerSends(p, PeerSynAckSegment(p)), g)
    <2> DEFINE f == PeerSynAckSegment(p)
               t == PeerSends(p, f)
    <2>1. FromPeer(f, p.bytes)
      BY PeerSynsSound DEF Sound
    <2> HIDE DEF f
    <2>2. Sound(t) /\ t.bytes = p.bytes /\ t.closes = p.closes /\ t.acked = p.acked
      BY <2>1, SendsSound
    <2> HIDE DEF t
    <2>3. Hears(p, t, g)
      BY <2>2 DEF Hears
    <2> QED BY <2>3 DEF f, t
  <1>2. Hears(p, PeerInEstablished([p EXCEPT !.st = "estab", !.win = g.win], g), g)
    <2> DEFINE q == [p EXCEPT !.st = "estab", !.win = g.win]
               t == PeerInEstablished(q, g)
    <2>1. p \in PeerRecord /\ g.win \in Nat
      BY DEF Sound, PeerFit, Segment
    <2>2. /\ q \in PeerRecord /\ q.bytes = p.bytes /\ q.closes = p.closes /\ q.acked = p.acked
          /\ q.sent = p.sent /\ q.out = p.out
      BY <2>1 DEF PeerRecord
    <2> HIDE DEF q
    <2>3. Sound(q)
      BY <2>2, KeepsSound
    <2>4. Hears(q, t, g)
      BY <2>3, EstabHears
    <2> HIDE DEF t
    <2>5. Hears(p, t, g)
      BY <2>2, <2>4 DEF Hears
    <2> QED BY <2>5 DEF q, t
  <1>3. Hears(p, p, g) /\ Hears(p, [p EXCEPT !.st = "dead"], g)
    BY HearsSelf, PeerDies
  <1> QED BY <1>1, <1>2, <1>3 DEF PeerInSynRcvd

LEMMA SynSentHears ==
    ASSUME NEW p, Sound(p), NEW g \in Segment
    PROVE  Hears(p, PeerInSynSent(p, g), g)
  <1> DEFINE next == (g.seq + 1) % SeqMod
             q == [p EXCEPT !.st = "estab", !.rcv = next, !.win = g.win]
             t == PeerAcks(q)
  <1>1. next \in Num /\ g.win \in Nat
    <2>1. g.seq + 1 \in Int /\ g.win \in Nat
      BY DEF Segment
    <2> QED BY <2>1, ModNum
  <1> HIDE DEF next
  <1>2. Sound(q) /\ q.bytes = p.bytes /\ q.closes = p.closes /\ q.acked = p.acked
    <2>1. p \in PeerRecord
      BY DEF Sound, PeerFit
    <2>2. /\ q \in PeerRecord /\ q.bytes = p.bytes /\ q.closes = p.closes
          /\ q.acked = p.acked /\ q.sent = p.sent /\ q.out = p.out
      BY <1>1, <2>1 DEF PeerRecord
    <2> HIDE DEF q
    <2> QED BY <2>2, KeepsSound
  <1> HIDE DEF q
  <1>3. Sound(t) /\ t.bytes = q.bytes /\ t.closes = q.closes /\ t.acked = q.acked
    BY <1>2, PeerAcksSound
  <1> HIDE DEF t
  <1>4. Hears(p, t, g)
    BY <1>2, <1>3 DEF Hears
  <1>5. Hears(p, PeerAcks([p EXCEPT !.st = "estab", !.rcv = (g.seq + 1) % SeqMod,
                                    !.win = g.win]), g)
    BY <1>4 DEF t, q, next
  <1>6. Hears(p, p, g) /\ Hears(p, [p EXCEPT !.st = "dead"], g)
    BY HearsSelf, PeerDies
  <1> QED BY <1>5, <1>6, Zenon DEF PeerInSynSent

LEMMA ListenHears ==
    ASSUME NEW p, Sound(p), NEW g \in Segment
    PROVE  Hears(p, PeerInListen(p, g), g)
  <1> DEFINE next == (g.seq + 1) % SeqMod
             q == [p EXCEPT !.st = "synRcvd", !.rcv = next]
             f == PeerSynAckSegment(q)
             t == PeerSends(q, f)
  <1>0. PeerInListen(p, g) = IF "SYN" \in g.flags THEN t ELSE p
    BY Zenon DEF PeerInListen
  <1>1. next \in Num /\ p \in PeerRecord
    <2>1. g.seq + 1 \in Int
      BY DEF Segment
    <2> QED BY <2>1, ModNum DEF Sound, PeerFit
  <1> HIDE DEF next
  <1>2. /\ q \in PeerRecord /\ q.bytes = p.bytes /\ q.closes = p.closes /\ q.acked = p.acked
        /\ q.sent = p.sent /\ q.out = p.out
    BY <1>1 DEF PeerRecord
  <1> HIDE DEF q
  <1>3. Sound(q)
    BY <1>2, KeepsSound
  <1>4. FromPeer(f, q.bytes)
    BY <1>3, PeerSynsSound DEF Sound
  <1> HIDE DEF f
  <1>5. Sound(t) /\ t.bytes = q.bytes /\ t.closes = q.closes /\ t.acked = q.acked
    BY <1>3, <1>4, SendsSound
  <1> HIDE DEF t
  <1>6. Hears(p, t, g)
    BY <1>2, <1>5 DEF Hears
  <1> QED BY <1>0, <1>6, HearsSelf

LEMMA DeadHears ==
    ASSUME NEW p, Sound(p), NEW g \in Segment
    PROVE  Hears(p, PeerInDead(p, g), g)
  <1> DEFINE f == [flags |-> {"RST"}, seq |-> g.ack, ack |-> 0, win |-> 0, data |-> <<>>]
             t == PeerSends(p, f)
  <1>1. f \in Segment /\ f.flags = {"RST"} /\ f.data = <<>>
    <2>1. <<>> \in Seq(Nat) /\ 0 \in 0..(SeqMod - 1)
      BY EndpointAssumption
    <2> QED BY <2>1 DEF Segment, Flag
  <1>2. FromPeer(f, p.bytes)
    <2>1. Len(<<>>) = 0 /\ ~(0 > 0)
      OBVIOUS
    <2> HIDE DEF f
    <2> QED BY <1>1, <2>1 DEF FromPeer
  <1> HIDE DEF f
  <1>3. Sound(t) /\ t.bytes = p.bytes /\ t.closes = p.closes /\ t.acked = p.acked
    BY <1>2, SendsSound
  <1> HIDE DEF t
  <1>4. Hears(p, t, g)
    BY <1>3 DEF Hears
  <1> QED BY <1>4, HearsSelf DEF PeerInDead, f, t

\* A frame handed to the peer.
LEMMA PeerInputHears ==
    ASSUME NEW p, Sound(p), NEW g \in Segment
    PROVE  Hears(p, PeerInput(p, g), g)
  BY EstabHears, SynRcvdHears, SynSentHears, ListenHears, DeadHears DEF PeerInput

LEMMA PeerMore ==
    ASSUME NEW p, Sound(p), NEW m \in PeerMaySend(p)
    PROVE  LET q == PeerSendsData(p, m)
           IN Sound(q) /\ q.bytes = p.bytes /\ q.closes = p.closes /\ q.acked = p.acked
  <1> DEFINE more == Larger(p.sent, m.start + m.n + m.fin)
             p1 == [p EXCEPT !.sent = more]
             flags == IF m.fin = 1 THEN {"ACK", "FIN"} ELSE {"ACK"}
             f == PeerSegment(p1, flags, m.start, m.n)
             q == PeerSends(p1, f)
  <1>1. PeerSendsData(p, m) = q
    BY DEF PeerSendsData
  <1>2. p \in PeerRecord /\ PeerFit(p) /\ p.sent \in Nat /\ p.acked \in Nat /\ p.bytes \in Nat
        /\ PeerFins(p) \in 0..1 /\ p.acked <= p.sent /\ p.sent <= p.bytes + PeerFins(p)
    BY PeerNumbers DEF Sound
  <1>3. /\ m.start \in {p.acked, p.sent} /\ m.n \in 0..Mss /\ m.fin \in 0..PeerFins(p)
        /\ m.start + m.n <= p.bytes /\ (m.fin = 1 => m.start + m.n = p.bytes)
    BY DEF PeerMaySend
  <1>4. m.start \in Nat /\ m.n \in Nat /\ m.fin \in Nat /\ m.fin <= PeerFins(p)
    BY <1>2, <1>3, EndpointAssumption
  <1>5. more \in Nat /\ p.acked <= more /\ more <= p.bytes + PeerFins(p)
    <2> DEFINE new == m.start + m.n + m.fin
    <2>1. new \in Nat /\ new <= p.bytes + PeerFins(p)
      BY <1>2, <1>3, <1>4
    <2>2. more = IF p.sent < new THEN new ELSE p.sent
      BY DEF Larger
    <2> HIDE DEF new, more
    <2> QED BY <1>2, <2>1, <2>2
  <1> HIDE DEF more
  <1>6. /\ p1 \in PeerRecord /\ p1.bytes = p.bytes /\ p1.closes = p.closes
        /\ p1.acked = p.acked /\ p1.sent = more /\ p1.out = p.out
    BY <1>2, <1>5 DEF PeerRecord
  <1> HIDE DEF p1
  <1>7. PeerFit(p1) /\ Sound(p1)
    <2>1. PeerFit(p1)
      BY <1>2, <1>5, <1>6 DEF PeerFit, PeerFins
    <2> QED BY <1>6, <2>1 DEF Sound
  <1>8. flags \in SUBSET Flag /\ "SYN" \notin flags /\ ("FIN" \in flags => m.fin = 1)
    BY DEF Flag
  <1> HIDE DEF flags
  <1>9. FromPeer(f, p1.bytes)
    BY <1>3, <1>4, <1>6, <1>7, <1>8, PeerSegmentSound
  <1> HIDE DEF f
  <1>10. Sound(q) /\ q.bytes = p1.bytes /\ q.closes = p1.closes /\ q.acked = p1.acked
    BY <1>7, <1>9, SendsSound
  <1> HIDE DEF q
  <1> QED BY <1>1, <1>6, <1>10

LEMMA PeerAgain ==
    ASSUME NEW p, Sound(p)
    PROVE  LET q == PeerRepeatsSyn(p)
           IN Sound(q) /\ q.bytes = p.bytes /\ q.closes = p.closes /\ q.acked = p.acked
  <1>1. FromPeer(PeerSynSegment, p.bytes) /\ FromPeer(PeerSynAckSegment(p), p.bytes)
    BY PeerSynsSound DEF Sound
  <1>2. ASSUME NEW f, FromPeer(f, p.bytes)
        PROVE  LET q == PeerSends(p, f)
               IN Sound(q) /\ q.bytes = p.bytes /\ q.closes = p.closes /\ q.acked = p.acked
    BY <1>2, SendsSound
  <1>3. CASE p.st = "synSent"
    BY <1>1, <1>2, <1>3 DEF PeerRepeatsSyn
  <1>4. CASE p.st # "synSent"
    BY <1>1, <1>2, <1>4 DEF PeerRepeatsSyn
  <1> QED BY <1>3, <1>4

LEMMA PeerEmpties ==
    ASSUME NEW p, Sound(p)
    PROVE  LET q == PeerReads(p)
           IN Sound(q) /\ q.bytes = p.bytes /\ q.closes = p.closes /\ q.acked = p.acked
  <1> DEFINE u == [p EXCEPT !.unread = 0]
             q == PeerAcks(u)
  <1>1. p \in PeerRecord /\ 0 \in 0..PeerBuf
    BY PeerAssumption DEF Sound, PeerFit
  <1>2. /\ u \in PeerRecord /\ u.bytes = p.bytes /\ u.closes = p.closes /\ u.acked = p.acked
        /\ u.sent = p.sent /\ u.out = p.out
    BY <1>1 DEF PeerRecord
  <1>3. PeerReads(p) = q
    BY DEF PeerReads
  <1> HIDE DEF u
  <1>4. Sound(u)
    BY <1>2, KeepsSound
  <1>5. Sound(q) /\ q.bytes = u.bytes /\ q.closes = u.closes /\ q.acked = u.acked
    BY <1>4, PeerAcksSound
  <1> HIDE DEF q
  <1> QED BY <1>2, <1>3, <1>5

LEMMA PeerGivesUp ==
    ASSUME NEW p, Sound(p)
    PROVE  LET q == PeerAborts(p)
           IN Sound(q) /\ q.bytes = p.bytes /\ q.closes = p.closes /\ q.acked = p.acked
  <1> DEFINE u == [p EXCEPT !.st = "dead"]
             f == PeerSegment(p, {"RST", "ACK"}, p.sent, 0)
             q == PeerSends(u, f)
  <1>1. p \in PeerRecord /\ PeerFit(p) /\ p.sent \in Nat
    BY PeerNumbers DEF Sound, PeerFit
  <1>2. /\ u \in PeerRecord /\ u.bytes = p.bytes /\ u.closes = p.closes /\ u.acked = p.acked
        /\ u.sent = p.sent /\ u.out = p.out
    BY <1>1 DEF PeerRecord
  <1>3. PeerAborts(p) = q
    BY DEF PeerAborts
  <1> HIDE DEF u
  <1>4. Sound(u)
    BY <1>2, KeepsSound
  <1>5. FromPeer(f, u.bytes)
    <2>1. {"RST", "ACK"} \in SUBSET Flag /\ "SYN" \notin {"RST", "ACK"}
          /\ "FIN" \notin {"RST", "ACK"}
      BY DEF Flag
    <2>2. ~(0 > 0) /\ 0 \in Nat
      OBVIOUS
    <2>3. FromPeer(f, p.bytes)
      BY <1>1, <2>1, <2>2, PeerSegmentSound
    <2> QED BY <1>2, <2>3
  <1> HIDE DEF f
  <1>6. Sound(q) /\ q.bytes = u.bytes /\ q.closes = u.closes /\ q.acked = u.acked
    BY <1>4, <1>5, SendsSound
  <1> HIDE DEF q
  <1> QED BY <1>2, <1>3, <1>6

\* Frames that acknowledge at most k units do not make the peer count more.
LEMMA AckedBound ==
    ASSUME NEW p, NEW q, NEW g \in Segment, Hears(p, q, g),
           NEW k \in Nat, k <= p.bytes + 1, p.bytes \in Nat, p.bytes + 2 <= SeqMod,
           p.acked <= k, "ACK" \in g.flags => \E j \in 0..k : g.ack = Pos(j)
    PROVE  q.acked <= k
  <1>1. CASE q.acked = p.acked
    BY <1>1
  <1>2. CASE q.acked # p.acked
    <2>1. "ACK" \in g.flags /\ q.acked = Units(g) /\ Units(g) \in 0..(p.bytes + 1)
      BY <1>2 DEF Hears
    <2>2. PICK j \in 0..k : g.ack = Pos(j)
      BY <2>1
    <2> DEFINE m == SeqMod
               u == Units(g)
               d == (Pos(j) - Pos(0)) % m
    <2>3. Units(g) = Distance(Pos(j), Pos(0))
      BY <2>2, FirstPos DEF Units
    <2>4. u = d \/ u = d - m
      BY <2>3 DEF Distance
    <2>5. m \in Nat \ {0} /\ j \in Nat /\ Pos(j) \in Int /\ Pos(0) \in Int /\ 0 \in Nat
      <3>1. j \in Nat /\ 0 \in Nat /\ m \in Nat \ {0}
        BY EndpointAssumption
      <3>2. Pos(j) \in Num /\ Pos(0) \in Num
        BY <3>1, PosAdd
      <3> QED BY <3>1, <3>2 DEF Num
    <2>6. d \in 0..(m - 1)
      <3>1. Pos(j) - Pos(0) \in Int
        BY <2>5
      <3> QED BY <3>1, ModNum DEF Num
    <2>7. u = d
      <3> HIDE DEF d, u
      <3>1. u >= 0
        BY <2>1 DEF u
      <3> QED BY <2>4, <2>5, <2>6, <3>1
    <2>8. Pos(j) = Pos(u)
      <3>1. (Pos(0) + u) % m = Pos(0 + u) /\ 0 + u = u
        <4>1. u \in Nat
          BY <2>1
        <4>2. 0 + u = u
          BY <4>1
        <4> QED BY <2>5, <4>1, <4>2, PosAdd
      <3>2. (d + Pos(0)) % m = ((Pos(j) - Pos(0)) + Pos(0)) % m
        <4>1. Pos(j) - Pos(0) \in Int
          BY <2>5
        <4>2. SeqMod \in Nat \ {0} /\ Pos(0) \in Int
          BY <2>5
        <4> QED BY <4>1, <4>2, AddToRemainder, Zenon
      <3>3. (Pos(j) - Pos(0)) + Pos(0) = Pos(j)
        BY <2>5
      <3>4. Pos(j) % m = Pos(j)
        <4>1. Pos(j) \in 0..(m - 1)
          BY <2>5, PosAdd DEF Num
        <4>2. m * 0 + Pos(j) = Pos(j)
          BY <2>5
        <4> QED BY <2>5, <4>1, <4>2, ModUnique
      <3>5. d + Pos(0) = Pos(0) + u
        <4> HIDE DEF d, u
        <4>1. d \in Int
          BY <2>5, <2>6
        <4> QED BY <2>5, <2>7, <4>1
      <3> QED BY <3>1, <3>2, <3>3, <3>4, <3>5
    <2>9. j = u
      <3>1. u \in Nat /\ u <= p.bytes + 1 /\ j <= p.bytes + 1
        BY <2>1, <2>5
      <3> QED BY <2>5, <2>8, <3>1, SamePos
    <2> QED BY <2>1, <2>9
  <1> QED BY <1>1, <1>2

----------------------------------------------------------------------------
(* The invariant over the steps of the connection.                         *)

ReadSoFar == Len(app.read)

LEMMA InvFacts ==
    ASSUME RecvInv
    PROVE  /\ ReadSoFar \in Nat /\ peer.bytes \in Nat /\ peer.bytes + 2 <= SeqMod
           /\ InOrder(conn, ReadSoFar, peer.bytes) /\ conn.out = <<>>
           /\ Sound(peer) /\ peer.out = <<>> /\ peer \in PeerRecord
           /\ app \in AppRecord /\ app.read \in Seq(Nat) /\ scene \in Scene
           /\ conn \in SockRecord
  <1>1. scene \in Scene /\ scene.bytes = peer.bytes /\ Fit(conn) /\ conn.out = <<>>
        /\ PeerFit(peer) /\ peer.out = <<>> /\ app \in AppRecord
    BY DEF RecvInv, Types, AppFits
  <1>2. app.read \in Seq(Nat) /\ ReadSoFar \in Nat
    BY <1>1 DEF AppRecord, ReadSoFar
  <1>3. peer.bytes \in Nat /\ peer \in PeerRecord /\ peer.bytes + 2 <= SeqMod
    BY <1>1, StreamsFit DEF PeerFit, PeerRecord
  <1>4. Len(<<>>) = 0
    OBVIOUS
  <1>5. Receiving(conn, ReadSoFar, peer.bytes)
    BY DEF RecvInv, Received, ReadSoFar
  <1>6. Answers(conn, ReadSoFar) /\ Sound(peer)
    BY <1>1, <1>4 DEF Answers, AcksWithin, Sound
  <1>7. conn \in SockRecord
    BY <1>1 DEF Fit
  <1> QED BY <1>1, <1>2, <1>3, <1>5, <1>6, <1>7 DEF InOrder

\* The socket after its frames were moved to the network.
LEMMA Emptied ==
    ASSUME NEW t, NEW r \in Nat, NEW b \in Nat, Fit(t), Receiving(t, r, b),
           NEW c, c = [t EXCEPT !.out = <<>>]
    PROVE  /\ Fit(c) /\ c.out = <<>> /\ c.st = t.st /\ c.tcp = t.tcp /\ c.wr = t.wr
           /\ c.rx = t.rx /\ Receiving(c, r, b) /\ Top(c, r) = Top(t, r)
           /\ Alive(c) <=> Alive(t)
           /\ t.out \in Seq(Segment)
  <1>1. t \in SockRecord /\ <<>> \in Seq(Segment)
    BY DEF Fit
  <1>2. /\ c \in SockRecord /\ c.out = <<>> /\ c.st = t.st /\ c.tcp = t.tcp /\ c.wr = t.wr
        /\ c.rel = t.rel /\ c.rx = t.rx /\ c.ack = t.ack
    BY <1>1 DEF SockRecord
  <1>3. Fit(c)
    BY <1>1, <1>2 DEF Fit, Agree
  <1>4. Receiving(c, r, b) /\ Top(c, r) = Top(t, r) /\ (Alive(c) <=> Alive(t))
    BY <1>2 DEF Receiving, Top, Alive
  <1>5. t.out \in Seq(Segment)
    BY <1>1 DEF SockRecord
  <1> QED BY <1>2, <1>3, <1>4, <1>5

\* A step of the stack.
LEMMA StackKeeps ==
    ASSUME RecvInv, NEW t, StackDoes(t), Fit(t), Receiving(t, ReadSoFar, peer.bytes),
           ~app'.closed => Answers(t, ReadSoFar),
           app'.read = app.read,
           scene' = scene, peer' = peer, lost' = lost,
           toUs' \in Seq(Segment), Len(toUs') <= MaxFlight,
           \A i \in 1..Len(toUs') : FromPeer(toUs'[i], peer.bytes),
           ~app'.closed /\ Alive(t) =>
               /\ ~app.closed /\ Alive(conn) /\ Top(conn, ReadSoFar) <= Top(t, ReadSoFar)
               /\ t.st = "Free" => app.read = <<>> /\ t.rx = <<>>
    PROVE  Types' /\ Flight' /\ Received' /\ Acknowledged'
  <1>1. /\ ReadSoFar \in Nat /\ peer.bytes \in Nat
        /\ InOrder(conn, ReadSoFar, peer.bytes) /\ ReadSoFar' = ReadSoFar
    BY InvFacts DEF ReadSoFar
  <1>2. /\ Fit(conn') /\ conn'.out = <<>> /\ conn'.st = t.st /\ conn'.rx = t.rx
        /\ conn'.tcp = t.tcp
        /\ Receiving(conn', ReadSoFar, peer.bytes) /\ Top(conn', ReadSoFar) = Top(t, ReadSoFar)
        /\ (Alive(conn') <=> Alive(t)) /\ t.out \in Seq(Segment)
    <2> DEFINE c == [t EXCEPT !.out = <<>>]
    <2>1. conn' = c
      BY DEF StackDoes
    <2> HIDE DEF c
    <2>2. /\ Fit(c) /\ c.out = <<>> /\ c.st = t.st /\ c.tcp = t.tcp /\ c.wr = t.wr
          /\ c.rx = t.rx /\ Receiving(c, ReadSoFar, peer.bytes) /\ Top(c, ReadSoFar) = Top(t, ReadSoFar)
          /\ (Alive(c) <=> Alive(t)) /\ t.out \in Seq(Segment)
      BY <1>1, Emptied DEF c
    <2> QED BY <2>1, <2>2
  <1>3. Types'
    BY <1>2 DEF RecvInv, Types
  <1>4. toPeer \in Seq(Segment) /\ toPeer' = toPeer \o t.out
        /\ Len(toPeer) + Len(t.out) <= MaxFlight
    BY DEF StackDoes, RecvInv, Flight
  <1>5. toPeer' \in Seq(Segment) /\ Len(toPeer') <= MaxFlight
    BY <1>2, <1>4
  <1>6. Flight'
    BY <1>5 DEF Flight
  <1>7. Received'
    BY <1>1, <1>2 DEF RecvInv, Received, ReadSoFar
  <1>8. ASSUME ~app'.closed, Alive(conn')
        PROVE  /\ AcksWithin(toPeer', Top(conn', ReadSoFar))
               /\ peer.acked <= Top(conn', ReadSoFar)
               /\ conn'.st = "Free" => app.read = <<>> /\ conn'.rx = <<>>
    <2>1. /\ ~app.closed /\ Alive(conn) /\ Top(conn, ReadSoFar) <= Top(t, ReadSoFar)
          /\ t.st = "Free" => app.read = <<>> /\ t.rx = <<>>
      BY <1>2, <1>8
    <2>2. AcksWithin(toPeer, Top(conn, ReadSoFar)) /\ peer.acked <= Top(conn, ReadSoFar)
      BY <2>1 DEF RecvInv, Acknowledged, ReadSoFar
    <2>3. Top(conn, ReadSoFar) \in Nat /\ Top(t, ReadSoFar) \in Nat /\ peer.acked \in Nat
      BY <1>1, TopIsNat, InvFacts DEF InOrder, PeerRecord
    <2>4. AcksWithin(toPeer, Top(t, ReadSoFar))
      BY <2>1, <2>2, <2>3, AcksMonotone
    <2>5. AcksWithin(t.out, Top(t, ReadSoFar))
      BY <1>2, <1>8 DEF Answers
    <2>6. AcksWithin(toPeer', Top(t, ReadSoFar))
      BY <1>2, <1>4, <2>3, <2>4, <2>5, AcksJoin
    <2>7. peer.acked <= Top(t, ReadSoFar)
      BY <2>1, <2>2, <2>3
    <2> QED BY <1>2, <2>1, <2>6, <2>7
  <1>9. Acknowledged'
    BY <1>1, <1>8 DEF Acknowledged, ReadSoFar
  <1> QED BY <1>3, <1>6, <1>7, <1>9

\* The application is in the same calls, and has read the same.
SameCalls ==
    /\ app' \in AppRecord /\ app'.closed = app.closed /\ app'.asked = app.asked
    /\ app'.pending = app.pending /\ app'.read = app.read
    /\ app'.full => app'.pending > 0

LEMMA SameAppSameCalls == ASSUME RecvInv, app' = app PROVE SameCalls
  BY DEF RecvInv, AppFits, SameCalls

\* What a step of the stack does to the calls of the application.
LEMMA AppKeeps ==
    ASSUME RecvInv, NEW t, conn' = [t EXCEPT !.out = <<>>], t \in SockRecord,
           SameCalls, scene' = scene, conn.st # "Free",
           t.wr = conn.wr,
           t.st \in {conn.st, "Closed"} \/ (conn.st = "Connecting" /\ t.st = "Connected")
    PROVE  AppFits'
  <1>1. conn'.st = t.st /\ conn'.wr = t.wr
    BY DEF SockRecord
  <1>2. AppFits
    BY DEF RecvInv
  <1>3. conn'.st # "Free" => app.pending + conn'.wr <= app.asked
    BY <1>1, <1>2 DEF AppFits
  <1> QED BY <1>1, <1>2, <1>3 DEF AppFits, SameCalls

\* A step of the stack that leaves the application alone.
LEMMA StackStep ==
    ASSUME RecvInv, NEW t, Step(conn, t, ReadSoFar, peer.bytes), StackDoes(t),
           conn.st # "Free", SameCalls, UNCHANGED <<scene, peer, lost>>,
           toUs' \in Seq(Segment), Len(toUs') <= MaxFlight,
           \A i \in 1..Len(toUs') : FromPeer(toUs'[i], peer.bytes)
    PROVE  RecvInv'
  <1>1. InOrder(t, ReadSoFar, peer.bytes) /\ t \in SockRecord
    BY DEF Step, InOrder, Fit
  <1>2. Alive(t) => /\ Alive(conn) /\ Top(conn, ReadSoFar) <= Top(t, ReadSoFar) /\ t.st # "Free"
    BY DEF Step, Alive
  <1>3. Types' /\ Flight' /\ Received' /\ Acknowledged'
    BY <1>1, <1>2, StackKeeps DEF InOrder, SameCalls
  <1>4. AppFits'
    BY <1>1, AppKeeps DEF Step, StackDoes
  <1> QED BY <1>3, <1>4 DEF RecvInv

LEMMA FlightStays ==
    ASSUME RecvInv, toUs' = toUs
    PROVE  /\ toUs' \in Seq(Segment) /\ Len(toUs') <= MaxFlight
           /\ \A i \in 1..Len(toUs') : FromPeer(toUs'[i], peer.bytes)
  BY DEF RecvInv, Flight

LEMMA FlightWithout ==
    ASSUME RecvInv, NEW i \in 1..Len(toUs), toUs' = Without(toUs, i)
    PROVE  /\ toUs' \in Seq(Segment) /\ Len(toUs') <= MaxFlight
           /\ \A j \in 1..Len(toUs') : FromPeer(toUs'[j], peer.bytes)
           /\ FromPeer(toUs[i], peer.bytes)
  <1>1. toUs \in Seq(Segment) /\ Len(toUs) <= MaxFlight /\ Len(toUs) \in Nat
        /\ \A j \in 1..Len(toUs) : FromPeer(toUs[j], peer.bytes)
    BY DEF RecvInv, Flight
  <1> DEFINE w == Without(toUs, i)
  <1>2. /\ w \in Seq(Segment) /\ Len(w) = Len(toUs) - 1
        /\ \A j \in 1..(Len(toUs) - 1) : w[j] = IF j < i THEN toUs[j] ELSE toUs[j + 1]
    BY <1>1, WithoutShape
  <1> HIDE DEF w
  <1>3. \A j \in 1..(Len(toUs) - 1) : j \in 1..Len(toUs) /\ j + 1 \in 1..Len(toUs)
    BY <1>1
  <1>4. \A j \in 1..Len(w) : FromPeer(w[j], peer.bytes)
    BY <1>1, <1>2, <1>3
  <1>5. Len(w) <= MaxFlight
    BY <1>1, <1>2, ConnAssumption
  <1>6. toUs' = w
    BY DEF w
  <1> QED BY <1>1, <1>2, <1>4, <1>5, <1>6

LEMMA ConnectKeeps == ASSUME RecvInv, Connect PROVE RecvInv'
  <1>1. PICK ok \in scene.resolves : StackDoes(ConnectStart(conn, ok))
    BY DEF Connect
  <1>2. conn.st = "Bound" /\ UNCHANGED <<scene, app, peer, toUs, lost>> /\ ~app.closed
    BY DEF Connect, Holds
  <1>3. ok \in BOOLEAN
    BY InvFacts, ConnAssumption DEF Scenes
  <1> DEFINE t == ConnectStart(conn, ok)
  <1>4. ReadSoFar \in Nat /\ peer.bytes \in Nat /\ InOrder(conn, ReadSoFar, peer.bytes)
    BY InvFacts
  <1>5. /\ InOrder(t, ReadSoFar, peer.bytes) /\ t.wr = conn.wr /\ t.st \in {"Connecting", "Closed"}
        /\ Alive(t) => Top(conn, ReadSoFar) <= Top(t, ReadSoFar)
    BY <1>2, <1>3, <1>4, ConnectCall
  <1> HIDE DEF t
  <1>6. StackDoes(t)
    BY <1>1 DEF t
  <1>7. Alive(conn)
    BY <1>2 DEF Alive
  <1>8. t.st # "Free"
    BY <1>5
  <1>9. Types' /\ Flight' /\ Received' /\ Acknowledged'
    BY <1>2, <1>5, <1>6, <1>7, <1>8, FlightStays, StackKeeps DEF InOrder
  <1>10. AppFits'
    <2>1. t \in SockRecord /\ conn' = [t EXCEPT !.out = <<>>]
      BY <1>5, <1>6 DEF InOrder, Fit, StackDoes
    <2>2. conn'.st = t.st /\ conn'.wr = conn.wr
      BY <1>5, <2>1 DEF SockRecord
    <2>3. AppFits
      BY DEF RecvInv
    <2> QED BY <1>2, <1>5, <2>2, <2>3 DEF AppFits
  <1> QED BY <1>9, <1>10 DEF RecvInv

LEMMA AcceptKeeps == ASSUME RecvInv, Accept PROVE RecvInv'
  <1>1. /\ app' = [app EXCEPT !.open = TRUE] /\ conn.st = "Connected"
        /\ UNCHANGED <<scene, conn, peer, toPeer, toUs, lost>>
    BY DEF Accept
  <1>2. app \in AppRecord
    BY DEF RecvInv, AppFits
  <1>3. /\ app' \in AppRecord /\ app'.closed = app.closed /\ app'.asked = app.asked
        /\ app'.pending = app.pending /\ app'.read = app.read /\ app'.full = app.full
    BY <1>1, <1>2 DEF AppRecord
  <1>4. Types' /\ Flight'
    BY <1>1 DEF RecvInv, Types, Flight
  <1>5. AppFits'
    BY <1>1, <1>3 DEF RecvInv, AppFits
  <1>6. Received' /\ Acknowledged'
    BY <1>1, <1>3 DEF RecvInv, Received, Acknowledged
  <1> QED BY <1>4, <1>5, <1>6 DEF RecvInv

LEMMA SendStartKeeps == ASSUME RecvInv, SendStart PROVE RecvInv'
  <1>1. PICK n \in 1..(scene.out - app.asked) :
            app' = [app EXCEPT !.pending = n, !.asked = @ + n]
    BY DEF SendStart
  <1>2. /\ conn.st = "Connected" /\ app.pending = 0
        /\ UNCHANGED <<scene, conn, peer, toPeer, toUs, lost>>
    BY DEF SendStart
  <1>3. app \in AppRecord /\ app.asked \in Nat /\ AppFits
    BY DEF RecvInv, AppFits, AppRecord
  <1>4. n \in Nat /\ app.asked + n \in Nat
    <2>1. scene.out \in Nat
      BY InvFacts, ConnAssumption DEF Scenes
    <2> QED BY <1>3, <2>1
  <1>5. /\ app' \in AppRecord /\ app'.closed = app.closed /\ app'.asked = app.asked + n
        /\ app'.pending = n /\ app'.read = app.read /\ app'.full = app.full
    BY <1>1, <1>3, <1>4 DEF AppRecord
  <1>6. Types' /\ Flight'
    BY <1>2 DEF RecvInv, Types, Flight
  <1>7. AppFits'
    <2>1. conn.wr \in Nat
      BY InvFacts DEF SockRecord
    <2>2. app.pending + conn.wr <= app.asked
      BY <1>2, <1>3 DEF AppFits
    <2>3. app'.pending + conn.wr <= app'.asked /\ app'.pending <= app'.asked
      BY <1>2, <1>3, <1>4, <1>5, <2>1, <2>2
    <2> QED BY <1>2, <1>3, <1>5, <2>3 DEF AppFits
  <1>8. Received' /\ Acknowledged'
    BY <1>2, <1>5 DEF RecvInv, Received, Acknowledged
  <1> QED BY <1>6, <1>7, <1>8 DEF RecvInv

LEMMA SendWriteKeeps == ASSUME RecvInv, SendWrite PROVE RecvInv'
  <1> DEFINE n == Lesser(app.pending, TxFree(conn))
  <1>1. PICK ok \in scene.resolves : StackDoes(SendTurn(conn, n, ok))
    BY DEF SendWrite
  <1>2. /\ app.pending > 0 /\ ~app.full /\ TxFree(conn) > 0
        /\ app' = [app EXCEPT !.pending = @ - n]
        /\ UNCHANGED <<scene, peer, toUs, lost>>
    BY DEF SendWrite
  <1>3. ok \in BOOLEAN
    BY InvFacts, ConnAssumption DEF Scenes
  <1>4. /\ ReadSoFar \in Nat /\ peer.bytes \in Nat /\ InOrder(conn, ReadSoFar, peer.bytes)
        /\ conn \in SockRecord /\ conn.wr \in Nat /\ Fit(conn)
    BY InvFacts DEF SockRecord, InOrder
  <1>5. app \in AppRecord /\ app.asked \in Nat /\ app.pending \in Nat /\ AppFits
    BY DEF RecvInv, AppFits, AppRecord
  <1>6. n \in Nat /\ n <= app.pending /\ n <= TxFree(conn)
    <2>1. TxFree(conn) \in Nat
      BY <1>4, FitNumbers, EndpointAssumption DEF TxFree
    <2> QED BY <1>5, <2>1, LesserBounds
  <1> HIDE DEF n
  <1>7. conn.st \in {"Connected", "Closed"}
    BY <1>2, <1>5 DEF AppFits
  <1> DEFINE t == SendTurn(conn, n, ok)
  <1>8. /\ InOrder(t, ReadSoFar, peer.bytes) /\ t.wr = conn.wr + n /\ t.st \in {conn.st, "Closed"}
        /\ Alive(t) => Top(conn, ReadSoFar) <= Top(t, ReadSoFar)
    BY <1>3, <1>4, <1>6, <1>7, SendCall
  <1> HIDE DEF t
  <1>9. StackDoes(t)
    BY <1>1 DEF t
  <1>10. /\ app' \in AppRecord /\ app'.closed = app.closed /\ app'.asked = app.asked
         /\ app'.pending = app.pending - n /\ app'.read = app.read /\ ~app'.full
    <2>1. app.pending - n \in Nat
      BY <1>5, <1>6
    <2>2. app'.pending = app.pending - n
      BY <1>2, <1>5 DEF AppRecord
    <2> QED BY <1>2, <1>5, <2>1, <2>2 DEF AppRecord
  <1>11. Alive(t) => Alive(conn) /\ t.st # "Free"
    BY <1>7, <1>8 DEF Alive
  <1>12. Types' /\ Flight' /\ Received' /\ Acknowledged'
    BY <1>2, <1>8, <1>9, <1>10, <1>11, FlightStays, StackKeeps DEF InOrder
  <1>13. AppFits'
    <2>1. t \in SockRecord /\ conn' = [t EXCEPT !.out = <<>>]
      BY <1>8, <1>9 DEF InOrder, Fit, StackDoes
    <2>2. conn'.st = t.st /\ conn'.wr = conn.wr + n
      BY <1>8, <2>1 DEF SockRecord
    <2>3. app.pending + conn.wr <= app.asked
      BY <1>5, <1>7 DEF AppFits
    <2>4. app'.pending + conn'.wr <= app'.asked /\ app'.pending <= app'.asked
      <3>1. app.pending - n + (conn.wr + n) = app.pending + conn.wr
        BY <1>4, <1>5, <1>6
      <3>2. app.pending - n <= app.asked
        BY <1>4, <1>5, <1>6, <2>3
      <3> QED BY <1>10, <2>2, <2>3, <3>1, <3>2
    <2>5. conn'.st \in {"Connected", "Closed"}
      BY <1>7, <1>8, <2>2
    <2> QED BY <1>2, <1>5, <1>7, <1>8, <1>10, <2>2, <2>4, <2>5 DEF AppFits
  <1> QED BY <1>12, <1>13 DEF RecvInv

LEMMA SendFullKeeps == ASSUME RecvInv, SendFull PROVE RecvInv'
  <1>1. /\ app' = [app EXCEPT !.full = TRUE] /\ app.pending > 0
        /\ UNCHANGED <<scene, conn, peer, toPeer, toUs, lost>>
    BY DEF SendFull
  <1>2. app \in AppRecord
    BY DEF RecvInv, AppFits
  <1>3. /\ app' \in AppRecord /\ app'.closed = app.closed /\ app'.asked = app.asked
        /\ app'.pending = app.pending /\ app'.read = app.read
    BY <1>1, <1>2 DEF AppRecord
  <1>4. Types' /\ Flight'
    BY <1>1 DEF RecvInv, Types, Flight
  <1>5. AppFits'
    BY <1>1, <1>3 DEF RecvInv, AppFits
  <1>6. Received' /\ Acknowledged'
    BY <1>1, <1>3 DEF RecvInv, Received, Acknowledged
  <1> QED BY <1>4, <1>5, <1>6 DEF RecvInv

LEMMA SendWaitKeeps == ASSUME RecvInv, SendWait PROVE RecvInv'
  <1>1. PICK ok \in scene.resolves : StackDoes(Output(conn, ok))
    BY DEF SendWait
  <1>2. app.full /\ app' = [app EXCEPT !.full = FALSE] /\ UNCHANGED <<scene, peer, toUs, lost>>
    BY DEF SendWait
  <1>3. ok \in BOOLEAN
    BY InvFacts, ConnAssumption DEF Scenes
  <1>4. /\ ReadSoFar \in Nat /\ peer.bytes \in Nat /\ InOrder(conn, ReadSoFar, peer.bytes)
        /\ app \in AppRecord
    BY InvFacts
  <1>5. conn.st \in {"Connected", "Closed"}
    BY <1>2 DEF RecvInv, AppFits
  <1>6. Step(conn, Output(conn, ok), ReadSoFar, peer.bytes)
    BY <1>3, <1>4, <1>5, OutputStep
  <1>7. SameCalls
    BY <1>2, <1>4 DEF SameCalls, AppRecord
  <1> QED BY <1>1, <1>2, <1>5, <1>6, <1>7, FlightStays, StackStep

LEMMA SendGivesUpKeeps == ASSUME RecvInv, SendGivesUp PROVE RecvInv'
  <1>1. /\ app' = [app EXCEPT !.full = FALSE, !.pending = 0, !.asked = @ - app.pending]
        /\ UNCHANGED <<scene, conn, peer, toPeer, toUs, lost>>
    BY DEF SendGivesUp
  <1>2. app \in AppRecord /\ AppFits /\ app.asked \in Nat /\ app.pending \in Nat
    BY DEF RecvInv, AppFits, AppRecord
  <1>3. app.asked - app.pending \in Nat
    BY <1>2 DEF AppFits
  <1>4. /\ app' \in AppRecord /\ app'.closed = app.closed /\ app'.asked = app.asked - app.pending
        /\ app'.pending = 0 /\ app'.read = app.read /\ ~app'.full
    BY <1>1, <1>2, <1>3 DEF AppRecord
  <1>5. Types' /\ Flight'
    BY <1>1 DEF RecvInv, Types, Flight
  <1>6. AppFits'
    <2>1. conn.wr \in Nat
      BY InvFacts DEF SockRecord
    <2>2. conn.st # "Free" => 0 + conn.wr <= app.asked - app.pending
      BY <1>2, <2>1 DEF AppFits
    <2> QED BY <1>1, <1>2, <1>3, <1>4, <2>2 DEF AppFits
  <1>7. Received' /\ Acknowledged'
    BY <1>1, <1>4 DEF RecvInv, Received, Acknowledged
  <1> QED BY <1>5, <1>6, <1>7 DEF RecvInv

LEMMA RecvBytesKeeps == ASSUME RecvInv, RecvBytes PROVE RecvInv'
  <1>1. PICK k \in 1..Len(conn.rx) :
            /\ app' = [app EXCEPT !.read = @ \o SubSeq(conn.rx, 1, k)]
            /\ conn' = RecvTake(conn, k)
    BY DEF RecvBytes
  <1>2. /\ app.pending = 0 /\ UNCHANGED <<scene, peer, toPeer, toUs, lost>>
        /\ Len(conn.rx) > 0
    BY DEF RecvBytes
  <1>3. /\ ReadSoFar \in Nat /\ peer.bytes \in Nat /\ InOrder(conn, ReadSoFar, peer.bytes)
        /\ app.read \in Seq(Nat) /\ app \in AppRecord /\ conn.out = <<>>
        /\ conn \in SockRecord
    BY InvFacts
  <1>4. conn.st \notin {"Bound", "Connecting"}
    BY <1>2, <1>3 DEF InOrder, Receiving
  <1> DEFINE new == SubSeq(conn.rx, 1, k)
             r == ReadSoFar + k
  <1>5. /\ InOrder(conn', r, peer.bytes)
        /\ conn'.wr = conn.wr /\ conn'.st = conn.st /\ conn'.out = conn.out
        /\ Top(conn', r) = Top(conn, ReadSoFar)
        /\ new \in Seq(Nat) /\ Len(new) = k
        /\ \A i \in 1..k : new[i] = ReadSoFar + i
    BY <1>1, <1>3, <1>4, RecvCall
  <1> HIDE DEF new
  <1>6. k \in Nat /\ k >= 1
    OBVIOUS
  <1>7. app.read \o new \in Seq(Nat)
    BY <1>3, <1>5
  <1>8. app' = [app EXCEPT !.read = app.read \o new]
    BY <1>1, <1>3 DEF new, AppRecord
  <1>9. /\ app' \in AppRecord /\ app'.closed = app.closed /\ app'.asked = app.asked
        /\ app'.pending = app.pending /\ app'.read = app.read \o new /\ app'.full = app.full
    BY <1>3, <1>7, <1>8 DEF AppRecord
  <1>10. Len(app'.read) = r /\ ReadSoFar' = r
    <2>1. Len(app.read \o new) = Len(app.read) + Len(new)
      BY <1>3, <1>5, JoinShape
    <2> QED BY <1>5, <1>9, <2>1 DEF ReadSoFar
  <1>11. \A i \in 1..Len(app'.read) : app'.read[i] = i
    <2>1. ASSUME NEW i \in 1..r PROVE (app.read \o new)[i] = i
      <3>0. Len(new) = k /\ Len(app.read) = ReadSoFar
        BY <1>5 DEF ReadSoFar
      <3>1. (app.read \o new)[i] = IF i <= Len(app.read) THEN app.read[i]
                                                         ELSE new[i - Len(app.read)]
        <4>1. i \in 1..(Len(app.read) + Len(new))
          BY <3>0
        <4> QED BY <1>3, <1>5, <4>1, JoinShape
      <3>2. CASE i <= ReadSoFar
        <4>1. app.read[i] = i
          BY <1>3, <3>2 DEF RecvInv, Received, ReadSoFar
        <4> QED BY <3>1, <3>2, <4>1 DEF ReadSoFar
      <3>3. CASE i > ReadSoFar
        <4>1. i - ReadSoFar \in 1..k /\ ReadSoFar + (i - ReadSoFar) = i
          BY <1>3, <1>6, <3>3
        <4>2. new[i - ReadSoFar] = i
          BY <1>5, <4>1
        <4>3. ~(i <= Len(app.read))
          BY <1>3, <3>3 DEF ReadSoFar
        <4> QED BY <3>1, <4>2, <4>3 DEF ReadSoFar
      <3>4. i <= ReadSoFar \/ i > ReadSoFar
        BY <1>3, <1>6
      <3> QED BY <3>2, <3>3, <3>4
    <2> QED BY <1>9, <1>10, <2>1
  <1>12. Types' /\ Flight'
    BY <1>2, <1>3, <1>5 DEF RecvInv, Types, Flight, InOrder
  <1>13. AppFits'
    BY <1>2, <1>5, <1>9 DEF RecvInv, AppFits
  <1>14. Received'
    <2>2. Receiving(conn', r, peer.bytes)
      BY <1>5 DEF InOrder
    <2> HIDE DEF r
    <2> QED BY <1>2, <1>9, <1>10, <1>11, <2>2 DEF Received
  <1>15. Acknowledged'
    <2>1. ~app.closed /\ Alive(conn) => conn.st # "Free"
      <3>1. conn.rx # <<>>
        BY <1>2
      <3> QED BY <3>1 DEF RecvInv, Acknowledged
    <2>2. Alive(conn') <=> Alive(conn)
      BY <1>5 DEF Alive
    <2> HIDE DEF r
    <2> QED BY <1>2, <1>5, <1>9, <1>10, <2>1, <2>2 DEF RecvInv, Acknowledged, ReadSoFar
  <1> QED BY <1>12, <1>13, <1>14, <1>15 DEF RecvInv

LEMMA RecvEofKeeps == ASSUME RecvInv, RecvEof PROVE RecvInv'
  <1>1. /\ app' = [app EXCEPT !.eof = TRUE]
        /\ UNCHANGED <<scene, conn, peer, toPeer, toUs, lost>>
    BY DEF RecvEof
  <1>2. app \in AppRecord
    BY InvFacts
  <1>3. /\ app' \in AppRecord /\ app'.closed = app.closed /\ app'.asked = app.asked
        /\ app'.pending = app.pending /\ app'.read = app.read /\ app'.full = app.full
    BY <1>1, <1>2 DEF AppRecord
  <1>4. Types' /\ Flight'
    BY <1>1 DEF RecvInv, Types, Flight
  <1>5. AppFits'
    BY <1>1, <1>3 DEF RecvInv, AppFits
  <1>6. Received' /\ Acknowledged'
    BY <1>1, <1>3 DEF RecvInv, Received, Acknowledged
  <1> QED BY <1>4, <1>5, <1>6 DEF RecvInv

LEMMA CloseKeeps == ASSUME RecvInv, Close PROVE RecvInv'
  <1>1. PICK ok \in scene.resolves : StackDoes(CloseCall(conn, ok))
    BY DEF Close
  <1>2. /\ app.pending = 0 /\ app' = [app EXCEPT !.closed = TRUE]
        /\ UNCHANGED <<scene, peer, toUs, lost>>
    BY DEF Close
  <1>3. ok \in BOOLEAN
    BY InvFacts, ConnAssumption DEF Scenes
  <1>4. /\ ReadSoFar \in Nat /\ peer.bytes \in Nat /\ InOrder(conn, ReadSoFar, peer.bytes)
        /\ app \in AppRecord /\ AppFits /\ conn.wr \in Nat
    BY InvFacts DEF RecvInv, SockRecord
  <1> DEFINE t == CloseCall(conn, ok)
  <1>5. /\ InOrder(t, ReadSoFar, peer.bytes) /\ t.st \in {"Free", "Closing"}
        /\ t.st = "Closing" => t.wr = conn.wr
    BY <1>3, <1>4, CloseLeaves
  <1>6. StackDoes(t)
    BY <1>1
  <1>7. conn.st # "Free" \/ t.st = "Free"
    <2>1. conn.st = "Free" => conn.tcp = "Closed"
      BY <1>4 DEF InOrder, Fit, Agree
    <2>2. conn.tcp = "Closed" => t = FreeSocket
      BY DEF CloseCall
    <2>3. FreeSocket.st = "Free"
      BY DEF FreeSocket
    <2> QED BY <2>1, <2>2, <2>3
  <1> HIDE DEF t
  <1>8. /\ app' \in AppRecord /\ app'.closed /\ app'.asked = app.asked
        /\ app'.pending = app.pending /\ app'.read = app.read /\ app'.full = app.full
    BY <1>2, <1>4 DEF AppRecord
  <1>9. Types' /\ Flight' /\ Received' /\ Acknowledged'
    BY <1>2, <1>5, <1>6, <1>8, FlightStays, StackKeeps DEF InOrder
  <1>10. AppFits'
    <2>1. t \in SockRecord /\ conn' = [t EXCEPT !.out = <<>>]
      BY <1>5, <1>6 DEF InOrder, Fit, StackDoes
    <2>2. conn'.st = t.st /\ conn'.wr = t.wr
      BY <2>1 DEF SockRecord
    <2>3. conn'.st # "Free" => app'.pending + conn'.wr <= app'.asked
      BY <1>4, <1>5, <1>7, <1>8, <2>2 DEF AppFits
    <2>4. conn'.st \in {"Free", "Closing"} /\ app'.pending = 0 /\ app'.pending <= app'.asked
      BY <1>2, <1>4, <1>5, <1>8, <2>2 DEF AppFits
    <2>5. ~app'.full
      <3>1. ~app.full
        BY <1>2, <1>4 DEF AppFits
      <3> QED BY <1>8, <3>1
    <2> QED BY <1>8, <2>3, <2>4, <2>5 DEF AppFits
  <1> QED BY <1>9, <1>10 DEF RecvInv

LEMMA TimerKeeps == ASSUME RecvInv, Timer PROVE RecvInv'
  <1>1. PICK ok \in scene.resolves : StackDoes(TimerExpired(conn, ok))
    BY DEF Timer
  <1>2. TimerRuns(conn) /\ UNCHANGED <<scene, app, peer, toUs, lost>>
    BY DEF Timer
  <1>3. ok \in BOOLEAN
    BY InvFacts, ConnAssumption DEF Scenes
  <1>4. /\ ReadSoFar \in Nat /\ peer.bytes \in Nat /\ InOrder(conn, ReadSoFar, peer.bytes)
    BY InvFacts
  <1>5. Step(conn, TimerExpired(conn, ok), ReadSoFar, peer.bytes)
    BY <1>2, <1>3, <1>4, TimerStep
  <1>6. conn.st # "Free"
    BY <1>2, <1>4 DEF TimerRuns, InOrder, Fit, Agree
  <1> QED BY <1>1, <1>2, <1>5, <1>6, FlightStays, SameAppSameCalls, StackStep

LEMMA FreeMeans ==
    ASSUME RecvInv, conn.st = "Free", ~app.closed
    PROVE  scene.passive /\ app.read = <<>> /\ conn.rx = <<>>
  <1>1. Alive(conn)
    BY DEF Alive
  <1> QED BY <1>1 DEF RecvInv, AppFits, Acknowledged

LEMMA DeliverKeeps == ASSUME RecvInv, Deliver PROVE RecvInv'
  <1>1. PICK i \in 1..Lesser(scene.reach, Len(toUs)), ok \in scene.resolves :
            /\ StackDoes(Dispatch(conn, toUs[i], ok))
            /\ toUs' = Without(toUs, i)
    BY DEF Deliver
  <1>2. UNCHANGED <<scene, app, peer, lost>>
    BY DEF Deliver
  <1>3. ok \in BOOLEAN /\ i \in 1..Len(toUs)
    <2>1. scene.reach \in Nat /\ Len(toUs) \in Nat
      BY InvFacts, ConnAssumption DEF Scenes, RecvInv, Flight
    <2>2. Lesser(scene.reach, Len(toUs)) <= Len(toUs) /\ Lesser(scene.reach, Len(toUs)) \in Nat
      BY <2>1, LesserBounds
    <2>3. i \in 1..Len(toUs)
      BY <2>1, <2>2
    <2> QED BY <2>3, InvFacts, ConnAssumption DEF Scenes
  <1> DEFINE g == toUs[i]
             t == Dispatch(conn, g, ok)
             b == peer.bytes
  <1>4. /\ toUs' \in Seq(Segment) /\ Len(toUs') <= MaxFlight
        /\ \A j \in 1..Len(toUs') : FromPeer(toUs'[j], b)
        /\ FromPeer(g, b)
    BY <1>1, <1>3, FlightWithout
  <1>5. /\ ReadSoFar \in Nat /\ b \in Nat /\ b + 2 <= SeqMod /\ InOrder(conn, ReadSoFar, b)
    BY InvFacts
  <1>6. StackDoes(t)
    BY <1>1
  <1> HIDE DEF g, t
  <1>7. CASE conn.st # "Free"
    <2>1. t = TcpInput(conn, g, ok)
      BY <1>7 DEF t, Dispatch
    <2>2. Step(conn, t, ReadSoFar, b)
      BY <1>3, <1>4, <1>5, <2>1, InputStep
    <2> QED BY <1>2, <1>4, <1>6, <1>7, <2>2, SameAppSameCalls, StackStep
  <1>8. CASE conn.st = "Free"
    <2>1. CASE scene.passive /\ NotClosed /\ "SYN" \in g.flags
      <3>1. t = ListenerInput(g, ok) /\ ~app.closed
        BY <1>8, <2>1 DEF t, Dispatch, NotClosed
      <3>2. app.read = <<>> /\ conn.rx = <<>>
        BY <1>8, <3>1, FreeMeans
      <3>3. ReadSoFar = 0 /\ Len(conn.rx) = 0
        BY <3>2 DEF ReadSoFar
      <3>4. InOrder(t, ReadSoFar, b) /\ t.st \in {"Connecting", "Closed"} /\ t.wr = 0
        BY <1>3, <1>4, <1>5, <2>1, <3>1, <3>3, ListenerTakes
      <3>5. Top(conn, ReadSoFar) = 0
        <4>1. conn.tcp = "Closed"
          BY <1>5, <1>8 DEF InOrder, Fit, Agree
        <4> QED BY <3>3, <4>1 DEF Top
      <3>6. Top(t, ReadSoFar) \in Nat /\ Alive(conn)
        BY <1>5, <1>8, <3>4, TopIsNat DEF InOrder, Alive
      <3>7. Top(conn, ReadSoFar) <= Top(t, ReadSoFar) /\ t.st # "Free"
        BY <3>4, <3>5, <3>6
      <3>8. app'.read = app.read /\ app'.closed = app.closed
        BY <1>2
      <3>9. Types' /\ Flight' /\ Received' /\ Acknowledged'
        BY <1>2, <1>4, <1>6, <3>1, <3>4, <3>6, <3>7, <3>8, StackKeeps DEF InOrder
      <3>10. AppFits'
        <4>1. t \in SockRecord /\ conn' = [t EXCEPT !.out = <<>>]
          BY <1>6, <3>4 DEF InOrder, Fit, StackDoes
        <4>2. conn'.st = t.st /\ conn'.wr = 0
          BY <3>4, <4>1 DEF SockRecord
        <4>3. AppFits /\ app \in AppRecord /\ app.pending \in Nat
          BY DEF RecvInv, AppFits, AppRecord
        <4>4. app.pending = 0
          BY <1>8, <4>3 DEF AppFits
        <4>5. app.pending + conn'.wr <= app.asked
          BY <4>2, <4>3, <4>4 DEF AppFits, AppRecord
        <4> QED BY <1>2, <3>1, <3>4, <4>2, <4>3, <4>4, <4>5 DEF AppFits
      <3> QED BY <3>9, <3>10 DEF RecvInv
    <2>2. CASE ~(scene.passive /\ NotClosed /\ "SYN" \in g.flags)
      <3>1. t = conn \/ (t = [conn EXCEPT !.out = <<ResetReply(g)>>] /\ ~(scene.passive /\ NotClosed))
        BY <1>8, <2>2 DEF t, Dispatch
      <3>2. ResetReply(g) \in Segment
        <4>1. g \in Segment
          BY <1>4 DEF FromPeer
        <4>2. g.ack \in 0..(SeqMod - 1) /\ g.seq + 1 \in Int /\ 0 \in 0..(SeqMod - 1)
              /\ <<>> \in Seq(Nat)
          BY <4>1, EndpointAssumption DEF Segment
        <4>3. (g.seq + 1) % SeqMod \in 0..(SeqMod - 1)
          BY <4>2, ModNum DEF Num
        <4> QED BY <4>2, <4>3 DEF ResetReply, Segment, Flag
      <3>3. conn \in SockRecord /\ Fit(conn) /\ conn.out = <<>>
        BY <1>5, InvFacts DEF InOrder
      <3>4. /\ t \in SockRecord /\ t.st = conn.st /\ t.tcp = conn.tcp /\ t.ack = conn.ack
            /\ t.rx = conn.rx /\ t.wr = conn.wr /\ t.rel = conn.rel
            /\ conn' = conn
        <4>1. CASE t = conn
          BY <1>6, <3>3, <4>1 DEF StackDoes, SockRecord
        <4>2. CASE t = [conn EXCEPT !.out = <<ResetReply(g)>>]
          <5>1. <<ResetReply(g)>> \in Seq(Segment)
            BY <3>2
          <5>2. /\ t \in SockRecord /\ t.st = conn.st /\ t.tcp = conn.tcp /\ t.ack = conn.ack
                /\ t.rx = conn.rx /\ t.wr = conn.wr /\ t.rel = conn.rel
            BY <3>3, <4>2, <5>1 DEF SockRecord
          <5>3. [t EXCEPT !.out = <<>>] = conn
            BY <3>3, <4>2 DEF SockRecord
          <5> QED BY <1>6, <5>2, <5>3 DEF StackDoes
        <4> QED BY <3>1, <4>1, <4>2
      <3>5. ~app.closed => t = conn
        <4>1. ~app.closed => scene.passive /\ NotClosed
          BY <1>8, FreeMeans DEF NotClosed
        <4> QED BY <3>1, <4>1
      <3>6. Fit(t)
        BY <3>3, <3>4 DEF Fit, Agree
      <3>7. Receiving(t, ReadSoFar, b)
        BY <1>5, <3>4 DEF InOrder, Receiving, Top
      <3>8. ~app.closed => Answers(t, ReadSoFar)
        BY <1>5, <3>5 DEF InOrder
      <3>9. ~app.closed /\ Alive(t) =>
                /\ Alive(conn) /\ Top(conn, ReadSoFar) <= Top(t, ReadSoFar)
                /\ app.read = <<>> /\ t.rx = <<>>
        <4>1. Top(conn, ReadSoFar) \in Nat
          BY <1>5, TopIsNat DEF InOrder
        <4>2. Top(conn, ReadSoFar) <= Top(conn, ReadSoFar)
          BY <4>1
        <4> QED BY <1>8, <3>5, <4>2, FreeMeans
      <3>10. app'.read = app.read /\ app'.closed = app.closed
        BY <1>2
      <3>11. Types' /\ Flight' /\ Received' /\ Acknowledged'
        BY <1>2, <1>4, <1>6, <3>6, <3>7, <3>8, <3>9, <3>10, StackKeeps
      <3>12. AppFits'
        BY <1>2, <3>4 DEF RecvInv, AppFits
      <3> QED BY <3>11, <3>12 DEF RecvInv
    <2> QED BY <2>1, <2>2
  <1> QED BY <1>7, <1>8

----------------------------------------------------------------------------
(* The network and the peer.                                               *)

LEMMA InReach ==
    ASSUME RecvInv, NEW q \in Seq(Segment), NEW i \in 1..Lesser(scene.reach, Len(q))
    PROVE  i \in 1..Len(q)
  <1>1. scene.reach \in Nat /\ Len(q) \in Nat
    BY InvFacts, ConnAssumption DEF Scenes
  <1>2. Lesser(scene.reach, Len(q)) <= Len(q) /\ Lesser(scene.reach, Len(q)) \in Nat
    BY <1>1, LesserBounds
  <1> QED BY <1>1, <1>2

LEMMA LoseInKeeps == ASSUME RecvInv, LoseIn PROVE RecvInv'
  <1>1. PICK i \in 1..Lesser(scene.reach, Len(toUs)) : toUs' = Without(toUs, i)
    BY DEF LoseIn
  <1>2. lost' = [lost EXCEPT !.in = @ + 1] /\ UNCHANGED <<scene, conn, app, peer, toPeer>>
    BY DEF LoseIn
  <1>3. toUs \in Seq(Segment) /\ lost \in [in : Nat, out : Nat]
    BY DEF RecvInv, Flight, Types
  <1>4. i \in 1..Len(toUs)
    BY <1>3, InReach
  <1>5. /\ toUs' \in Seq(Segment) /\ Len(toUs') <= MaxFlight
        /\ \A j \in 1..Len(toUs') : FromPeer(toUs'[j], peer.bytes)
    BY <1>1, <1>4, FlightWithout
  <1>6. lost' \in [in : Nat, out : Nat]
    BY <1>2, <1>3
  <1>7. Types' /\ AppFits' /\ Received' /\ Acknowledged'
    BY <1>2, <1>6 DEF RecvInv, Types, AppFits, Received, Acknowledged
  <1>8. Flight'
    BY <1>2, <1>5 DEF RecvInv, Flight
  <1> QED BY <1>7, <1>8 DEF RecvInv

LEMMA FlightOutWithout ==
    ASSUME RecvInv, NEW i \in 1..Len(toPeer), toPeer' = Without(toPeer, i)
    PROVE  /\ toPeer' \in Seq(Segment) /\ Len(toPeer') <= MaxFlight
           /\ \A k : AcksWithin(toPeer, k) => AcksWithin(toPeer', k)
           /\ toPeer[i] \in Segment
  <1>1. toPeer \in Seq(Segment) /\ Len(toPeer) <= MaxFlight /\ Len(toPeer) \in Nat
    BY DEF RecvInv, Flight
  <1> DEFINE w == Without(toPeer, i)
  <1>2. w \in Seq(Segment) /\ Len(w) = Len(toPeer) - 1
    BY <1>1, WithoutShape
  <1>3. \A k : AcksWithin(toPeer, k) => AcksWithin(w, k)
    BY <1>1, AcksWithout
  <1> HIDE DEF w
  <1>4. toPeer' = w
    BY DEF w
  <1>5. Len(w) <= MaxFlight
    BY <1>1, <1>2, ConnAssumption
  <1>6. toPeer[i] \in Segment
    BY <1>1
  <1> QED BY <1>2, <1>3, <1>4, <1>5, <1>6

LEMMA LoseOutKeeps == ASSUME RecvInv, LoseOut PROVE RecvInv'
  <1>1. PICK i \in 1..Lesser(scene.reach, Len(toPeer)) : toPeer' = Without(toPeer, i)
    BY DEF LoseOut
  <1>2. lost' = [lost EXCEPT !.out = @ + 1] /\ UNCHANGED <<scene, conn, app, peer, toUs>>
    BY DEF LoseOut
  <1>3. toPeer \in Seq(Segment) /\ lost \in [in : Nat, out : Nat]
    BY DEF RecvInv, Flight, Types
  <1>4. i \in 1..Len(toPeer)
    BY <1>3, InReach
  <1>5. /\ toPeer' \in Seq(Segment) /\ Len(toPeer') <= MaxFlight
        /\ \A k : AcksWithin(toPeer, k) => AcksWithin(toPeer', k)
    BY <1>1, <1>4, FlightOutWithout
  <1>6. lost' \in [in : Nat, out : Nat]
    BY <1>2, <1>3
  <1>7. Types' /\ AppFits' /\ Received'
    BY <1>2, <1>6 DEF RecvInv, Types, AppFits, Received
  <1>8. Flight'
    BY <1>2, <1>5 DEF RecvInv, Flight
  <1>9. Acknowledged'
    BY <1>2, <1>5 DEF RecvInv, Acknowledged
  <1> QED BY <1>7, <1>8, <1>9 DEF RecvInv

\* A step of the peer, after which it counts acked units as acknowledged.
LEMMA PeerKeeps ==
    ASSUME RecvInv, NEW q, Sound(q), q.bytes = peer.bytes, PeerDoes(q),
           UNCHANGED <<scene, conn, app, lost>>,
           toPeer' \in Seq(Segment), Len(toPeer') <= MaxFlight,
           \A k : AcksWithin(toPeer, k) => AcksWithin(toPeer', k),
           ~app.closed /\ Alive(conn) => q.acked <= Top(conn, ReadSoFar)
    PROVE  RecvInv'
  <1>1. q \in PeerRecord /\ PeerFit(q) /\ <<>> \in Seq(Segment) /\ q.out \in Seq(Segment)
    BY DEF Sound, PeerFit, PeerRecord
  <1>2. peer' = [q EXCEPT !.out = <<>>] /\ toUs' = toUs \o q.out
        /\ Len(toUs) + Len(q.out) <= MaxFlight
    BY DEF PeerDoes
  <1>3. /\ peer' \in PeerRecord /\ peer'.out = <<>> /\ peer'.bytes = q.bytes
        /\ peer'.closes = q.closes /\ peer'.acked = q.acked /\ peer'.sent = q.sent
    BY <1>1, <1>2 DEF PeerRecord
  <1>4. PeerFit(peer')
    BY <1>1, <1>3 DEF PeerFit, PeerFins
  <1>5. Types'
    BY <1>3, <1>4 DEF RecvInv, Types
  <1>6. AppFits' /\ Received'
    BY <1>3 DEF RecvInv, AppFits, Received
  <1>7. Acknowledged'
    BY <1>3 DEF RecvInv, Acknowledged, ReadSoFar
  <1>8. Flight'
    <2>1. toUs \in Seq(Segment) /\ \A i \in 1..Len(toUs) : FromPeer(toUs[i], peer.bytes)
      BY DEF RecvInv, Flight
    <2> DEFINE w == toUs \o q.out
    <2>2. /\ w \in Seq(Segment) /\ Len(w) = Len(toUs) + Len(q.out)
          /\ Len(toUs) \in Nat /\ Len(q.out) \in Nat
          /\ \A i \in 1..(Len(toUs) + Len(q.out)) :
                w[i] = IF i <= Len(toUs) THEN toUs[i] ELSE q.out[i - Len(toUs)]
      BY <1>1, <2>1
    <2> HIDE DEF w
    <2>3. ASSUME NEW i \in 1..Len(w) PROVE FromPeer(w[i], peer.bytes)
      <3>1. i \in 1..(Len(toUs) + Len(q.out))
        BY <2>2
      <3>2. CASE i <= Len(toUs)
        <4>1. i \in 1..Len(toUs)
          BY <2>2, <3>1, <3>2
        <4> QED BY <2>1, <2>2, <3>1, <3>2, <4>1
      <3>3. CASE i > Len(toUs)
        <4>1. i - Len(toUs) \in 1..Len(q.out) /\ ~(i <= Len(toUs))
          BY <2>2, <3>1, <3>3
        <4> QED BY <2>2, <3>1, <4>1 DEF Sound
      <3> QED BY <2>2, <3>1, <3>2, <3>3
    <2>4. toUs' = w
      BY <1>2 DEF w
    <2> QED BY <1>2, <1>3, <2>2, <2>3, <2>4 DEF Flight
  <1> QED BY <1>5, <1>6, <1>7, <1>8 DEF RecvInv

LEMMA PeerReceivesKeeps == ASSUME RecvInv, PeerReceives PROVE RecvInv'
  <1>1. PICK i \in 1..Lesser(scene.reach, Len(toPeer)) :
            /\ PeerDoes(PeerInput(peer, toPeer[i]))
            /\ toPeer' = Without(toPeer, i)
    BY DEF PeerReceives
  <1>2. UNCHANGED <<scene, conn, app, lost>>
    BY DEF PeerReceives
  <1>3. toPeer \in Seq(Segment)
    BY DEF RecvInv, Flight
  <1>4. i \in 1..Len(toPeer)
    BY <1>3, InReach
  <1>5. /\ toPeer' \in Seq(Segment) /\ Len(toPeer') <= MaxFlight
        /\ \A k : AcksWithin(toPeer, k) => AcksWithin(toPeer', k)
        /\ toPeer[i] \in Segment
    BY <1>1, <1>4, FlightOutWithout
  <1> DEFINE g == toPeer[i]
             q == PeerInput(peer, g)
  <1>6. Sound(peer) /\ g \in Segment /\ ReadSoFar \in Nat /\ InOrder(conn, ReadSoFar, peer.bytes)
        /\ peer.bytes \in Nat /\ peer.bytes + 2 <= SeqMod
    BY <1>5, InvFacts
  <1>7. Hears(peer, q, g)
    BY <1>6, PeerInputHears
  <1>8. PeerDoes(q)
    BY <1>1
  <1> HIDE DEF q
  <1>9. ASSUME ~app.closed, Alive(conn) PROVE q.acked <= Top(conn, ReadSoFar)
    <2>1. AcksWithin(toPeer, Top(conn, ReadSoFar)) /\ peer.acked <= Top(conn, ReadSoFar)
      BY <1>9 DEF RecvInv, Acknowledged, ReadSoFar
    <2>2. Top(conn, ReadSoFar) \in Nat /\ Top(conn, ReadSoFar) <= peer.bytes + 1
      <3>1. Top(conn, ReadSoFar) \in Nat /\ Top(conn, ReadSoFar) <= ReadSoFar + Len(conn.rx) + 1
        BY <1>6, TopIsNat DEF InOrder
      <3>2. ReadSoFar + Len(conn.rx) <= peer.bytes /\ Len(conn.rx) \in Nat
        BY InvFacts DEF InOrder, Receiving, SockRecord
      <3> QED BY <1>6, <3>1, <3>2
    <2>3. "ACK" \in g.flags => \E j \in 0..Top(conn, ReadSoFar) : g.ack = Pos(j)
      BY <1>4, <2>1 DEF AcksWithin
    <2> HIDE DEF g
    <2> QED BY <1>6, <1>7, <2>1, <2>2, <2>3, AckedBound
  <1>10. Sound(q) /\ q.bytes = peer.bytes
    BY <1>7 DEF Hears
  <1> QED BY <1>2, <1>5, <1>8, <1>9, <1>10, PeerKeeps

\* A step of the peer that hears nothing.
LEMMA PeerAlone ==
    ASSUME RecvInv, NEW q, Sound(q), q.bytes = peer.bytes, q.acked = peer.acked,
           PeerDoes(q), UNCHANGED <<scene, conn, app, toPeer, lost>>
    PROVE  RecvInv'
  <1>1. toPeer' \in Seq(Segment) /\ Len(toPeer') <= MaxFlight
        /\ \A k : AcksWithin(toPeer, k) => AcksWithin(toPeer', k)
    BY DEF RecvInv, Flight
  <1>2. ~app.closed /\ Alive(conn) => q.acked <= Top(conn, ReadSoFar)
    BY DEF RecvInv, Acknowledged, ReadSoFar
  <1> QED BY <1>1, <1>2, PeerKeeps

LEMMA FarKeeps ==
    ASSUME RecvInv, PeerData \/ PeerRepeats \/ PeerRead \/ PeerAbort
    PROVE  RecvInv'
  <1>1. Sound(peer)
    BY InvFacts
  <1>2. ASSUME PeerData PROVE RecvInv'
    <2>1. PICK m \in PeerMaySend(peer) : PeerDoes(PeerSendsData(peer, m))
      BY <1>2 DEF PeerData
    <2>2. UNCHANGED <<scene, conn, app, toPeer, lost>>
      BY <1>2 DEF PeerData
    <2> QED BY <1>1, <2>1, <2>2, PeerMore, PeerAlone
  <1>3. ASSUME PeerRepeats PROVE RecvInv'
    <2>1. PeerDoes(PeerRepeatsSyn(peer)) /\ UNCHANGED <<scene, conn, app, toPeer, lost>>
      BY <1>3 DEF PeerRepeats
    <2> QED BY <1>1, <2>1, PeerAgain, PeerAlone
  <1>4. ASSUME PeerRead PROVE RecvInv'
    <2>1. PeerDoes(PeerReads(peer)) /\ UNCHANGED <<scene, conn, app, toPeer, lost>>
      BY <1>4 DEF PeerRead
    <2> QED BY <1>1, <2>1, PeerEmpties, PeerAlone
  <1>5. ASSUME PeerAbort PROVE RecvInv'
    <2>1. PeerDoes(PeerAborts(peer)) /\ UNCHANGED <<scene, conn, app, toPeer, lost>>
      BY <1>5 DEF PeerAbort
    <2> QED BY <1>1, <2>1, PeerGivesUp, PeerAlone
  <1> QED BY <1>2, <1>3, <1>4, <1>5

----------------------------------------------------------------------------
(* The theorems.                                                           *)

LEMMA InitHolds == Init => RecvInv
  <1> SUFFICES ASSUME Init PROVE RecvInv
    OBVIOUS
  <1>1. scene \in Scene /\ scene \in Scenes
    BY ConnAssumption DEF Init
  <1>2. scene.bytes \in Nat /\ scene.closes \in BOOLEAN /\ scene.passive \in BOOLEAN
    BY <1>1 DEF Scenes
  <1>3. /\ Fit(conn) /\ conn.out = <<>> /\ Len(conn.rx) = 0 /\ conn.st \in {"Free", "Bound"}
        /\ conn.wr = 0 /\ conn.tcp = "Closed" /\ conn.rx = <<>>
        /\ (conn.st = "Free" <=> scene.passive)
    <2>1. Fit(BoundSocket) /\ BoundSocket.out = <<>> /\ BoundSocket.rx = <<>>
          /\ BoundSocket.st = "Bound" /\ BoundSocket.wr = 0 /\ BoundSocket.tcp = "Closed"
      <3>1. FreeSocket \in SockRecord /\ FreeSocket.out = <<>> /\ FreeSocket.rx = <<>>
            /\ FreeSocket.wr = 0 /\ FreeSocket.tcp = "Closed" /\ FreeSocket.rel = 0
        BY FreeFits DEF Fit, FreeSocket
      <3> DEFINE u == BoundSocket
      <3>2. u = [FreeSocket EXCEPT !.st = "Bound"]
        BY DEF BoundSocket
      <3> HIDE DEF u
      <3>3. /\ u \in SockRecord /\ u.st = "Bound" /\ u.out = <<>> /\ u.rx = <<>> /\ u.wr = 0
            /\ u.tcp = "Closed" /\ u.rel = 0
        BY <3>1, <3>2 DEF SockRecord, SockState
      <3>4. Len(<<>>) = 0 /\ RxBuf \in Nat /\ TxBuf \in Nat
        BY EndpointAssumption
      <3>5. Fit(u)
        BY <3>3, <3>4 DEF Fit, Agree
      <3> QED BY <3>3, <3>5 DEF u
    <2>2. Fit(FreeSocket) /\ FreeSocket.out = <<>> /\ FreeSocket.rx = <<>>
          /\ FreeSocket.st = "Free" /\ FreeSocket.wr = 0 /\ FreeSocket.tcp = "Closed"
      BY FreeFits DEF FreeSocket
    <2>3. conn = IF scene.passive THEN FreeSocket ELSE BoundSocket
      BY DEF Init
    <2>4. Len(<<>>) = 0
      OBVIOUS
    <2> QED BY <1>2, <2>1, <2>2, <2>3, <2>4
  <1>4. /\ app \in AppRecord /\ app.closed = FALSE /\ app.asked = 0 /\ app.pending = 0
        /\ app.read = <<>> /\ app.full = FALSE
    <2>1. <<>> \in Seq(Nat)
      OBVIOUS
    <2> QED BY <1>2, <2>1 DEF Init, AppRecord
  <1>5. /\ peer \in PeerRecord /\ peer.bytes = scene.bytes /\ peer.acked = 0 /\ peer.sent = 0
        /\ peer.out = <<>>
    <2>1. <<>> \in Seq(Nat) /\ <<>> \in Seq(Segment) /\ 0 \in Num /\ 0 \in 0..PeerBuf
      BY EndpointAssumption, PeerAssumption DEF Num
    <2>2. peer = Peer(IF scene.passive THEN "synSent" ELSE "listen", scene.bytes, scene.closes)
      BY DEF Init
    <2> QED BY <1>2, <2>1, <2>2 DEF Peer, PeerRecord
  <1>6. PeerFit(peer)
    BY <1>2, <1>5 DEF PeerFit, PeerFins
  <1>7. lost \in [in : Nat, out : Nat]
    BY DEF Init
  <1>8. Types
    BY <1>1, <1>3, <1>5, <1>6, <1>7 DEF Types
  <1>9. AppFits
    BY <1>3, <1>4 DEF AppFits
  <1>10. Len(<<>>) = 0 /\ <<>> \in Seq(Segment) /\ 0 <= MaxFlight /\ 1 <= MaxFlight
    BY ConnAssumption
  <1>11. FromPeer(PeerSynSegment, peer.bytes) /\ PeerSynSegment \in Segment
    BY <1>6, PeerSynsSound DEF FromPeer
  <1>12. toPeer = <<>> /\ toUs = IF scene.passive THEN <<PeerSynSegment>> ELSE <<>>
    BY DEF Init
  <1>21. toUs \in Seq(Segment) /\ Len(toUs) <= MaxFlight
        /\ \A i \in 1..Len(toUs) : FromPeer(toUs[i], peer.bytes)
    <2>1. <<PeerSynSegment>> \in Seq(Segment) /\ Len(<<PeerSynSegment>>) = 1
          /\ <<PeerSynSegment>>[1] = PeerSynSegment
      BY <1>11
    <2> QED BY <1>2, <1>10, <1>11, <1>12, <2>1
  <1>22. Flight
    BY <1>10, <1>12, <1>21 DEF Flight
  <1>23. Len(app.read) = 0
    BY <1>4, <1>10
  <1>24. Received
    BY <1>2, <1>3, <1>4, <1>5, <1>23 DEF Received, Receiving
  <1>25. Top(conn, 0) = 0
    BY <1>3 DEF Top
  <1>26. AcksWithin(toPeer, 0)
    BY <1>10, <1>12 DEF AcksWithin
  <1>27. Acknowledged
    BY <1>3, <1>4, <1>5, <1>23, <1>25, <1>26 DEF Acknowledged
  <1> QED BY <1>8, <1>9, <1>22, <1>24, <1>27 DEF RecvInv

LEMMA NextKeeps == RecvInv /\ [Next]_vars => RecvInv'
  <1> SUFFICES ASSUME RecvInv, [Next]_vars PROVE RecvInv'
    OBVIOUS
  <1>1. CASE App
    BY <1>1, ConnectKeeps, AcceptKeeps, SendStartKeeps, SendWriteKeeps, SendFullKeeps, SendWaitKeeps,
       SendGivesUpKeeps, RecvBytesKeeps, RecvEofKeeps, CloseKeeps DEF App
  <1>2. CASE Poll
    BY <1>2, DeliverKeeps, TimerKeeps DEF Poll
  <1>3. CASE Net
    BY <1>3, LoseInKeeps, LoseOutKeeps DEF Net
  <1>4. CASE Far
    BY <1>4, PeerReceivesKeeps, FarKeeps DEF Far
  <1>5. CASE UNCHANGED vars
    BY <1>5 DEF RecvInv, Types, AppFits, Flight, Received, Acknowledged, vars
  <1> QED BY <1>1, <1>2, <1>3, <1>4, <1>5 DEF Next

THEOREM Receives == Spec => []RecvInv
  BY InitHolds, NextKeeps, PTL DEF Spec

\* Types.
THEOREM TypesHold == Spec => []TypeOK
  <1>1. RecvInv => TypeOK
    <2> SUFFICES ASSUME RecvInv PROVE TypeOK
      OBVIOUS
    <2>1. conn \in SockRecord /\ Fit(conn) /\ conn.out = <<>> /\ peer.out = <<>>
          /\ scene \in Scene
      BY DEF RecvInv, Types, Fit
    <2>2. TxAvailable(conn) \in 0..TxBuf /\ RxFree(conn) \in 0..RxBuf
      BY <2>1, FitNumbers
    <2>3. conn.st \in SockState /\ conn.tcp \in TcpState /\ conn.cnt \in 0..MaxRetx
          /\ conn.seq \in Num /\ conn.ack \in Num /\ conn.una \in Num
      BY <2>1 DEF SockRecord
    <2>4. app.pending + conn.wr <= app.asked \/ conn.st = "Free"
      BY DEF RecvInv, AppFits
    <2>5. Len(toPeer) <= MaxFlight /\ Len(toUs) <= MaxFlight
      BY DEF RecvInv, Flight
    <2> QED BY <2>1, <2>2, <2>3, <2>4, <2>5 DEF TypeOK, Num
  <1> QED BY <1>1, Receives, PTL

\* The bytes the application reads, and those that wait for it, are the peer's
\* stream in order, each once, whatever the network does.
THEOREM StreamInOrder == Spec => []ReceivedInOrder
  <1>1. RecvInv => ReceivedInOrder
    <2> SUFFICES ASSUME RecvInv PROVE ReceivedInOrder
      OBVIOUS
    <2>1. /\ app.read \in Seq(Nat) /\ conn.rx \in Seq(Nat)
          /\ \A i \in 1..Len(app.read) : app.read[i] = i
          /\ \A i \in 1..Len(conn.rx) : conn.rx[i] = Len(app.read) + i
      BY InvFacts DEF SockRecord, RecvInv, Received, Receiving
    <2> DEFINE w == app.read \o conn.rx
               l == Len(app.read)
               n == Len(conn.rx)
    <2>2. w \in Seq(Nat) /\ Len(w) = l + n /\ l \in Nat /\ n \in Nat
          /\ \A i \in 1..(l + n) : w[i] = IF i <= l THEN app.read[i] ELSE conn.rx[i - l]
      <3>1. l \in Nat /\ n \in Nat
        BY <2>1
      <3>2. w \in Seq(Nat) /\ Len(w) = l + n
            /\ \A i \in 1..(l + n) : w[i] = IF i <= l THEN app.read[i] ELSE conn.rx[i - l]
        BY <2>1, JoinShape, Zenon
      <3> QED BY <3>1, <3>2
    <2> HIDE DEF w
    <2>3. ASSUME NEW i \in 1..(l + n) PROVE w[i] = i
      <3>1. CASE i <= l
        <4>1. i \in 1..l
          BY <2>2, <3>1
        <4> QED BY <2>1, <2>2, <3>1, <4>1
      <3>2. CASE i > l
        <4> HIDE DEF l, n
        <4>1. i - l \in 1..n /\ l + (i - l) = i /\ ~(i <= l)
          BY <2>2, <3>2
        <4>2. w[i] = conn.rx[i - l]
          BY <2>2, <4>1
        <4>3. conn.rx[i - l] = l + (i - l)
          BY <2>1, <4>1 DEF l, n
        <4> QED BY <4>1, <4>2, <4>3
      <3> QED BY <2>2, <3>1, <3>2
    <2>4. w = [i \in 1..Len(w) |-> i]
      <3>1. w = [i \in 1..Len(w) |-> w[i]]
        BY <2>2
      <3>2. \A i \in 1..Len(w) : w[i] = i
        BY <2>2, <2>3
      <3> QED BY <3>1, <3>2
    <2> QED BY <2>4 DEF ReceivedInOrder, Prefix, w
  <1> QED BY <1>1, Receives, PTL

----------------------------------------------------------------------------
(* The end of the stream: who gave the connection up when the application  *)
(* did not close it.                                                       *)

Resets(q) == \E i \in 1..Len(q) : "RST" \in q[i].flags

\* The peer has reset the connection, or our retransmissions are used up.
GivenUp == peer.st = "dead" \/ (conn.st = "Closed" /\ conn.cnt = MaxRetx)

EndInv ==
    /\ Resets(toUs) => peer.st = "dead"
    /\ ~app.closed => /\ conn.st = "Closed" => GivenUp
                      /\ app.open => conn.st # "Free"
                      /\ app.eof => GivenUp \/ Len(app.read) = peer.bytes

LEMMA ResetsJoin ==
    ASSUME NEW q \in Seq(Segment), NEW p \in Seq(Segment), Resets(q \o p)
    PROVE  Resets(q) \/ Resets(p)
  <1> DEFINE w == q \o p
  <1>1. PICK i \in 1..Len(w) : "RST" \in w[i].flags
    BY DEF Resets
  <1>2. /\ Len(w) = Len(q) + Len(p) /\ Len(q) \in Nat /\ Len(p) \in Nat
        /\ \A k \in 1..(Len(q) + Len(p)) :
              w[k] = IF k <= Len(q) THEN q[k] ELSE p[k - Len(q)]
    OBVIOUS
  <1> HIDE DEF w
  <1>3. CASE i <= Len(q)
    <2>1. i \in 1..Len(q) /\ w[i] = q[i]
      BY <1>2, <1>3
    <2> QED BY <1>1, <2>1 DEF Resets
  <1>4. CASE ~(i <= Len(q))
    <2>1. i - Len(q) \in 1..Len(p) /\ w[i] = p[i - Len(q)]
      BY <1>2, <1>4
    <2> QED BY <1>1, <2>1 DEF Resets
  <1> QED BY <1>3, <1>4

LEMMA ResetsWithout ==
    ASSUME NEW q \in Seq(Segment), NEW i \in 1..Len(q), Resets(Without(q, i))
    PROVE  Resets(q)
  <1> DEFINE w == Without(q, i)
  <1>1. PICK k \in 1..Len(w) : "RST" \in w[k].flags
    BY DEF Resets
  <1>2. /\ w \in Seq(Segment) /\ Len(w) = Len(q) - 1 /\ Len(q) \in Nat
        /\ \A j \in 1..(Len(q) - 1) : w[j] = IF j < i THEN q[j] ELSE q[j + 1]
    BY WithoutShape
  <1> HIDE DEF w
  <1>3. k \in 1..Len(q) /\ k + 1 \in 1..Len(q) /\ (w[k] = q[k] \/ w[k] = q[k + 1])
    BY <1>2
  <1> QED BY <1>1, <1>3 DEF Resets

\* A handler leaves the state of a socket alone.
Stays(s, t) == {"st", "cnt"} \subseteq DOMAIN t /\ t.st = s.st /\ t.cnt = s.cnt

\* An acknowledgment also starts the count of retransmissions anew.
Kept(s, t) == {"st", "cnt"} \subseteq DOMAIN t /\ t.st = s.st

LEMMA SocketFields ==
    ASSUME NEW s \in SockRecord
    PROVE  Stays(s, s)
  BY DEF Stays, SockRecord

LEMMA SendFlagsStays ==
    ASSUME NEW s, {"st", "cnt"} \subseteq DOMAIN s, NEW flags, NEW ok
    PROVE  Stays(s, SendFlags(s, flags, ok))
  BY DEF SendFlags, SendTCP, Stays

LEMMA OutputStays ==
    ASSUME NEW s, {"st", "cnt"} \subseteq DOMAIN s, NEW ok
    PROVE  Stays(s, Output(s, ok))
  BY DEF Output, SendTCP, Stays

\* A segment ends the connection of a socket only with RST, or after Close.
LEMMA InputEnds ==
    ASSUME NEW s, Fit(s), NEW g, NEW ok, s.st # "Closed", TcpInput(s, g, ok).st = "Closed"
    PROVE  "RST" \in g.flags \/ s.st = "Closing"
  <1> DEFINE t == TcpInput(s, g, ok)
  <1>1. SUFFICES ASSUME "RST" \notin g.flags, s.st # "Closing" PROVE FALSE
    OBVIOUS
  <1>2. s \in SockRecord /\ Kept(s, s)
    BY SocketFields DEF Fit, Stays, Kept
  <1>3. s.tcp \notin {"FinWait1", "FinWait2", "LastAck", "TimeWait"}
    BY <1>1, ClosingWhenFinWait
  <1>4. \A u : Reset(u, g) = u
    BY <1>1 DEF Reset
  <1>5. CASE s.tcp = "SynSent"
    <2> DEFINE u == [s EXCEPT !.ack = (g.seq + 1) % SeqMod, !.seq = g.ack, !.una = g.ack,
                              !.win = g.win, !.tcp = "Established", !.st = "Connected",
                              !.armed = FALSE]
    <2>1. {"st", "cnt"} \subseteq DOMAIN u /\ u.st = "Connected"
      BY <1>2 DEF SockRecord
    <2>2. t = s \/ t = SendFlags(u, {"ACK"}, ok)
      BY <1>4, <1>5 DEF TcpInput, InSynSent
    <2> HIDE DEF u
    <2>3. Stays(u, SendFlags(u, {"ACK"}, ok))
      BY <2>1, SendFlagsStays
    <2> QED BY <2>1, <2>2, <2>3 DEF Stays
  <1>6. ASSUME NEW u, u = ProcessAck(s, g) PROVE Kept(s, u)
    BY <1>2, <1>6 DEF ProcessAck, Kept
  <1>7. CASE s.tcp = "Established"
    <2> DEFINE s1 == IF "ACK" \in g.flags THEN [ProcessAck(s, g) EXCEPT !.win = g.win] ELSE s
               s2 == IF DataInSequence(s1, g) THEN SendFlags(Taken(s1, g), {"ACK"}, ok) ELSE s1
               s3 == IF FinInSequence(s2, g) THEN SendFlags(Ended(s2), {"ACK"}, ok) ELSE s2
    <2>1. t = Reset(s3, g)
      <3>1. InEstablished(s, g, ok) = Reset(s3, g)
        BY Zenon DEF InEstablished, Taken, Ended
      <3> QED BY <1>7, <3>1 DEF TcpInput
    <2>2. Kept(s, s1)
      <3> DEFINE p == ProcessAck(s, g)
      <3>1. Kept(s, p)
        BY <1>6
      <3> HIDE DEF p
      <3>2. Kept(s, [p EXCEPT !.win = g.win])
        BY <3>1 DEF Kept
      <3> QED BY <1>2, <3>2 DEF p
    <2> HIDE DEF s1
    <2>3. Kept(s, s2)
      <3>1. Kept(s, Taken(s1, g))
        BY <2>2 DEF Taken, Kept
      <3>2. Stays(Taken(s1, g), SendFlags(Taken(s1, g), {"ACK"}, ok))
        BY <3>1, SendFlagsStays DEF Kept, Stays
      <3> QED BY <2>2, <3>1, <3>2 DEF Kept, Stays
    <2> HIDE DEF s2
    <2>4. Kept(s, s3)
      <3>1. Kept(s, Ended(s2))
        BY <2>3 DEF Ended, Kept
      <3>2. Stays(Ended(s2), SendFlags(Ended(s2), {"ACK"}, ok))
        BY <3>1, SendFlagsStays DEF Kept, Stays
      <3> QED BY <2>3, <3>1, <3>2 DEF Kept, Stays
    <2> HIDE DEF s3
    <2>5. t = s3
      BY <1>4, <2>1
    <2> QED BY <2>4, <2>5 DEF Kept
  <1>8. CASE s.tcp = "CloseWait"
    <2>1. t = s \/ t = ProcessAck(s, g)
      BY <1>8 DEF TcpInput, InCloseWait
    <2> QED BY <1>2, <1>6, <2>1 DEF Kept
  <1>9. CASE s.tcp = "SynReceived"
    <2>1. t = s \/ t = [s EXCEPT !.tcp = "Established", !.st = "Connected"]
      BY <1>4, <1>9 DEF TcpInput, InSynReceived
    <2> QED BY <1>2, <2>1 DEF SockRecord
  <1>10. CASE s.tcp = "Closed"
    <2>1. t = s
      BY <1>10 DEF TcpInput
    <2> QED BY <2>1
  <1>11. s.tcp \in TcpState
    BY <1>2 DEF SockRecord
  <1> QED BY <1>3, <1>5, <1>7, <1>8, <1>9, <1>10, <1>11 DEF TcpState

\* What a step of the stack shows to keep the invariant.
Ends(t) ==
    /\ conn.st # "Free" => t.st # "Free"
    /\ t.st = "Closed" => peer.st = "dead" \/ t.cnt = MaxRetx
    /\ conn.st = "Closed" => t.st = "Closed"

LEMMA StackEnds ==
    ASSUME RecvInv, EndInv, NEW t \in SockRecord, StackDoes(t), ~app.closed => Ends(t),
           Resets(toUs') => Resets(toUs), UNCHANGED peer,
           app'.closed = app.closed, app'.open = app.open, app'.eof = app.eof,
           app'.read = app.read
    PROVE  EndInv'
  <1>1. conn'.st = t.st /\ conn'.cnt = t.cnt
    BY DEF StackDoes, SockRecord
  <1>2. ~app.closed /\ GivenUp => GivenUp'
    BY <1>1 DEF GivenUp, Ends
  <1> QED BY <1>1, <1>2 DEF EndInv, Ends, GivenUp

LEMMA ConnectEnds == ASSUME RecvInv, EndInv, Connect PROVE EndInv'
  <1>1. PICK ok \in scene.resolves : StackDoes(ConnectStart(conn, ok))
    BY DEF Connect
  <1>2. conn.st = "Bound" /\ UNCHANGED <<app, peer, toUs>> /\ ok \in BOOLEAN
    BY InvFacts, ConnAssumption DEF Connect, Scenes
  <1> DEFINE t == ConnectStart(conn, ok)
  <1>3. InOrder(t, ReadSoFar, peer.bytes) /\ t.st = "Connecting"
    BY <1>2, InvFacts, ConnectCall
  <1> HIDE DEF t
  <1>4. t \in SockRecord /\ StackDoes(t) /\ Ends(t)
    BY <1>1, <1>2, <1>3 DEF InOrder, Fit, Ends, t
  <1> QED BY <1>2, <1>4, StackEnds

LEMMA SendEnds == ASSUME RecvInv, EndInv, SendWrite \/ SendWait PROVE EndInv'
  <1>1. /\ app.pending > 0 /\ UNCHANGED <<peer, toUs>>
        /\ app'.closed = app.closed /\ app'.open = app.open /\ app'.eof = app.eof
        /\ app'.read = app.read
    BY InvFacts DEF RecvInv, AppFits, SendWrite, SendWait, AppRecord
  <1>2. conn.st \in {"Connected", "Closed"} /\ Fit(conn) /\ conn \in SockRecord
        /\ app.pending \in Nat /\ scene.resolves \subseteq BOOLEAN
    BY <1>1, InvFacts, ConnAssumption DEF RecvInv, AppFits, InOrder, AppRecord, Scenes
  <1>3. PICK t : StackDoes(t) /\ t \in SockRecord /\ t.st = conn.st /\ t.cnt = conn.cnt
    <2>1. CASE SendWrite
      <3> DEFINE n == Lesser(app.pending, TxFree(conn))
      <3>1. PICK ok \in scene.resolves : StackDoes(SendTurn(conn, n, ok))
        BY <2>1 DEF SendWrite
      <3>2. n \in Nat /\ n <= TxFree(conn)
        <4>1. TxFree(conn) \in Nat
          BY <1>2, FitNumbers, EndpointAssumption DEF TxFree
        <4> QED BY <1>2, <4>1, LesserBounds
      <3> HIDE DEF n
      <3> DEFINE u == [conn EXCEPT !.wr = @ + n]
      <3>3. InOrder(SendTurn(conn, n, ok), ReadSoFar, peer.bytes)
        BY <1>2, <3>2, InvFacts, SendCall
      <3>4. Stays(conn, u)
        BY <1>2 DEF Stays, SockRecord
      <3>5. SendTurn(conn, n, ok) = Output(u, ok)
        BY DEF SendTurn
      <3> HIDE DEF u
      <3>6. Stays(u, Output(u, ok))
        BY <3>4, OutputStays DEF Stays
      <3> QED BY <3>1, <3>3, <3>4, <3>5, <3>6 DEF InOrder, Fit, Stays
    <2>2. CASE SendWait
      <3>1. PICK ok \in scene.resolves : StackDoes(Output(conn, ok))
        BY <2>2 DEF SendWait
      <3>2. Fit(Output(conn, ok)) /\ Stays(conn, Output(conn, ok))
        BY <1>2, OutputShape, OutputStays, SocketFields DEF Stays
      <3> QED BY <3>1, <3>2 DEF Fit, Stays
    <2> QED BY <2>1, <2>2
  <1>4. ~app.closed => Ends(t)
    BY <1>2, <1>3 DEF EndInv, Ends, GivenUp
  <1> QED BY <1>1, <1>3, <1>4, StackEnds

\* Only Close leaves a socket behind that may end by itself.
LEMMA CloseEnds == ASSUME RecvInv, EndInv, Close PROVE EndInv'
  <1>1. app' = [app EXCEPT !.closed = TRUE] /\ UNCHANGED <<peer, toUs>> /\ app \in AppRecord
    BY InvFacts DEF Close
  <1>2. app'.closed
    BY <1>1 DEF AppRecord
  <1> QED BY <1>1, <1>2 DEF EndInv

\* The timer gives a connection up when the retransmissions are used up.
LEMMA TimerEnds == ASSUME RecvInv, EndInv, Timer PROVE EndInv'
  <1>1. PICK ok \in scene.resolves : StackDoes(TimerExpired(conn, ok))
    BY DEF Timer
  <1>2. TimerRuns(conn) /\ UNCHANGED <<app, peer, toUs>> /\ ok \in BOOLEAN
    BY InvFacts, ConnAssumption DEF Timer, Scenes
  <1>3. Fit(conn) /\ conn \in SockRecord /\ conn.st \notin {"Free", "Closed"}
    BY <1>2, InvFacts DEF InOrder, Fit, Agree, TimerRuns
  <1> DEFINE t == TimerExpired(conn, ok)
  <1>4. t \in SockRecord
    <2>1. Step(conn, t, ReadSoFar, peer.bytes)
      BY <1>2, InvFacts, TimerStep
    <2> QED BY <2>1 DEF Step, InOrder, Fit
  <1>5. ~app.closed => Ends(t)
    <2>1. SUFFICES ASSUME ~app.closed PROVE Ends(t)
      OBVIOUS
    <2>2. conn.tcp # "TimeWait"
      BY <1>3, <2>1, ClosingWhenFinWait DEF RecvInv, AppFits
    <2>3. CASE conn.cnt >= MaxRetx
      <3>1. t = Dead(conn) /\ conn.cnt = MaxRetx
        BY <1>3, <2>3, EndpointAssumption DEF TimerExpired, SockRecord
      <3>2. Dead(conn).st = "Closed" /\ Dead(conn).cnt = conn.cnt
        BY <1>3 DEF Dead, SockRecord
      <3> QED BY <3>1, <3>2 DEF Ends
    <2>4. CASE ~(conn.cnt >= MaxRetx)
      <3> DEFINE u == [conn EXCEPT !.cnt = @ + 1, !.seq = Rewound(conn), !.armed = TRUE]
      <3>1. t = Output(u, ok)
        BY <2>2, <2>4 DEF TimerExpired
      <3>2. {"st", "cnt"} \subseteq DOMAIN u /\ u.st = conn.st
        BY <1>3 DEF SockRecord
      <3> HIDE DEF u, t
      <3>3. t.st = conn.st
        BY <3>1, <3>2, OutputStays DEF Stays
      <3> QED BY <1>3, <3>3 DEF Ends
    <2> QED BY <2>3, <2>4
  <1> HIDE DEF t
  <1>6. StackDoes(t)
    BY <1>1 DEF t
  <1> QED BY <1>2, <1>4, <1>5, <1>6, StackEnds

\* A frame of the peer ends it with RST alone.
LEMMA DeliverEnds == ASSUME RecvInv, EndInv, Deliver PROVE EndInv'
  <1>1. PICK i \in 1..Lesser(scene.reach, Len(toUs)), ok \in scene.resolves :
            /\ StackDoes(Dispatch(conn, toUs[i], ok))
            /\ toUs' = Without(toUs, i)
    BY DEF Deliver
  <1>2. UNCHANGED <<app, peer>> /\ ok \in BOOLEAN /\ toUs \in Seq(Segment)
        /\ Fit(conn) /\ conn \in SockRecord
    BY InvFacts, ConnAssumption DEF Deliver, Scenes, RecvInv, Flight, InOrder
  <1>3. i \in 1..Len(toUs)
    BY <1>2, InReach
  <1> DEFINE g == toUs[i]
             t == Dispatch(conn, g, ok)
  <1>4. FromPeer(g, peer.bytes) /\ (Resets(toUs') => Resets(toUs))
        /\ ("RST" \in g.flags => peer.st = "dead")
    BY <1>1, <1>2, <1>3, FlightWithout, ResetsWithout DEF EndInv, Resets
  <1>5. StackDoes(t)
    BY <1>1
  <1> HIDE DEF t, g
  <1>6. CASE conn.st # "Free"
    <2>1. t = TcpInput(conn, g, ok)
      BY <1>6 DEF t, Dispatch
    <2>2. Step(conn, t, ReadSoFar, peer.bytes)
      BY <1>2, <1>4, <2>1, InvFacts, InputStep
    <2>3. t \in SockRecord /\ t.st # "Free" /\ (conn.st = "Closed" => t = conn)
      <3>1. conn.st = "Closed" => conn.tcp = "Closed"
        BY <1>2 DEF Fit, Agree
      <3>2. conn.tcp = "Closed" => t = conn
        BY <2>1 DEF TcpInput
      <3> QED BY <1>6, <2>2, <3>1, <3>2 DEF Step, InOrder, Fit
    <2>4. ~app.closed => Ends(t)
      <3>1. SUFFICES ASSUME ~app.closed PROVE Ends(t)
        OBVIOUS
      <3>2. conn.st # "Closing"
        BY <3>1 DEF RecvInv, AppFits
      <3>3. conn.st # "Closed" /\ t.st = "Closed" => peer.st = "dead"
        BY <1>2, <1>4, <2>1, <3>2, InputEnds
      <3>4. conn.st = "Closed" => peer.st = "dead" \/ conn.cnt = MaxRetx
        BY <3>1 DEF EndInv, GivenUp
      <3> QED BY <2>3, <3>3, <3>4 DEF Ends
    <2> QED BY <1>2, <1>4, <1>5, <2>3, <2>4, StackEnds
  <1>7. CASE conn.st = "Free"
    <2>1. t \in SockRecord /\ t.st # "Closed"
      <3>1. CASE scene.passive /\ NotClosed /\ "SYN" \in g.flags
        <4>1. t = ListenerInput(g, ok)
          BY <1>7, <3>1 DEF t, Dispatch
        <4>2. InOrder(t, 0, peer.bytes) /\ t.st = "Connecting"
          BY <1>2, <1>4, <3>1, <4>1, InvFacts, ListenerTakes
        <4> QED BY <4>2 DEF InOrder, Fit
      <3>2. CASE ~(scene.passive /\ NotClosed /\ "SYN" \in g.flags)
        <4>1. t = conn \/ t = [conn EXCEPT !.out = <<ResetReply(g)>>]
          BY <1>7, <3>2 DEF t, Dispatch
        <4>2. <<ResetReply(g)>> \in Seq(Segment)
          <5>1. g \in Segment
            BY <1>4 DEF FromPeer
          <5>2. g.ack \in 0..(SeqMod - 1) /\ g.seq + 1 \in Int /\ 0 \in 0..(SeqMod - 1)
                /\ <<>> \in Seq(Nat)
            BY <5>1, EndpointAssumption DEF Segment
          <5>3. (g.seq + 1) % SeqMod \in 0..(SeqMod - 1)
            BY <5>2, ModNum DEF Num
          <5>4. ResetReply(g) \in Segment
            BY <5>2, <5>3 DEF ResetReply, Segment, Flag
          <5> QED BY <5>4
        <4> QED BY <1>2, <1>7, <4>1, <4>2 DEF SockRecord
      <3> QED BY <3>1, <3>2
    <2>2. Ends(t)
      BY <1>7, <2>1 DEF Ends
    <2> QED BY <1>2, <1>4, <1>5, <2>1, <2>2, StackEnds
  <1> QED BY <1>6, <1>7

\* The peer, once it has given the connection up, stays so, and nothing else
\* makes it send RST.
Persists(p, q) ==
    /\ p.st = "dead" => q.st = "dead"
    /\ Resets(q.out) => q.st = "dead"

\* What a living peer sends.
Answering(p, q) ==
    /\ {"st", "out"} \subseteq DOMAIN q
    /\ q.out = <<>> \/ \E f : q.out = <<f>> /\ "RST" \notin f.flags

LEMMA AnsweringPersists ==
    ASSUME NEW p, NEW q, Answering(p, q), p.st = "dead" => q.st = "dead"
    PROVE  Persists(p, q)
  <1>1. CASE q.out = <<>>
    BY <1>1 DEF Persists, Resets
  <1>2. CASE q.out # <<>>
    <2>1. PICK f : q.out = <<f>> /\ "RST" \notin f.flags
      BY <1>2 DEF Answering
    <2>2. Len(q.out) = 1 /\ q.out[1] = f
      BY <2>1
    <2> QED BY <2>1, <2>2 DEF Persists, Resets
  <1> QED BY <1>1, <1>2

LEMMA SendsAnswering ==
    ASSUME NEW p, {"st", "out"} \subseteq DOMAIN p, p.out = <<>>, NEW f, "RST" \notin f.flags
    PROVE  Answering(p, PeerSends(p, f)) /\ PeerSends(p, f).st = p.st
  <1>1. Append(<<>>, f) = <<f>>
    OBVIOUS
  <1> QED BY <1>1 DEF Answering, PeerSends

LEMMA AckHasNoReset ==
    /\ \A p, start, n : "RST" \notin PeerSegment(p, {"ACK"}, start, n).flags
    /\ \A p, start, n : "RST" \notin PeerSegment(p, {"ACK", "FIN"}, start, n).flags
    /\ \A p : "RST" \notin PeerSynAckSegment(p).flags
    /\ "RST" \notin PeerSynSegment.flags
  BY DEF PeerSegment, PeerSynAckSegment, PeerSynSegment

LEMMA AcksAnswering ==
    ASSUME NEW p, {"st", "out"} \subseteq DOMAIN p, p.out = <<>>
    PROVE  Answering(p, PeerAcks(p)) /\ PeerAcks(p).st = p.st
  BY AckHasNoReset, SendsAnswering DEF PeerAcks

LEMMA TakesAnswering ==
    ASSUME NEW p, {"st", "out"} \subseteq DOMAIN p, p.out = <<>>, NEW g
    PROVE  Answering(p, PeerTakesData(PeerTakesAck(p, g), g))
  <1> DEFINE a == PeerTakesAck(p, g)
             off == Distance(a.rcv, g.seq)
             inOrder == 0 <= off /\ off <= Len(g.data) /\ ~a.eof
             n == IF inOrder THEN Lesser(Len(g.data) - off, PeerBuf - a.unread) ELSE 0
             fin == inOrder /\ "FIN" \in g.flags /\ off + n = Len(g.data)
             b == [a EXCEPT !.got = @ \o SubSeq(g.data, off + 1, off + n),
                            !.unread = @ + n, !.eof = @ \/ fin,
                            !.rcv = (@ + n + (IF fin THEN 1 ELSE 0)) % SeqMod]
  <1>1. {"st", "out"} \subseteq DOMAIN a /\ a.out = <<>>
    BY DEF PeerTakesAck
  <1>2. PeerTakesData(a, g) = PeerAcks(b) \/ PeerTakesData(a, g) = b
    BY Zenon DEF PeerTakesData
  <1> HIDE DEF a, off, inOrder, n, fin
  <1>3. {"st", "out"} \subseteq DOMAIN b /\ b.out = <<>>
    BY <1>1
  <1> HIDE DEF b
  <1>4. Answering(p, PeerAcks(b)) /\ Answering(p, b)
    BY <1>3, AcksAnswering DEF Answering
  <1> QED BY <1>2, <1>4 DEF a

LEMMA PeerInputPersists ==
    ASSUME NEW p \in PeerRecord, p.out = <<>>, NEW g
    PROVE  Persists(p, PeerInput(p, g))
  <1>1. {"st", "out"} \subseteq DOMAIN p /\ Answering(p, p)
    BY DEF PeerRecord, Answering
  <1>2. ASSUME NEW a, {"st", "out"} \subseteq DOMAIN a, a.out = <<>>
        PROVE  LET q == PeerInEstablished(a, g) IN Answering(a, q)
    <2> DEFINE q == PeerInEstablished(a, g)
    <2>1. CASE q = a \/ q = [a EXCEPT !.st = "dead"]
      BY <1>2, <2>1 DEF Answering
    <2>2. CASE q = PeerAcks(a) \/ q = PeerTakesData(PeerTakesAck(a, g), g)
      BY <1>2, <2>2, AcksAnswering, TakesAnswering
    <2> QED BY <2>1, <2>2 DEF PeerInEstablished
  <1>3. CASE p.st = "estab"
    <2>1. PeerInput(p, g) = PeerInEstablished(p, g)
      BY <1>3 DEF PeerInput
    <2> QED BY <1>1, <1>2, <1>3, <2>1, AnsweringPersists
  <1>4. CASE p.st = "synRcvd"
    <2> DEFINE q == PeerInSynRcvd(p, g)
               a == [p EXCEPT !.st = "estab", !.win = g.win]
    <2>1. PeerInput(p, g) = q
      BY <1>4 DEF PeerInput
    <2>2. CASE q = PeerSends(p, PeerSynAckSegment(p))
      BY <1>1, <1>4, <2>1, <2>2, SendsAnswering, AckHasNoReset, AnsweringPersists
    <2>3. CASE q = PeerInEstablished(a, g)
      <3>1. {"st", "out"} \subseteq DOMAIN a /\ a.out = <<>>
        BY DEF PeerRecord
      <3> HIDE DEF a
      <3>2. Answering(p, PeerInEstablished(a, g))
        BY <1>2, <3>1 DEF Answering
      <3> QED BY <1>4, <2>1, <2>3, <3>2, AnsweringPersists
    <2>4. CASE q = p \/ q = [p EXCEPT !.st = "dead"]
      <3>1. Answering(p, q)
        BY <1>1, <2>4 DEF Answering
      <3> QED BY <1>4, <2>1, <3>1, AnsweringPersists
    <2> QED BY <2>2, <2>3, <2>4 DEF PeerInSynRcvd
  <1>5. CASE p.st = "synSent"
    <2> DEFINE q == PeerInSynSent(p, g)
               a == [p EXCEPT !.st = "estab", !.rcv = (g.seq + 1) % SeqMod, !.win = g.win]
    <2>1. PeerInput(p, g) = q
      BY <1>5 DEF PeerInput
    <2>2. CASE q = PeerAcks(a)
      <3>1. {"st", "out"} \subseteq DOMAIN a /\ a.out = <<>>
        BY DEF PeerRecord
      <3> HIDE DEF a
      <3>2. Answering(p, PeerAcks(a))
        BY <3>1, AcksAnswering DEF Answering
      <3> QED BY <1>5, <2>1, <2>2, <3>2, AnsweringPersists
    <2>3. CASE q = p \/ q = [p EXCEPT !.st = "dead"]
      <3>1. Answering(p, q)
        BY <1>1, <2>3 DEF Answering
      <3> QED BY <1>5, <2>1, <3>1, AnsweringPersists
    <2> QED BY <2>2, <2>3 DEF PeerInSynSent
  <1>6. CASE p.st = "listen"
    <2> DEFINE q == PeerInListen(p, g)
               a == [p EXCEPT !.st = "synRcvd", !.rcv = (g.seq + 1) % SeqMod]
    <2>1. PeerInput(p, g) = q
      BY <1>6 DEF PeerInput
    <2>2. CASE q = PeerSends(a, PeerSynAckSegment(a))
      <3>1. {"st", "out"} \subseteq DOMAIN a /\ a.out = <<>>
        BY DEF PeerRecord
      <3> HIDE DEF a
      <3>2. Answering(p, PeerSends(a, PeerSynAckSegment(a)))
        BY <3>1, SendsAnswering, AckHasNoReset DEF Answering
      <3> QED BY <1>6, <2>1, <2>2, <3>2, AnsweringPersists
    <2>3. CASE q = p
      BY <1>1, <1>6, <2>1, <2>3, AnsweringPersists
    <2> QED BY <2>2, <2>3 DEF PeerInListen
  <1>7. CASE p.st = "dead"
    <2>1. PeerInput(p, g) = PeerInDead(p, g)
      BY <1>7 DEF PeerInput
    <2>2. PeerInDead(p, g).st = "dead"
      BY <1>1, <1>7 DEF PeerInDead, PeerSends
    <2> QED BY <2>1, <2>2 DEF Persists
  <1> QED BY <1>3, <1>4, <1>5, <1>6, <1>7 DEF PeerRecord

LEMMA PeerEnds ==
    ASSUME RecvInv, EndInv, NEW q \in PeerRecord, PeerDoes(q), Persists(peer, q),
           q.bytes = peer.bytes, UNCHANGED <<conn, app>>
    PROVE  EndInv'
  <1>1. peer'.st = q.st /\ peer'.bytes = q.bytes /\ toUs' = toUs \o q.out
        /\ q.out \in Seq(Segment) /\ toUs \in Seq(Segment)
    BY DEF PeerDoes, PeerRecord, RecvInv, Flight
  <1>2. Resets(toUs') => peer'.st = "dead"
    BY <1>1, ResetsJoin DEF Persists, EndInv
  <1>3. GivenUp => GivenUp'
    BY <1>1 DEF GivenUp, Persists
  <1> QED BY <1>1, <1>2, <1>3 DEF EndInv

LEMMA FarEnds == ASSUME RecvInv, EndInv, Far PROVE EndInv'
  <1>1. Sound(peer) /\ peer \in PeerRecord /\ peer.out = <<>> /\ {"st", "out"} \subseteq DOMAIN peer
        /\ UNCHANGED <<conn, app>>
    BY InvFacts DEF Far, PeerReceives, PeerData, PeerRepeats, PeerRead, PeerAbort, PeerRecord
  <1>2. SUFFICES \E q : PeerDoes(q) /\ Sound(q) /\ q.bytes = peer.bytes /\ Persists(peer, q)
    BY <1>1, PeerEnds DEF Sound, PeerFit
  <1>3. CASE PeerReceives
    <2>1. PICK i \in 1..Lesser(scene.reach, Len(toPeer)) : PeerDoes(PeerInput(peer, toPeer[i]))
      BY <1>3 DEF PeerReceives
    <2>2. toPeer \in Seq(Segment)
      BY DEF RecvInv, Flight
    <2>3. toPeer[i] \in Segment
      BY <2>2, InReach
    <2>4. Hears(peer, PeerInput(peer, toPeer[i]), toPeer[i])
      BY <2>3, InvFacts, PeerInputHears
    <2> QED BY <1>1, <2>1, <2>4, PeerInputPersists DEF Hears
  <1>4. CASE PeerData
    <2>1. PICK m \in PeerMaySend(peer) : PeerDoes(PeerSendsData(peer, m))
      BY <1>4 DEF PeerData
    <2> DEFINE q == PeerSendsData(peer, m)
               a == [peer EXCEPT !.sent = Larger(@, m.start + m.n + m.fin)]
    <2>2. {"st", "out"} \subseteq DOMAIN a /\ a.out = <<>> /\ a.st = peer.st
      BY <1>1 DEF PeerRecord
    <2>3. \E flags \in {{"ACK", "FIN"}, {"ACK"}} :
              q = PeerSends(a, PeerSegment(a, flags, m.start, m.n))
      BY DEF PeerSendsData
    <2> HIDE DEF a, q
    <2>4. Answering(peer, q) /\ q.st = peer.st
      <3>1. PICK flags \in {{"ACK", "FIN"}, {"ACK"}} :
                q = PeerSends(a, PeerSegment(a, flags, m.start, m.n))
        BY <2>3
      <3> DEFINE f == PeerSegment(a, flags, m.start, m.n)
      <3>2. "RST" \notin f.flags
        BY <3>1, AckHasNoReset
      <3>3. q = PeerSends(a, f)
        BY <3>1
      <3> HIDE DEF f
      <3>4. Answering(a, q) /\ q.st = a.st
        BY <2>2, <3>2, <3>3, SendsAnswering
      <3> QED BY <2>2, <3>4 DEF Answering
    <2>5. Persists(peer, q)
      BY <2>4, AnsweringPersists
    <2> QED BY <1>1, <2>1, <2>5, PeerMore DEF q
  <1>5. CASE PeerRepeats
    <2>1. PeerDoes(PeerRepeatsSyn(peer)) /\ peer.st \in {"synSent", "synRcvd"}
      BY <1>5 DEF PeerRepeats
    <2>2. Answering(peer, PeerRepeatsSyn(peer))
      BY <1>1, AckHasNoReset, SendsAnswering DEF PeerRepeatsSyn
    <2> QED BY <1>1, <2>1, <2>2, AnsweringPersists, PeerAgain
  <1>6. CASE PeerRead
    <2>1. PeerDoes(PeerReads(peer)) /\ peer.st = "estab"
      BY <1>6 DEF PeerRead
    <2> DEFINE a == [peer EXCEPT !.unread = 0]
    <2>2. {"st", "out"} \subseteq DOMAIN a /\ a.out = <<>> /\ PeerReads(peer) = PeerAcks(a)
      BY <1>1 DEF PeerReads, PeerRecord
    <2> HIDE DEF a
    <2>3. Answering(peer, PeerReads(peer))
      BY <2>2, AcksAnswering DEF Answering
    <2> QED BY <1>1, <2>1, <2>3, AnsweringPersists, PeerEmpties
  <1>7. CASE PeerAbort
    <2>1. PeerDoes(PeerAborts(peer)) /\ peer.st = "estab"
      BY <1>7 DEF PeerAbort
    <2>2. PeerAborts(peer).st = "dead"
      BY <1>1 DEF PeerAborts, PeerSends, PeerRecord
    <2> QED BY <1>1, <2>1, <2>2, PeerGivesUp DEF Persists
  <1> QED BY <1>3, <1>4, <1>5, <1>6, <1>7 DEF Far

\* The calls that leave the connection alone.
LEMMA RecvEofEnds == ASSUME RecvInv, EndInv, RecvEof PROVE EndInv'
  <1>1. /\ app' = [app EXCEPT !.eof = TRUE] /\ app \in AppRecord
        /\ UNCHANGED <<conn, peer, toUs>>
    BY InvFacts DEF RecvEof
  <1>2. app'.closed = app.closed /\ app'.open = app.open /\ app'.read = app.read
    BY <1>1 DEF AppRecord
  <1>3. app.open /\ ~app.closed /\ conn.st # "Bound" /\ conn.rx = <<>>
        /\ (conn.st = "Closed" \/ conn.tcp \in {"Closed", "CloseWait"})
    BY DEF RecvEof, Holds, EndsStream
  <1>4. conn.st # "Free" /\ Fit(conn) /\ Receiving(conn, Len(app.read), peer.bytes)
        /\ conn.st \in SockState
    BY <1>3, InvFacts DEF EndInv, InOrder, RecvInv, Received, SockRecord
  <1>5. CASE conn.st = "Closed"
    BY <1>1, <1>2, <1>5 DEF EndInv, GivenUp
  <1>6. CASE conn.st # "Closed"
    <2>1. conn.tcp = "CloseWait"
      BY <1>3, <1>4, <1>6 DEF Fit, Agree, SockState
    <2>2. Len(app.read) + Len(conn.rx) = peer.bytes /\ Len(conn.rx) = 0 /\ Len(app.read) \in Nat
      BY <1>1, <1>3, <1>4, <2>1 DEF Receiving, AppRecord
    <2>3. Len(app.read) = peer.bytes
      BY <2>2
    <2> QED BY <1>1, <1>2, <2>3 DEF EndInv, GivenUp
  <1> QED BY <1>5, <1>6

LEMMA RecvBytesEnds == ASSUME RecvInv, EndInv, RecvBytes PROVE EndInv'
  <1>1. PICK k \in 1..Len(conn.rx) :
            /\ app' = [app EXCEPT !.read = @ \o SubSeq(conn.rx, 1, k)]
            /\ conn' = RecvTake(conn, k)
    BY DEF RecvBytes
  <1>2. UNCHANGED <<peer, toUs>> /\ app \in AppRecord /\ conn \in SockRecord
        /\ Len(app.read) \in Nat /\ Len(conn.rx) \in Nat /\ Len(conn.rx) > 0 /\ peer.bytes \in Nat
    BY InvFacts DEF RecvBytes, ReadSoFar, SockRecord
  <1>3. app'.closed = app.closed /\ app'.open = app.open /\ app'.eof = app.eof
    BY <1>1, <1>2 DEF AppRecord
  <1>4. conn'.st = conn.st /\ conn'.cnt = conn.cnt
    BY <1>1, <1>2 DEF RecvTake, SockRecord
  <1>5. Len(app.read) # peer.bytes
    <2> DEFINE r == Len(app.read)
               m == Len(conn.rx)
    <2>1. r + m <= peer.bytes
      BY DEF RecvInv, Received, Receiving
    <2>2. r \in Nat /\ m \in Nat /\ m > 0 /\ peer.bytes \in Nat
      BY <1>2
    <2> HIDE DEF r, m
    <2>3. r # peer.bytes
      BY <2>1, <2>2
    <2> QED BY <2>3 DEF r
  <1>6. GivenUp' = GivenUp
    BY <1>2, <1>4 DEF GivenUp
  <1> QED BY <1>2, <1>3, <1>4, <1>5, <1>6 DEF EndInv

LEMMA AppEnds ==
    ASSUME RecvInv, EndInv, Accept \/ SendStart \/ SendFull \/ SendGivesUp
    PROVE  EndInv'
  <1>1. UNCHANGED <<conn, peer, toUs>> /\ app \in AppRecord
    BY InvFacts DEF Accept, SendStart, SendFull, SendGivesUp
  <1>2. /\ app'.closed = app.closed /\ app'.eof = app.eof /\ app'.read = app.read
        /\ app'.open = app.open \/ conn.st = "Connected"
    BY <1>1 DEF Accept, SendStart, SendFull, SendGivesUp, AppRecord
  <1> QED BY <1>1, <1>2 DEF EndInv, GivenUp

LEMMA LossEnds == ASSUME RecvInv, EndInv, LoseIn \/ LoseOut PROVE EndInv'
  <1>1. UNCHANGED <<conn, app, peer>> /\ toUs \in Seq(Segment)
    BY DEF LoseIn, LoseOut, RecvInv, Flight
  <1>2. Resets(toUs') => Resets(toUs)
    <2>1. CASE LoseOut
      BY <2>1 DEF LoseOut
    <2>2. CASE LoseIn
      <3>1. PICK i \in 1..Lesser(scene.reach, Len(toUs)) : toUs' = Without(toUs, i)
        BY <2>2 DEF LoseIn
      <3> QED BY <1>1, <3>1, InReach, ResetsWithout
    <2> QED BY <2>1, <2>2
  <1> QED BY <1>1, <1>2 DEF EndInv, GivenUp

LEMMA NextEnds == RecvInv /\ EndInv /\ [Next]_vars => EndInv'
  <1> SUFFICES ASSUME RecvInv, EndInv, [Next]_vars PROVE EndInv'
    OBVIOUS
  <1>1. CASE App
    BY <1>1, ConnectEnds, SendEnds, CloseEnds, RecvEofEnds, RecvBytesEnds, AppEnds DEF App
  <1>2. CASE Poll
    BY <1>2, DeliverEnds, TimerEnds DEF Poll
  <1>3. CASE Net
    BY <1>3, LossEnds DEF Net
  <1>4. CASE Far
    BY <1>4, FarEnds
  <1>5. CASE UNCHANGED vars
    BY <1>5 DEF EndInv, GivenUp, Resets, vars
  <1> QED BY <1>1, <1>2, <1>3, <1>4, <1>5 DEF Next

LEMMA InitEnds == Init => EndInv
  <1> SUFFICES ASSUME Init PROVE EndInv
    OBVIOUS
  <1>1. /\ conn.st \in {"Free", "Bound"} /\ (conn.st = "Free" => scene.passive)
        /\ app.open = ~scene.passive /\ app.eof = FALSE
    BY DEF Init, FreeSocket, BoundSocket
  <1>2. ~Resets(toUs)
    <2>1. Len(<<>>) = 0 /\ Len(<<PeerSynSegment>>) = 1 /\ <<PeerSynSegment>>[1] = PeerSynSegment
      OBVIOUS
    <2> QED BY <2>1, AckHasNoReset DEF Init, Resets
  <1> QED BY <1>1, <1>2 DEF EndInv

\* A connection that ended before the application closed it was reset by the peer
\* or given up (tcp.go:113-116, 196-203).
THEOREM EndsAreKnown == Spec => []EndInv
  BY Receives, InitEnds, NextEnds, PTL DEF Spec

\* Recv reports the end only behind the last byte, or when the peer or our
\* retransmissions gave the connection up (api.go:195-202).
THEOREM EndIsLast == Spec => []EofAfterAllData
  <1>1. EndInv => EofAfterAllData
    BY DEF EndInv, GivenUp, EofAfterAllData
  <1> QED BY <1>1, EndsAreKnown, PTL

\* A byte that was acknowledged is stored.
THEOREM StoredWhenAcked == Spec => []AckedIsStored
  <1>1. RecvInv => AckedIsStored
    <2> SUFFICES ASSUME RecvInv, conn.st = "Connected"
                 PROVE  Lesser(peer.acked, peer.bytes) <= Len(app.read) + Len(conn.rx)
      BY DEF AckedIsStored
    <2>1. ~app.closed /\ Alive(conn)
      BY DEF RecvInv, AppFits, Alive
    <2>2. peer.acked <= Top(conn, ReadSoFar) /\ Receiving(conn, ReadSoFar, peer.bytes)
      BY <2>1, InvFacts DEF RecvInv, Acknowledged, InOrder, ReadSoFar
    <2>3. peer.acked \in Nat /\ peer.bytes \in Nat /\ ReadSoFar \in Nat /\ Len(conn.rx) \in Nat
      BY InvFacts DEF PeerRecord, SockRecord
    <2>4. CASE conn.tcp = "CloseWait"
      <3>1. ReadSoFar + Len(conn.rx) = peer.bytes
        BY <2>2, <2>4 DEF Receiving
      <3>2. Lesser(peer.acked, peer.bytes) <= peer.bytes
        BY <2>3, LesserBounds
      <3> QED BY <3>1, <3>2 DEF ReadSoFar
    <2>5. CASE conn.tcp # "CloseWait"
      <3>1. peer.acked <= ReadSoFar + Len(conn.rx)
        <4>1. Top(conn, ReadSoFar) = ReadSoFar + Len(conn.rx)
          BY <2>3, <2>5 DEF Top
        <4> QED BY <2>2, <4>1
      <3>2. Lesser(peer.acked, peer.bytes) <= peer.acked
            /\ Lesser(peer.acked, peer.bytes) \in Nat
        BY <2>3, LesserBounds
      <3> DEFINE y == Lesser(peer.acked, peer.bytes)
                 z == ReadSoFar + Len(conn.rx)
      <3>3. y \in Nat /\ z \in Nat /\ peer.acked \in Nat /\ y <= peer.acked /\ peer.acked <= z
        BY <2>3, <3>1, <3>2
      <3> HIDE DEF y, z
      <3>4. y <= z
        BY <3>3
      <3> QED BY <3>4 DEF y, z, ReadSoFar
    <2> QED BY <2>4, <2>5
  <1> QED BY <1>1, Receives, PTL

----------------------------------------------------------------------------
(* The sending half, in the use Careful describes.                         *)

\* The sequence number behind the first k units of ours, of which the SYN is the
\* first.
Mine(k) == (Iss + k) % SeqMod

Carries(f) == Len(f.data) > 0 \/ "FIN" \in f.flags

Syns(q) == \A i \in 1..Len(q) : "SYN" \in q[i].flags => q[i].seq = Iss
Fins(q) == \E i \in 1..Len(q) : "FIN" \in q[i].flags

\* The frame f carries what comes behind the first start bytes.
Carried(f, start) ==
    /\ f.seq = Mine(1 + start)
    /\ Len(f.data) <= TxBuf
    /\ \A i \in 1..Len(f.data) : f.data[i] = start + i
    /\ "FIN" \in f.flags => Len(f.data) = 0

\* The frames q on their way to a peer that has n bytes, when frame i starts
\* behind ss[i] bytes: none ends before what the peer has, or before a frame sent
\* earlier, or beyond top.
Placed(q, ss, n, top) ==
    /\ \A i \in 1..Len(q) : Carries(q[i]) =>
          /\ Carried(q[i], ss[i])
          /\ n <= ss[i] + Len(q[i].data) /\ ss[i] + Len(q[i].data) <= top
    /\ \A i, m \in 1..Len(q) : i < m /\ Carries(q[i]) /\ Carries(q[m]) =>
          ss[i] + Len(q[i].data) <= ss[m] + Len(q[m].data)

\* None of them leaves a gap behind what the peer has.
Sending(q, n, top) == \E ss \in [1..Len(q) -> 0..n] : Placed(q, ss, n, top)

\* The acknowledgments q on their way back, when frame i acknowledges js[i] units:
\* each says no less than those before it, of the units and of the room behind
\* them.
Tells(q, js, edge, room) ==
    /\ \A i \in 1..Len(q) : "ACK" \in q[i].flags =>
          /\ q[i].ack = Mine(1 + js[i])
          /\ edge <= js[i] + q[i].win /\ js[i] + q[i].win <= room
    /\ \A i, m \in 1..Len(q) : i < m =>
          /\ js[i] <= js[m]
          /\ "ACK" \in q[i].flags /\ "ACK" \in q[m].flags =>
                js[i] + q[i].win <= js[m] + q[m].win

Telling(q, low, edge, high, room) ==
    \E js \in [1..Len(q) -> low..high] : Tells(q, js, edge, room)

\* What the peer has of our units, and how far its buffer reaches.
Heard(p) == Len(p.got) + (IF p.eof THEN 1 ELSE 0)
Room(p) == Heard(p) + PeerBuf - p.unread

\* The window the stack may still be told of; in CLOSE_WAIT it is not told any more.
Edge(s) == IF s.tcp = "Established" THEN s.rel + s.win ELSE 0

\* The socket s, with the frames q of its on their way to a peer that has n bytes.
Based(s, q, n) ==
    /\ s.tcp # "SynReceived"
    /\ s.rel <= n
    /\ s.st = "Connecting" => s.una = Iss
    /\ s.st \in {"Connected", "Closing"} => s.una = Mine(1 + s.rel)
    /\ s.st = "Connected" => TxAvailable(s) <= Mss
    /\ Syns(q)
    /\ \E top \in Nat : Sending(q, n, top)

\* Of what is in the tx ring the first k bytes were sent, and there was room for
\* them.
Paced(s, q, n, k) ==
    /\ n <= s.rel + k
    /\ Sending(q, n, s.rel + k)
    /\ s.st = "Connected" => k <= s.win

Lasts(s) == s.st \in {"Bound", "Connecting", "Connected", "Closing"}

\* What is sent next is numbered by what was sent.
Ordered(s, q, n) ==
    /\ Based(s, q, n)
    /\ Lasts(s) => \E k \in 0..TxAvailable(s) :
                      /\ Paced(s, q, n, k)
                      /\ s.st = "Connected" => s.seq = Mine(1 + s.rel + k)

\* The socket begins again with the oldest byte that was not acknowledged.
Ready(s, q, n) ==
    /\ Based(s, q, n)
    /\ Lasts(s) => \E k \in 0..TxAvailable(s) : Paced(s, q, n, k)
    /\ s.st \in {"Connecting", "Connected", "Closing"} => s.seq = s.una
    /\ s.st = "Closing" => s.rel = s.wr

\* A FIN goes out behind the last byte.
FinsLast ==
    Fins(toPeer) \/ peer.eof => app.closed /\ app.asked = Len(peer.got)

Asked ==
    /\ conn.st # "Free" => app.pending + conn.wr = app.asked
    /\ conn.st \in {"Bound", "Connecting"} => app.asked = 0
    /\ conn.st = "Closing" => conn.rel = conn.wr
    /\ app.closed => app.pending = 0
    /\ app.pending > 0 /\ conn.st = "Connected" =>
          TxAvailable(conn) = 0 /\ app.pending <= Lesser(Mss, TxBuf)

\* The peer p knows which of our units comes next.
Hearing(p) ==
    /\ p.st # "synSent"
    /\ p.st \in {"listen", "synRcvd"} => p.got = <<>> /\ ~p.eof /\ p.unread = 0
    /\ p.st \in {"synRcvd", "estab"} => p.rcv = Mine(1 + Heard(p))
    /\ \A i \in 1..Len(p.got) : p.got[i] = i

Answered ==
    conn.st \in {"Bound", "Connecting", "Connected"} =>
        /\ Telling(toUs, conn.rel, Edge(conn), Heard(peer), Room(peer))
        /\ Edge(conn) <= Room(peer)

SendInv ==
    Careful => Ordered(conn, toPeer, Len(peer.got)) /\ FinsLast /\ Asked /\ Hearing(peer) /\ Answered

----------------------------------------------------------------------------
(* Our sequence numbers.                                                   *)

LEMMA MineAdd ==
    ASSUME NEW k \in Nat, NEW n \in Nat
    PROVE  Mine(k) \in Num /\ (Mine(k) + n) % SeqMod = Mine(k + n)
  <1>1. Iss + k \in Int /\ n \in Int /\ SeqMod \in Nat \ {0} /\ (Iss + k) + n = Iss + (k + n)
    BY EndpointAssumption
  <1>2. (((Iss + k) % SeqMod) + n) % SeqMod = ((Iss + k) + n) % SeqMod
    BY <1>1, AddToRemainder
  <1> QED BY <1>1, <1>2, ModNum DEF Mine

LEMMA FirstMine == Mine(0) = Iss /\ (Iss + 1) % SeqMod = Mine(1)
  BY EndpointAssumption DEF Mine

\* The remainder of a difference of remainders.
LEMMA RemainderOfDifference ==
    ASSUME NEW m \in Nat \ {0}, NEW x \in Int, NEW y \in Int
    PROVE  ((x % m) - (y % m)) % m = (x - y) % m
  <1> DEFINE q == y \div m
             r == y % m
             p == x % m
  <1>1. q \in Int /\ r \in Int /\ y = m * q + r /\ p \in Int /\ -r \in Int
    BY DivMod
  <1>2. (p + (-r)) % m = (x + (-r)) % m
    BY <1>1, AddToRemainder
  <1> HIDE DEF q, r, p
  <1>3. x + (-r) = m * q + (x - y)
    BY <1>1, Z3
  <1>4. (m * q + (x - y)) % m = (x - y) % m
    <2>1. x - y \in Int
      OBVIOUS
    <2> QED BY <1>1, <2>1, AddMultiple
  <1>5. p + (-r) = p - r
    BY <1>1
  <1> QED BY <1>2, <1>3, <1>4, <1>5 DEF p, r

\* Numbers that are near each other are compared as they are.
Near == RxBuf + TxBuf + 1

LEMMA DistanceOf ==
    ASSUME NEW a \in Nat, NEW b \in Nat, a <= b + Near, b <= a + Near
    PROVE  Distance(Mine(a), Mine(b)) = a - b
  <1>1. SeqMod \in Nat \ {0} /\ Iss \in Nat /\ Near \in Nat /\ 2 * Near + 2 < SeqMod
    BY EndpointAssumption DEF Near
  <1> HIDE DEF Near
  <1> DEFINE d == a - b
  <1>2. d \in Int /\ (Iss + a) - (Iss + b) = d /\ d <= Near /\ -d <= Near
    BY <1>1
  <1>3. (Mine(a) - Mine(b)) % SeqMod = d % SeqMod
    <2>1. Iss + a \in Int /\ Iss + b \in Int
      BY <1>1
    <2> QED BY ZenonT(60), <1>1, <1>2, <2>1, RemainderOfDifference DEF Mine
  <1> HIDE DEF d
  <1>4. d % SeqMod = IF d >= 0 THEN d ELSE d + SeqMod
    <2>1. CASE d >= 0
      <3>1. 0 \in 0..(SeqMod - 1) /\ d \in 0..SeqMod /\ 0 + d = d /\ d < SeqMod
        BY <1>1, <1>2, <2>1
      <3> QED BY <1>1, <2>1, <3>1, WrapOnce
    <2>2. CASE d < 0
      <3> DEFINE e == -d
      <3>1. 0 \in 0..(SeqMod - 1) /\ e \in 0..SeqMod /\ 0 - e = d /\ ~(0 >= e)
            /\ 0 - e + SeqMod = d + SeqMod
        BY <1>1, <1>2, <2>2
      <3> HIDE DEF e
      <3>2. (0 - e) % SeqMod = 0 - e + SeqMod
        BY <1>1, <3>1, WrapOnce
      <3>3. ~(d >= 0)
        BY <1>2, <2>2
      <3> QED BY <3>1, <3>2, <3>3
    <2> QED BY <1>2, <2>1, <2>2
  <1>5. SeqMod \div 2 \in Nat /\ Near < SeqMod \div 2 /\ Near < SeqMod - (SeqMod \div 2)
    BY <1>1, Z3
  <1>6. CASE d >= 0
    BY <1>1, <1>2, <1>3, <1>4, <1>5, <1>6 DEF Distance, d
  <1>7. CASE d < 0
    <2>1. d % SeqMod = d + SeqMod /\ d + SeqMod >= SeqMod \div 2 /\ (d + SeqMod) - SeqMod = d
      BY <1>1, <1>2, <1>4, <1>5, <1>7
    <2> QED BY <1>3, <2>1 DEF Distance, d
  <1> QED BY <1>2, <1>6, <1>7

----------------------------------------------------------------------------
(* The frames on their way to the peer.                                    *)

LEMMA SendingNone == ASSUME NEW n \in Nat, NEW top PROVE Sending(<<>>, n, top)
  <1>1. [i \in 1..0 |-> 0] \in [1..Len(<<>>) -> 0..n]
    OBVIOUS
  <1>2. Placed(<<>>, [i \in 1..0 |-> 0], n, top)
    BY DEF Placed
  <1> QED BY <1>1, <1>2 DEF Sending

LEMMA AppendShape ==
    ASSUME NEW q \in Seq(Segment), NEW f \in Segment
    PROVE  /\ Append(q, f) \in Seq(Segment) /\ Len(Append(q, f)) = Len(q) + 1 /\ Len(q) \in Nat
           /\ \A i \in 1..(Len(q) + 1) : Append(q, f)[i] = IF i <= Len(q) THEN q[i] ELSE f
  OBVIOUS

\* Lengths are numbers.
LEMMA DataLen == ASSUME NEW f \in Segment PROVE Len(f.data) \in Nat /\ f.data \in Seq(Nat)
  BY DEF Segment

LEMMA FrameLens ==
    ASSUME NEW q \in Seq(Segment), NEW i \in 1..Len(q)
    PROVE  q[i] \in Segment /\ Len(q[i].data) \in Nat
  <1>1. q[i] \in Segment
    OBVIOUS
  <1> QED BY <1>1, DataLen

\* A frame is sent behind those under way.
LEMMA SendingAppend ==
    ASSUME NEW q \in Seq(Segment), NEW f \in Segment, NEW n \in Nat, NEW top \in Nat,
           NEW reach \in Nat, Sending(q, n, top), top <= reach, NEW start \in 0..n,
           Carries(f) => /\ Carried(f, start) /\ n <= start + Len(f.data)
                         /\ top <= start + Len(f.data) /\ start + Len(f.data) <= reach
    PROVE  Sending(Append(q, f), n, reach)
  <1> DEFINE r == Append(q, f)
             l == Len(q)
             m == Len(f.data)
  <1>1. l \in Nat /\ Len(r) = l + 1 /\ m \in Nat
        /\ \A i \in 1..(l + 1) : r[i] = IF i <= l THEN q[i] ELSE f
    BY AppendShape, DataLen
  <1>2. PICK ss \in [1..l -> 0..n] : Placed(q, ss, n, top)
    BY DEF Sending
  <1> DEFINE tt == [i \in 1..(l + 1) |-> IF i <= l THEN ss[i] ELSE start]
  <1>3. tt \in [1..(l + 1) -> 0..n] /\ \A i \in 1..(l + 1) : tt[i] = IF i <= l THEN ss[i] ELSE start
    BY <1>1, <1>2
  <1>4. \A i \in 1..l : /\ Len(q[i].data) \in Nat /\ ss[i] \in Nat
                        /\ Carries(q[i]) => /\ Carried(q[i], ss[i]) /\ n <= ss[i] + Len(q[i].data)
                                            /\ ss[i] + Len(q[i].data) <= top
    BY <1>2, FrameLens DEF Placed
  <1>5. \A i, j \in 1..l : i < j /\ Carries(q[i]) /\ Carries(q[j]) =>
            ss[i] + Len(q[i].data) <= ss[j] + Len(q[j].data)
    BY <1>2 DEF Placed
  <1>6. Carries(f) => Carried(f, start) /\ n <= start + m /\ top <= start + m /\ start + m <= reach
    OBVIOUS
  <1> HIDE DEF r, l, tt
  <1>7. ASSUME NEW i \in 1..(l + 1), Carries(r[i])
        PROVE  Carried(r[i], tt[i]) /\ n <= tt[i] + Len(r[i].data) /\ tt[i] + Len(r[i].data) <= reach
    <2>1. CASE i <= l
      <3>1. i \in 1..l /\ r[i] = q[i] /\ tt[i] = ss[i]
        BY <1>1, <1>3, <2>1
      <3> QED BY <1>4, <1>7, <3>1
    <2>2. CASE ~(i <= l)
      <3>1. r[i] = f /\ tt[i] = start
        BY <1>1, <1>3, <2>2
      <3> QED BY <1>6, <1>7, <3>1 DEF m
    <2> QED BY <2>1, <2>2
  <1>8. ASSUME NEW i \in 1..(l + 1), NEW j \in 1..(l + 1), i < j, Carries(r[i]), Carries(r[j])
        PROVE  tt[i] + Len(r[i].data) <= tt[j] + Len(r[j].data)
    <2>1. i \in 1..l /\ i <= l
      BY <1>1, <1>8
    <2>2. r[i] = q[i] /\ tt[i] = ss[i]
      BY <1>1, <1>3, <2>1
    <2>3. CASE j <= l
      <3>1. j \in 1..l /\ r[j] = q[j] /\ tt[j] = ss[j]
        BY <1>1, <1>3, <2>3
      <3> QED BY <1>5, <1>8, <2>1, <2>2, <3>1
    <2>4. CASE ~(j <= l)
      <3>1. r[j] = f /\ tt[j] = start
        BY <1>1, <1>3, <2>4
      <3> DEFINE e == ss[i] + Len(q[i].data)
      <3>2. e \in Nat /\ e <= top
        BY SMTT(30), <1>4, <1>8, <2>1, <2>2
      <3>3. top <= start + m
        BY <1>6, <1>8, <3>1
      <3> HIDE DEF e, m
      <3>4. e <= start + m
        BY <1>1, <3>2, <3>3
      <3> QED BY <2>2, <3>1, <3>4 DEF e, m
    <2> QED BY <2>3, <2>4
  <1>9. Placed(r, tt, n, reach)
    BY <1>1, <1>7, <1>8 DEF Placed
  <1>10. tt \in [1..Len(r) -> 0..n]
    BY <1>1, <1>3
  <1>11. Sending(r, n, reach)
    BY <1>9, <1>10 DEF Sending
  <1> QED BY <1>11 DEF r

\* A frame with nothing in it.
LEMMA SendingPlain ==
    ASSUME NEW q \in Seq(Segment), NEW f \in Segment, NEW n \in Nat, NEW top \in Nat,
           Sending(q, n, top), ~Carries(f)
    PROVE  Sending(Append(q, f), n, top)
  <1>1. 0 \in 0..n /\ top <= top
    OBVIOUS
  <1> QED BY <1>1, SendingAppend

LEMMA SendingMore ==
    ASSUME NEW q \in Seq(Segment), NEW n \in Nat, NEW top \in Nat, NEW reach \in Nat,
           Sending(q, n, top), top <= reach
    PROVE  Sending(q, n, reach)
  <1>1. PICK ss \in [1..Len(q) -> 0..n] : Placed(q, ss, n, top)
    BY DEF Sending
  <1>2. ASSUME NEW i \in 1..Len(q), Carries(q[i])
        PROVE  Carried(q[i], ss[i]) /\ n <= ss[i] + Len(q[i].data) /\ ss[i] + Len(q[i].data) <= reach
    <2> DEFINE e == ss[i] + Len(q[i].data)
    <2>1. ss[i] \in Nat /\ Len(q[i].data) \in Nat
      BY FrameLens
    <2>2. e \in Nat /\ e <= top /\ Carried(q[i], ss[i]) /\ n <= e
      BY <1>1, <1>2, <2>1 DEF Placed
    <2> HIDE DEF e
    <2>3. e <= reach
      BY <2>2
    <2> QED BY <2>2, <2>3 DEF e
  <1>3. Placed(q, ss, n, reach)
    BY <1>1, <1>2 DEF Placed
  <1> QED BY <1>3 DEF Sending

\* What is left when the first frame is gone.
LEMMA BehindFirst ==
    ASSUME NEW q \in Seq(Segment), Len(q) > 0
    PROVE  /\ Without(q, 1) \in Seq(Segment) /\ Len(Without(q, 1)) = Len(q) - 1 /\ Len(q) \in Nat
           /\ \A i \in 1..(Len(q) - 1) : i + 1 \in 1..Len(q) /\ Without(q, 1)[i] = q[i + 1]
  <1>1. Len(q) \in Nat /\ 1 \in 1..Len(q)
    OBVIOUS
  <1>2. /\ Without(q, 1) \in Seq(Segment) /\ Len(Without(q, 1)) = Len(q) - 1
        /\ \A i \in 1..(Len(q) - 1) : Without(q, 1)[i] = IF i < 1 THEN q[i] ELSE q[i + 1]
    BY <1>1, WithoutShape
  <1>3. \A i \in 1..(Len(q) - 1) : ~(i < 1) /\ i + 1 \in 1..Len(q)
    BY <1>1
  <1> QED BY <1>1, <1>2, <1>3

\* The first frame is taken, or lost, and then the peer has m bytes.
LEMMA SendingRest ==
    ASSUME NEW q \in Seq(Segment), Len(q) > 0, NEW n \in Nat, NEW top \in Nat,
           Sending(q, n, top)
    PROVE  \E start \in 0..n :
              /\ Carries(q[1]) => /\ Carried(q[1], start) /\ n <= start + Len(q[1].data)
                                  /\ start + Len(q[1].data) <= top
              /\ Sending(Without(q, 1), n, top)
              /\ Carries(q[1]) /\ Fins(q) => start + Len(q[1].data) <= n
              /\ Carries(q[1]) => \A m \in Nat : n <= m /\ m <= start + Len(q[1].data) =>
                    Sending(Without(q, 1), m, top)
  <1> DEFINE r == Without(q, 1)
             l == Len(q) - 1
  <1>1. l \in Nat /\ Len(r) = l /\ Len(q) = l + 1 /\ 1 \in 1..Len(q)
        /\ \A i \in 1..l : i + 1 \in 1..Len(q) /\ r[i] = q[i + 1]
    BY SMTT(30), BehindFirst
  <1>2. PICK ss \in [1..Len(q) -> 0..n] : Placed(q, ss, n, top)
    BY DEF Sending
  <1> DEFINE tt == [i \in 1..l |-> ss[i + 1]]
             start == ss[1]
             e == start + Len(q[1].data)
  <1>3. \A i \in 1..l : tt[i] = ss[i + 1] /\ tt[i] \in 0..n
    BY <1>1, <1>2
  <1>4. tt \in [1..l -> 0..n]
    BY <1>1, <1>2
  <1>5. \A i \in 1..Len(q) :
            /\ Len(q[i].data) \in Nat /\ ss[i] \in 0..n
            /\ Carries(q[i]) => /\ Carried(q[i], ss[i]) /\ n <= ss[i] + Len(q[i].data)
                                /\ ss[i] + Len(q[i].data) <= top
    BY <1>2, FrameLens DEF Placed
  <1>6. \A i, j \in 1..Len(q) : i < j /\ Carries(q[i]) /\ Carries(q[j]) =>
            ss[i] + Len(q[i].data) <= ss[j] + Len(q[j].data)
    BY <1>2 DEF Placed
  <1>7. start \in 0..n /\ e \in Nat
        /\ (Carries(q[1]) => Carried(q[1], start) /\ n <= e /\ e <= top)
    BY <1>1, <1>5
  <1>12. Carries(q[1]) /\ Fins(q) => e <= n
    <2>1. SUFFICES ASSUME Carries(q[1]), Fins(q) PROVE e <= n
      OBVIOUS
    <2>2. PICK i \in 1..Len(q) : "FIN" \in q[i].flags
      BY <2>1 DEF Fins
    <2>3. Carries(q[i]) /\ Len(q[i].data) = 0 /\ ss[i] \in 0..n
      BY <1>5, <2>2 DEF Carried, Carries
    <2>4. ss[i] + Len(q[i].data) <= n
      BY <2>3
    <2>5. CASE i = 1
      BY <2>4, <2>5
    <2>6. CASE i # 1
      <3>1. 1 < i
        BY <1>1, <2>6
      <3>2. e <= ss[i] + Len(q[i].data)
        BY <1>1, <1>6, <2>1, <2>3, <3>1
      <3> QED BY <1>7, <2>3, <3>2
    <2> QED BY <2>5, <2>6
  <1> HIDE DEF r, l, tt
  <1>8. ASSUME NEW i \in 1..l, NEW j \in 1..l, i < j, Carries(r[i]), Carries(r[j])
        PROVE  tt[i] + Len(r[i].data) <= tt[j] + Len(r[j].data)
    <2>1. i + 1 \in 1..Len(q) /\ j + 1 \in 1..Len(q) /\ i + 1 < j + 1
      BY <1>1, <1>8
    <2>2. r[i] = q[i + 1] /\ r[j] = q[j + 1] /\ tt[i] = ss[i + 1] /\ tt[j] = ss[j + 1]
      BY <1>1, <1>3
    <2> QED BY <1>6, <1>8, <2>1, <2>2
  <1>9. ASSUME NEW m \in Nat, n <= m, m = n \/ (Carries(q[1]) /\ m <= e)
        PROVE  Sending(r, m, top)
    <2>1. ASSUME NEW i \in 1..l, Carries(r[i])
          PROVE  Carried(r[i], tt[i]) /\ m <= tt[i] + Len(r[i].data) /\ tt[i] + Len(r[i].data) <= top
      <3> DEFINE d == ss[i + 1] + Len(q[i + 1].data)
      <3>0. 1 < i + 1
        BY <1>1
      <3>1. i + 1 \in 1..Len(q) /\ r[i] = q[i + 1] /\ tt[i] = ss[i + 1] /\ 1 < i + 1
        BY <1>1, <1>3, <3>0
      <3>2. Carried(r[i], tt[i]) /\ n <= d /\ d <= top /\ d \in Nat
        BY <1>5, <2>1, <3>1
      <3>3. Carries(q[1]) => e <= d
        BY <1>1, <1>6, <2>1, <3>1
      <3> HIDE DEF d, e
      <3>4. m <= d
        BY <1>7, <1>9, <3>2, <3>3
      <3> QED BY <3>1, <3>2, <3>4 DEF d
    <2>2. Placed(r, tt, m, top)
      BY <1>1, <1>8, <2>1 DEF Placed
    <2>3. tt \in [1..Len(r) -> 0..m]
      <3>1. \A x \in 0..n : x \in 0..m
        BY <1>9
      <3> QED BY <1>1, <1>4, <3>1
    <2> QED BY <2>2, <2>3 DEF Sending
  <1> HIDE DEF e, start
  <1>10. Sending(r, n, top)
    BY <1>9
  <1>11. Carries(q[1]) => \A m \in Nat : n <= m /\ m <= e => Sending(r, m, top)
    BY <1>9
  <1> QED BY <1>7, <1>10, <1>11, <1>12 DEF r, e

----------------------------------------------------------------------------
(* The acknowledgments on their way back.                                  *)

LEMMA TellingNone ==
    ASSUME NEW low, NEW edge, NEW high, NEW room PROVE Telling(<<>>, low, edge, high, room)
  <1>1. [i \in 1..0 |-> 0] \in [1..Len(<<>>) -> low..high]
    OBVIOUS
  <1>2. Tells(<<>>, [i \in 1..0 |-> 0], edge, room)
    BY DEF Tells
  <1> QED BY <1>1, <1>2 DEF Telling

LEMMA FrameWins ==
    ASSUME NEW q \in Seq(Segment), NEW i \in 1..Len(q)
    PROVE  q[i] \in Segment /\ q[i].win \in Nat
  <1>1. q[i] \in Segment
    OBVIOUS
  <1> QED BY <1>1 DEF Segment

\* The bounds may be loosened.
LEMMA TellingMore ==
    ASSUME NEW q \in Seq(Segment),
           NEW low \in Nat, NEW edge \in Nat, NEW high \in Nat, NEW room \in Nat,
           NEW low2 \in Nat, NEW edge2 \in Nat, NEW high2 \in Nat, NEW room2 \in Nat,
           low2 <= low, edge2 <= edge, high <= high2, room <= room2,
           Telling(q, low, edge, high, room)
    PROVE  Telling(q, low2, edge2, high2, room2)
  <1>1. PICK js \in [1..Len(q) -> low..high] : Tells(q, js, edge, room)
    BY DEF Telling
  <1>2. ASSUME NEW i \in 1..Len(q), "ACK" \in q[i].flags
        PROVE  q[i].ack = Mine(1 + js[i]) /\ edge2 <= js[i] + q[i].win /\ js[i] + q[i].win <= room2
    <2> DEFINE e == js[i] + q[i].win
    <2>1. js[i] \in Nat /\ q[i].win \in Nat
      BY FrameWins
    <2>2. e \in Nat /\ edge <= e /\ e <= room /\ q[i].ack = Mine(1 + js[i])
      BY <1>1, <1>2, <2>1 DEF Tells
    <2> HIDE DEF e
    <2>3. edge2 <= e /\ e <= room2
      BY <2>2
    <2> QED BY <2>2, <2>3 DEF e
  <1>3. Tells(q, js, edge2, room2)
    BY <1>1, <1>2 DEF Tells
  <1>4. js \in [1..Len(q) -> low2..high2]
    <2>1. \A x \in low..high : x \in low2..high2
      OBVIOUS
    <2> QED BY <2>1
  <1> QED BY <1>3, <1>4 DEF Telling

\* The peer tells what it has now.
LEMMA TellingAppend ==
    ASSUME NEW q \in Seq(Segment), NEW g \in Segment,
           NEW low \in Nat, NEW edge \in Nat, NEW high \in Nat, NEW room \in Nat,
           low <= high, edge <= room, Telling(q, low, edge, high, room),
           "ACK" \in g.flags => g.ack = Mine(1 + high) /\ high + g.win = room
    PROVE  Telling(Append(q, g), low, edge, high, room)
  <1> DEFINE r == Append(q, g)
             l == Len(q)
  <1>1. l \in Nat /\ Len(r) = l + 1 /\ \A i \in 1..(l + 1) : r[i] = IF i <= l THEN q[i] ELSE g
    BY AppendShape
  <1>2. PICK js \in [1..l -> low..high] : Tells(q, js, edge, room)
    BY DEF Telling
  <1> DEFINE ks == [i \in 1..(l + 1) |-> IF i <= l THEN js[i] ELSE high]
  <1>3. ks \in [1..(l + 1) -> low..high]
        /\ \A i \in 1..(l + 1) : ks[i] = IF i <= l THEN js[i] ELSE high
    BY <1>1, <1>2
  <1>4. \A i \in 1..l : /\ q[i].win \in Nat /\ js[i] \in low..high
                        /\ "ACK" \in q[i].flags => /\ q[i].ack = Mine(1 + js[i])
                                                   /\ edge <= js[i] + q[i].win
                                                   /\ js[i] + q[i].win <= room
    BY <1>2, FrameWins DEF Tells
  <1>5. \A i, j \in 1..l : i < j =>
            /\ js[i] <= js[j]
            /\ "ACK" \in q[i].flags /\ "ACK" \in q[j].flags =>
                  js[i] + q[i].win <= js[j] + q[j].win
    BY <1>2 DEF Tells
  <1> HIDE DEF r, l, ks
  <1>6. ASSUME NEW i \in 1..(l + 1), "ACK" \in r[i].flags
        PROVE  r[i].ack = Mine(1 + ks[i]) /\ edge <= ks[i] + r[i].win /\ ks[i] + r[i].win <= room
    <2>1. CASE i <= l
      <3>1. i \in 1..l /\ r[i] = q[i] /\ ks[i] = js[i]
        BY <1>1, <1>3, <2>1
      <3> QED BY <1>4, <1>6, <3>1
    <2>2. CASE ~(i <= l)
      <3>1. r[i] = g /\ ks[i] = high
        BY <1>1, <1>3, <2>2
      <3>2. high + g.win = room /\ g.ack = Mine(1 + high)
        BY <1>6, <3>1
      <3> QED BY <3>1, <3>2
    <2> QED BY <2>1, <2>2
  <1>7. ASSUME NEW i \in 1..(l + 1), NEW j \in 1..(l + 1), i < j
        PROVE  /\ ks[i] <= ks[j]
               /\ "ACK" \in r[i].flags /\ "ACK" \in r[j].flags =>
                     ks[i] + r[i].win <= ks[j] + r[j].win
    <2>1. i \in 1..l /\ i <= l
      BY <1>1, <1>7
    <2>2. r[i] = q[i] /\ ks[i] = js[i] /\ js[i] \in low..high
      BY <1>1, <1>3, <1>4, <2>1
    <2>3. CASE j <= l
      <3>1. j \in 1..l /\ r[j] = q[j] /\ ks[j] = js[j]
        BY <1>1, <1>3, <2>3
      <3> QED BY <1>5, <1>7, <2>1, <2>2, <3>1
    <2>4. CASE ~(j <= l)
      <3>1. r[j] = g /\ ks[j] = high
        BY <1>1, <1>3, <2>4
      <3>2. ks[i] <= high
        BY <2>2
      <3>3. ASSUME "ACK" \in r[i].flags, "ACK" \in r[j].flags
            PROVE  ks[i] + r[i].win <= ks[j] + r[j].win
        <4>1. high + g.win = room
          BY <3>1, <3>3
        <4>2. js[i] + q[i].win <= room
          BY <1>4, <2>1, <2>2, <3>3
        <4> QED BY <2>2, <3>1, <4>1, <4>2
      <3> QED BY <3>1, <3>2, <3>3
    <2> QED BY <2>3, <2>4
  <1>8. Tells(r, ks, edge, room)
    BY <1>1, <1>6, <1>7 DEF Tells
  <1>9. ks \in [1..Len(r) -> low..high]
    BY <1>1, <1>3
  <1>10. Telling(r, low, edge, high, room)
    BY <1>8, <1>9 DEF Telling
  <1> QED BY <1>10 DEF r

\* What the first of them says is less than what the others say.
LEMMA TellingRest ==
    ASSUME NEW q \in Seq(Segment), Len(q) > 0,
           NEW low \in Nat, NEW edge \in Nat, NEW high \in Nat, NEW room \in Nat,
           Telling(q, low, edge, high, room)
    PROVE  \E j \in low..high :
              /\ "ACK" \in q[1].flags => /\ q[1].ack = Mine(1 + j) /\ edge <= j + q[1].win
                                         /\ j + q[1].win <= room
              /\ Telling(Without(q, 1), j,
                         IF "ACK" \in q[1].flags THEN j + q[1].win ELSE edge, high, room)
  <1> DEFINE r == Without(q, 1)
             l == Len(q) - 1
  <1>1. l \in Nat /\ Len(r) = l /\ Len(q) = l + 1 /\ 1 \in 1..Len(q)
        /\ \A i \in 1..l : i + 1 \in 1..Len(q) /\ r[i] = q[i + 1]
    BY BehindFirst
  <1>2. PICK js \in [1..Len(q) -> low..high] : Tells(q, js, edge, room)
    BY DEF Telling
  <1> DEFINE ks == [i \in 1..l |-> js[i + 1]]
             j == js[1]
             e == IF "ACK" \in q[1].flags THEN j + q[1].win ELSE edge
  <1>3. \A i \in 1..Len(q) :
            /\ q[i].win \in Nat /\ js[i] \in low..high
            /\ "ACK" \in q[i].flags => /\ q[i].ack = Mine(1 + js[i])
                                       /\ edge <= js[i] + q[i].win /\ js[i] + q[i].win <= room
    BY <1>2, FrameWins DEF Tells
  <1>4. \A i, m \in 1..Len(q) : i < m =>
            /\ js[i] <= js[m]
            /\ "ACK" \in q[i].flags /\ "ACK" \in q[m].flags =>
                  js[i] + q[i].win <= js[m] + q[m].win
    BY <1>2 DEF Tells
  <1>5. \A i \in 1..l : 1 < i + 1 /\ j <= js[i + 1] /\ js[i + 1] \in low..high
    <2> TAKE i \in 1..l
    <2>1. 1 < i + 1 /\ i + 1 \in 1..Len(q)
      BY <1>1
    <2> QED BY <1>1, <1>3, <1>4, <2>1
  <1>6. ks \in [1..l -> j..high] /\ \A i \in 1..l : ks[i] = js[i + 1]
    <2>1. \A i \in 1..l : js[i + 1] \in j..high
      BY <1>1, <1>3, <1>5
    <2> QED BY <2>1
  <1> HIDE DEF r, l, ks
  <1>7. ASSUME NEW i \in 1..l, "ACK" \in r[i].flags
        PROVE  r[i].ack = Mine(1 + ks[i]) /\ e <= ks[i] + r[i].win /\ ks[i] + r[i].win <= room
    <2>1. i + 1 \in 1..Len(q) /\ r[i] = q[i + 1] /\ ks[i] = js[i + 1] /\ 1 < i + 1
      BY <1>1, <1>5, <1>6
    <2>2. r[i].ack = Mine(1 + ks[i]) /\ edge <= ks[i] + r[i].win /\ ks[i] + r[i].win <= room
      BY <1>3, <1>7, <2>1
    <2>3. "ACK" \in q[1].flags => j + q[1].win <= ks[i] + r[i].win
      BY <1>1, <1>4, <1>7, <2>1
    <2> QED BY <2>2, <2>3
  <1>8. ASSUME NEW i \in 1..l, NEW m \in 1..l, i < m
        PROVE  /\ ks[i] <= ks[m]
               /\ "ACK" \in r[i].flags /\ "ACK" \in r[m].flags =>
                     ks[i] + r[i].win <= ks[m] + r[m].win
    <2>1. i + 1 \in 1..Len(q) /\ m + 1 \in 1..Len(q) /\ i + 1 < m + 1
      BY <1>1, <1>8
    <2>2. r[i] = q[i + 1] /\ r[m] = q[m + 1] /\ ks[i] = js[i + 1] /\ ks[m] = js[m + 1]
      BY <1>1, <1>6
    <2> QED BY <1>4, <2>1, <2>2
  <1>9. Tells(r, ks, e, room)
    BY <1>1, <1>7, <1>8 DEF Tells
  <1>10. Telling(r, j, e, high, room)
    BY <1>1, <1>6, <1>9 DEF Telling
  <1>11. j \in low..high /\ ("ACK" \in q[1].flags =>
             q[1].ack = Mine(1 + j) /\ edge <= j + q[1].win /\ j + q[1].win <= room)
    BY <1>1, <1>3
  <1> HIDE DEF e, j
  <1> QED BY <1>10, <1>11 DEF r, e

----------------------------------------------------------------------------
(* What one handler does for our stream, of which the peer has n bytes,    *)
(* when the frames in base were sent before.                               *)

Plain(f) == ~Carries(f) /\ "SYN" \notin f.flags

\* The queue p has nothing that q has not, but frames that carry nothing.
Milder(q, p, n) ==
    /\ \A top \in Nat : Sending(q, n, top) => Sending(p, n, top)
    /\ Syns(q) => Syns(p)
    /\ Fins(p) => Fins(q)

SameSender(s, t) ==
    /\ t.st = s.st /\ t.una = s.una /\ t.seq = s.seq /\ t.win = s.win
    /\ t.wr = s.wr /\ t.rel = s.rel

LEMMA MilderSelf == ASSUME NEW q, NEW n PROVE Milder(q, q, n)
  BY DEF Milder

LEMMA MilderTwice ==
    ASSUME NEW q, NEW p, NEW o, NEW n, Milder(q, p, n), Milder(p, o, n)
    PROVE  Milder(q, o, n)
  BY DEF Milder

LEMMA SynsAppend ==
    ASSUME NEW q \in Seq(Segment), NEW f \in Segment, Syns(q), "SYN" \in f.flags => f.seq = Iss
    PROVE  Syns(Append(q, f))
  <1>1. Len(Append(q, f)) = Len(q) + 1 /\ Len(q) \in Nat
        /\ \A i \in 1..(Len(q) + 1) : Append(q, f)[i] = IF i <= Len(q) THEN q[i] ELSE f
    BY AppendShape
  <1> QED BY <1>1 DEF Syns

LEMMA FinsAppend ==
    ASSUME NEW q \in Seq(Segment), NEW f \in Segment, Fins(Append(q, f))
    PROVE  Fins(q) \/ "FIN" \in f.flags
  <1>1. Len(Append(q, f)) = Len(q) + 1 /\ Len(q) \in Nat
        /\ \A i \in 1..(Len(q) + 1) : Append(q, f)[i] = IF i <= Len(q) THEN q[i] ELSE f
    BY AppendShape
  <1>2. PICK i \in 1..(Len(q) + 1) : "FIN" \in Append(q, f)[i].flags
    BY <1>1 DEF Fins
  <1>3. CASE i <= Len(q)
    <2>1. i \in 1..Len(q) /\ Append(q, f)[i] = q[i]
      BY <1>1, <1>3
    <2> QED BY <1>2, <2>1 DEF Fins
  <1>4. CASE ~(i <= Len(q))
    BY <1>1, <1>2, <1>4
  <1> QED BY <1>3, <1>4

LEMMA PlainMilder ==
    ASSUME NEW q \in Seq(Segment), NEW f \in Segment, Plain(f), NEW n \in Nat
    PROVE  Milder(q, Append(q, f), n)
  <1>1. ASSUME NEW top \in Nat, Sending(q, n, top) PROVE Sending(Append(q, f), n, top)
    BY <1>1, SendingPlain DEF Plain
  <1>2. Syns(q) => Syns(Append(q, f))
    BY SynsAppend DEF Plain
  <1>3. Fins(Append(q, f)) => Fins(q)
    BY FinsAppend DEF Plain, Carries
  <1> QED BY <1>1, <1>2, <1>3 DEF Milder

LEMMA JoinAppend ==
    ASSUME NEW q \in Seq(Segment), NEW p \in Seq(Segment), NEW f \in Segment
    PROVE  q \o Append(p, f) = Append(q \o p, f) /\ q \o p \in Seq(Segment)
  OBVIOUS

LEMMA JoinNone == ASSUME NEW q \in Seq(Segment) PROVE q \o <<>> = q
  OBVIOUS

\* An acknowledgment is sent.
LEMMA PlainFrame ==
    ASSUME NEW s, Fit(s), NEW flags \in SUBSET Flag, "SYN" \notin flags, "FIN" \notin flags
    PROVE  FrameOf(s, flags, 0) \in Segment /\ Plain(FrameOf(s, flags, 0))
  <1>1. FrameOf(s, flags, 0) \in Segment
    BY FrameIsSegment
  <1>2. FrameOf(s, flags, 0).flags = flags /\ FrameOf(s, flags, 0).data = [i \in 1..0 |-> s.rel + i]
    BY DEF FrameOf
  <1>3. Len([i \in 1..0 |-> s.rel + i]) = 0
    OBVIOUS
  <1> QED BY <1>1, <1>2, <1>3 DEF Plain, Carries

LEMMA AckSent ==
    ASSUME NEW s, Fit(s), NEW base \in Seq(Segment), NEW n \in Nat
    PROVE  /\ Fit(SendFlags(s, {"ACK"}, TRUE)) /\ SameSender(s, SendFlags(s, {"ACK"}, TRUE))
           /\ SendFlags(s, {"ACK"}, TRUE).tcp = s.tcp
           /\ Milder(base \o s.out, base \o SendFlags(s, {"ACK"}, TRUE).out, n)
  <1> DEFINE t == SendFlags(s, {"ACK"}, TRUE)
             f == FrameOf(s, {"ACK"}, 0)
  <1>1. {"ACK"} \in SUBSET Flag /\ "SYN" \notin {"ACK"} /\ "FIN" \notin {"ACK"}
    BY DEF Flag
  <1>2. /\ Fit(t) /\ SameStream(s, t) /\ t.out = Append(s.out, f)
        /\ t.seq = (s.seq + Takes({"ACK"})) % SeqMod
    BY <1>1, SendFlagsShape
  <1>3. f \in Segment /\ Plain(f)
    BY <1>1, PlainFrame
  <1>4. t.seq = s.seq
    <2>1. Takes({"ACK"}) = 0
      BY DEF Takes
    <2>2. s.seq \in 0..(SeqMod - 1) /\ SeqMod \in Nat \ {0}
      BY FitNumbers, EndpointAssumption DEF Num
    <2>3. 0 \in 0..SeqMod /\ s.seq + 0 = s.seq /\ s.seq + 0 < SeqMod
      BY <2>2
    <2>4. (s.seq + 0) % SeqMod = s.seq
      BY <2>2, <2>3, WrapOnce
    <2> QED BY <1>2, <2>1, <2>4
  <1> HIDE DEF t, f
  <1>5. s.out \in Seq(Segment)
    BY DEF Fit, SockRecord
  <1>6. base \o t.out = Append(base \o s.out, f) /\ base \o s.out \in Seq(Segment)
    BY <1>2, <1>3, <1>5, JoinAppend
  <1>7. Milder(base \o s.out, base \o t.out, n)
    BY <1>3, <1>6, PlainMilder
  <1> QED BY <1>2, <1>4, <1>7 DEF SameSender, SameStream, t

\* Nothing of ours moves.
LEMMA OrderedKeeps ==
    ASSUME NEW s, NEW t, NEW q, NEW p, NEW n \in Nat, Ordered(s, q, n), SameSender(s, t),
           t.tcp # "SynReceived", Milder(q, p, n), Fit(s)
    PROVE  Ordered(t, p, n)
  <1>1. /\ t.st = s.st /\ t.una = s.una /\ t.seq = s.seq /\ t.win = s.win
        /\ t.wr = s.wr /\ t.rel = s.rel /\ TxAvailable(t) = TxAvailable(s)
    BY DEF SameSender, TxAvailable
  <1>2. Based(t, p, n)
    BY <1>1 DEF Ordered, Based, Milder, Syns
  <1>3. ASSUME Lasts(t)
        PROVE  \E k \in 0..TxAvailable(t) :
                  Paced(t, p, n, k) /\ (t.st = "Connected" => t.seq = Mine(1 + t.rel + k))
    <2>1. Lasts(s)
      BY <1>1, <1>3 DEF Lasts
    <2>2. PICK k \in 0..TxAvailable(s) :
              Paced(s, q, n, k) /\ (s.st = "Connected" => s.seq = Mine(1 + s.rel + k))
      BY <2>1 DEF Ordered
    <2>3. s.rel + k \in Nat
      BY FitNumbers
    <2>4. Sending(p, n, s.rel + k)
      BY <2>2, <2>3 DEF Paced, Milder
    <2>5. Paced(t, p, n, k)
      BY <1>1, <2>2, <2>4 DEF Paced
    <2> QED BY <1>1, <2>2, <2>5
  <1> QED BY <1>2, <1>3 DEF Ordered

LEMMA OrderedDies ==
    ASSUME NEW s, NEW q, NEW n, Ordered(s, q, n), Fit(s)
    PROVE  Ordered(Dead(s), q, n) /\ Dead(s).rel = s.rel /\ Dead(s).out = s.out
           /\ Dead(s).st = "Closed"
  <1>1. s \in SockRecord
    BY DEF Fit
  <1>2. /\ Dead(s).st = "Closed" /\ Dead(s).tcp = "Closed" /\ Dead(s).rel = s.rel
        /\ Dead(s).out = s.out
    BY <1>1 DEF Dead, SockRecord
  <1> QED BY <1>2 DEF Ordered, Based, Lasts

\* The tx ring has what was sent, and no more than fits.
LEMMA SentBounds ==
    ASSUME NEW s, Fit(s), NEW q, NEW n \in Nat, Ordered(s, q, n), s.st = "Connected"
    PROVE  \E k \in 0..TxAvailable(s) :
              /\ Paced(s, q, n, k) /\ s.seq = Mine(1 + s.rel + k)
              /\ n <= s.rel + k /\ s.rel + k <= s.wr /\ k <= s.win
              /\ k \in Nat /\ s.rel \in Nat /\ s.wr \in Nat /\ s.win \in Nat
              /\ s.rel <= n /\ n <= s.wr /\ n - s.rel <= TxBuf
  <1>1. PICK k \in 0..TxAvailable(s) : Paced(s, q, n, k) /\ s.seq = Mine(1 + s.rel + k)
    BY DEF Ordered, Lasts
  <1>2. s.rel \in Nat /\ s.wr \in Nat /\ s.win \in Nat /\ TxAvailable(s) = s.wr - s.rel
        /\ TxAvailable(s) \in 0..TxBuf /\ TxBuf \in Nat
    BY FitNumbers, EndpointAssumption DEF TxAvailable
  <1>3. n <= s.rel + k /\ k <= s.win /\ s.rel <= n
    BY <1>1 DEF Paced, Ordered, Based
  <1>4. k \in Nat /\ s.rel + k <= s.wr /\ n <= s.wr /\ n - s.rel <= TxBuf
    BY <1>2, <1>3
  <1> QED BY <1>1, <1>2, <1>3, <1>4

\* An acknowledgment that says j bytes releases them.
LEMMA AckedTo ==
    ASSUME NEW s, Fit(s), NEW g \in Segment, NEW j \in Nat, s.rel <= j, j <= s.wr,
           g.ack = Mine(1 + j), s.una = Mine(1 + s.rel)
    PROVE  LET t == ProcessAck(s, g)
           IN /\ t.rel = j /\ t.una = Mine(1 + j) /\ t.seq = s.seq /\ t.wr = s.wr
              /\ t.st = s.st /\ t.tcp = s.tcp /\ t.win = s.win /\ t.out = s.out
              /\ t \in SockRecord
  <1> DEFINE t == ProcessAck(s, g)
             acked == AckedBytes(s, g)
             more == acked < TxAvailable(s)
  <1>1. s \in SockRecord /\ s.rel \in Nat /\ s.wr \in Nat /\ TxAvailable(s) = s.wr - s.rel
        /\ TxAvailable(s) <= TxBuf /\ TxBuf \in Nat /\ RxBuf \in Nat
    BY FitNumbers, EndpointAssumption DEF Fit, TxAvailable
  <1>2. acked = j - s.rel
    <2>1. 1 + j \in Nat /\ 1 + s.rel \in Nat /\ 1 + j <= (1 + s.rel) + Near /\ 1 + s.rel <= (1 + j) + Near
          /\ (1 + j) - (1 + s.rel) = j - s.rel
      BY <1>1 DEF Near
    <2> QED BY <2>1, DistanceOf DEF AckedBytes
  <1>3. CASE j = s.rel
    <2>1. ~Acceptable(s, acked)
      BY <1>1, <1>2, <1>3 DEF Acceptable
    <2>2. t = s
      BY <2>1 DEF ProcessAck
    <2> QED BY <1>1, <1>3, <2>2
  <1>4. CASE j # s.rel
    <2>1. Acceptable(s, acked)
      BY <1>1, <1>2, <1>4 DEF Acceptable
    <2>2. t = [s EXCEPT !.rel = s.rel + acked, !.una = g.ack, !.cnt = 0, !.armed = more]
      BY <1>1, <2>1 DEF ProcessAck, SockRecord
    <2>3. s.rel + acked = j
      BY <1>1, <1>2
    <2>4. more \in BOOLEAN
      OBVIOUS
    <2> HIDE DEF t, acked, more
    <2>5. g.ack \in Num /\ 0 \in 0..MaxRetx
      BY EndpointAssumption DEF Segment, Num
    <2>6. t = [s EXCEPT !.rel = j, !.una = g.ack, !.cnt = 0, !.armed = more]
      BY <2>2, <2>3
    <2>7. /\ t.rel = j /\ t.una = g.ack /\ t.seq = s.seq /\ t.wr = s.wr
          /\ t.st = s.st /\ t.tcp = s.tcp /\ t.win = s.win /\ t.out = s.out
      BY <1>1, <2>6 DEF SockRecord
    <2>8. t \in SockRecord
      BY <1>1, <2>4, <2>5, <2>6 DEF SockRecord
    <2> QED BY <2>7, <2>8 DEF t
  <1> QED BY <1>3, <1>4

\* What was sent and not acknowledged becomes less, and still fits the window.
LEMMA AckedOrdered ==
    ASSUME NEW s, Fit(s), NEW q, NEW n \in Nat, Ordered(s, q, n), s.st = "Connected",
           NEW j \in Nat, s.rel <= j, j <= n, NEW t, t.st = s.st, t.seq = s.seq, t.wr = s.wr,
           t.rel = j, t.una = Mine(1 + j), t.tcp # "SynReceived", t.win \in Nat,
           t.win = s.win \/ s.rel + s.win <= j + t.win
    PROVE  Ordered(t, q, n) /\ j <= s.wr
  <1>1. PICK k \in 0..TxAvailable(s) :
              /\ Paced(s, q, n, k) /\ s.seq = Mine(1 + s.rel + k)
              /\ n <= s.rel + k /\ s.rel + k <= s.wr /\ k <= s.win
              /\ k \in Nat /\ s.rel \in Nat /\ s.wr \in Nat /\ s.win \in Nat
              /\ s.rel <= n /\ n <= s.wr /\ n - s.rel <= TxBuf
    BY SentBounds
  <1> DEFINE m == s.rel + k - j
  <1>2. m \in Nat /\ m <= s.wr - j /\ j + m = s.rel + k /\ 1 + j + m = 1 + s.rel + k /\ m <= k
        /\ j <= s.wr
    BY <1>1
  <1>3. m <= t.win
    BY <1>1, <1>2
  <1> HIDE DEF m
  <1>4. TxAvailable(t) = s.wr - j /\ TxAvailable(s) = s.wr - s.rel
    BY DEF TxAvailable
  <1>5. m \in 0..TxAvailable(t) /\ TxAvailable(t) <= TxAvailable(s)
    BY <1>1, <1>2, <1>4
  <1>6. Paced(t, q, n, m) /\ t.seq = Mine(1 + t.rel + m)
    <2>1. n <= t.rel + m /\ t.rel + m = s.rel + k
      BY <1>1, <1>2
    <2>2. Sending(q, n, t.rel + m)
      BY <1>1, <2>1 DEF Paced
    <2>3. 1 + t.rel + m = 1 + s.rel + k
      BY <1>2
    <2> QED BY <1>1, <1>3, <2>1, <2>2, <2>3 DEF Paced
  <1>7. Based(t, q, n)
    <2>1. TxAvailable(t) <= Mss
      <3>1. TxAvailable(s) <= Mss
        BY DEF Ordered, Based
      <3>2. TxAvailable(s) \in Int /\ TxAvailable(t) \in Int /\ Mss \in Int
        BY <1>1, <1>2, <1>4, EndpointAssumption
      <3> QED BY <1>5, <3>1, <3>2
    <2> QED BY <2>1 DEF Ordered, Based
  <1> QED BY <1>2, <1>5, <1>6, <1>7 DEF Ordered

----------------------------------------------------------------------------
(* A segment is handed to the socket, when the peer has n bytes of ours    *)
(* and the segment says it has j.                                          *)

Awaits(s) == s.st \in {"Bound", "Connecting", "Connected"}

Says(s, g, j, n) ==
    Awaits(s) => /\ s.rel <= j /\ j <= n
                 /\ "ACK" \in g.flags => g.ack = Mine(1 + j) /\ Edge(s) <= j + g.win

\* The window the socket knows of behind the segment.
Told(s, g, j) == IF "ACK" \in g.flags THEN j + g.win ELSE Edge(s)

Heeds(s, t, base, n, j, g) ==
    /\ Fit(t)
    /\ Ordered(t, base \o t.out, n)
    /\ Fins(base \o t.out) => Fins(base \o s.out)
    /\ s.rel <= t.rel
    /\ s.st # "Connected" => t.rel = s.rel
    /\ Awaits(t) => t.rel <= j /\ Edge(t) <= Told(s, g, j)

LEMMA EdgeIsNat == ASSUME NEW s, Fit(s) PROVE Edge(s) \in Nat
  BY FitNumbers DEF Edge

\* Nothing but the window of a segment is taken.
LEMMA HeedsSelf ==
    ASSUME NEW s, Fit(s), NEW base \in Seq(Segment), NEW n \in Nat, NEW j \in Nat,
           NEW g \in Segment, Ordered(s, base \o s.out, n), Says(s, g, j, n)
    PROVE  Heeds(s, s, base, n, j, g)
  <1>1. s.rel <= s.rel /\ Edge(s) <= Edge(s)
    BY FitNumbers, EdgeIsNat
  <1> QED BY <1>1 DEF Heeds, Says, Told

LEMMA DeadFits == ASSUME NEW s, Fit(s) PROVE Fit(Dead(s))
  <1> DEFINE t == Dead(s)
  <1>1. s \in SockRecord
    BY DEF Fit
  <1>2. t = [s EXCEPT !.tcp = "Closed", !.st = "Closed"]
    BY DEF Dead
  <1> HIDE DEF t
  <1>3. /\ t \in SockRecord /\ t.st = "Closed" /\ t.tcp = "Closed" /\ t.rx = s.rx
        /\ t.wr = s.wr /\ t.rel = s.rel
    BY <1>1, <1>2 DEF SockRecord, SockState, TcpState
  <1>4. Fit(t)
    BY <1>3 DEF Fit, Agree
  <1> QED BY <1>4 DEF t

\* A reset ends the connection behind what the handler did.
LEMMA HeedsReset ==
    ASSUME NEW s, NEW t, NEW base \in Seq(Segment), NEW n \in Nat, NEW j \in Nat, NEW g,
           Heeds(s, t, base, n, j, g)
    PROVE  Heeds(s, Reset(t, g), base, n, j, g)
  <1>1. CASE "RST" \notin g.flags
    BY <1>1 DEF Reset
  <1>2. CASE "RST" \in g.flags
    <2>1. Reset(t, g) = Dead(t) /\ Fit(t) /\ Ordered(t, base \o t.out, n)
      BY <1>2 DEF Reset, Heeds
    <2>2. /\ Ordered(Dead(t), base \o t.out, n) /\ Dead(t).rel = t.rel
          /\ Dead(t).out = t.out /\ Dead(t).st = "Closed" /\ Fit(Dead(t))
      BY <2>1, OrderedDies, DeadFits
    <2>3. ~Awaits(Dead(t))
      BY <2>2 DEF Awaits
    <2> HIDE DEF Dead
    <2> QED BY <2>1, <2>2, <2>3 DEF Heeds
  <1> QED BY <1>1, <1>2

LEMMA HeedsDies ==
    ASSUME NEW s, Fit(s), NEW base \in Seq(Segment), NEW n \in Nat, NEW j \in Nat,
           NEW g \in Segment, Ordered(s, base \o s.out, n)
    PROVE  Heeds(s, Dead(s), base, n, j, g)
  <1>1. /\ Ordered(Dead(s), base \o s.out, n) /\ Dead(s).rel = s.rel
        /\ Dead(s).out = s.out /\ Dead(s).st = "Closed" /\ Fit(Dead(s))
    BY OrderedDies, DeadFits
  <1>2. ~Awaits(Dead(s)) /\ s.rel <= s.rel
    BY <1>1, FitNumbers DEF Awaits
  <1> QED BY <1>1, <1>2 DEF Heeds

\* The answer to a SYN opens the connection.
LEMMA SynSentHeeds ==
    ASSUME NEW s, Fit(s), NEW base \in Seq(Segment), NEW n \in Nat, NEW j \in Nat,
           NEW g \in Segment, Ordered(s, base \o s.out, n), Says(s, g, j, n),
           s.tcp = "SynSent", n = 0, s.rel = 0, s.wr = 0
    PROVE  Heeds(s, InSynSent(s, g, TRUE), base, n, j, g)
  <1> DEFINE first == (g.seq + 1) % SeqMod
             u == [s EXCEPT !.ack = (g.seq + 1) % SeqMod, !.seq = g.ack, !.una = g.ack,
                            !.win = g.win, !.tcp = "Established", !.st = "Connected",
                            !.armed = FALSE]
             t == SendFlags(u, {"ACK"}, TRUE)
  <1>1. CASE ~({"SYN", "ACK"} \subseteq g.flags)
    <2>1. InSynSent(s, g, TRUE) = Reset(s, g)
      BY <1>1 DEF InSynSent
    <2> QED BY <2>1, HeedsSelf, HeedsReset
  <1>2. CASE {"SYN", "ACK"} \subseteq g.flags
    <2>1. s \in SockRecord /\ s.out \in Seq(Segment) /\ g.ack \in Num /\ g.win \in Nat /\ g.seq \in Int
      BY DEF Fit, SockRecord, Segment, Num
    <2>2. s.st = "Connecting"
      BY <2>1 DEF Fit, Agree, SockRecord, SockState
    <2>3. first \in Num
      BY <2>1, ModNum
    <2>4. u = [s EXCEPT !.ack = first, !.seq = g.ack, !.una = g.ack, !.win = g.win,
                        !.tcp = "Established", !.st = "Connected", !.armed = FALSE]
      OBVIOUS
    <2>5. InSynSent(s, g, TRUE) = t
      BY <1>2 DEF InSynSent
    <2> HIDE DEF u, first, t
    <2>6. /\ u \in SockRecord /\ u.st = "Connected" /\ u.tcp = "Established" /\ u.wr = 0
          /\ u.rel = 0 /\ u.out = s.out /\ u.rx = s.rx /\ u.seq = g.ack /\ u.una = g.ack
          /\ u.win = g.win
      BY <2>1, <2>3, <2>4 DEF SockRecord, SockState, TcpState
    <2>7. Fit(u)
      BY <2>6 DEF Fit, Agree
    <2>8. j = 0 /\ g.ack = Mine(1 + 0) /\ "ACK" \in g.flags
      BY <1>2, <2>2 DEF Says, Awaits
    <2>9. Lasts(s) /\ TxAvailable(s) = 0 /\ TxAvailable(u) = 0
      BY <2>2, <2>6 DEF Lasts, TxAvailable
    <2>10. Sending(base \o s.out, 0, 0) /\ Based(s, base \o s.out, 0)
      <3>1. PICK k \in 0..TxAvailable(s) : Paced(s, base \o s.out, n, k)
        BY <2>9 DEF Ordered
      <3>2. k = 0
        BY <2>9
      <3> QED BY <3>1, <3>2 DEF Paced, Ordered
    <2>11. Based(u, base \o s.out, 0)
      BY <2>6, <2>8, <2>9, <2>10, EndpointAssumption DEF Based
    <2>12. Paced(u, base \o s.out, 0, 0) /\ u.seq = Mine(1 + u.rel + 0)
      BY <2>6, <2>8, <2>1, <2>10 DEF Paced
    <2>13. Ordered(u, base \o u.out, 0)
      <3>1. 0 \in 0..TxAvailable(u)
        BY <2>9
      <3> QED BY <2>6, <2>11, <2>12, <3>1 DEF Ordered
    <2>14. /\ Fit(t) /\ SameSender(u, t) /\ t.tcp = "Established"
           /\ Milder(base \o u.out, base \o t.out, 0)
      BY <2>6, <2>7, AckSent DEF t
    <2>15. Ordered(t, base \o t.out, 0)
      BY <2>7, <2>13, <2>14, OrderedKeeps
    <2>16. t.rel = 0 /\ t.st = "Connected" /\ t.win = g.win
      BY <2>6, <2>14 DEF SameSender
    <2>17. Edge(t) <= Told(s, g, j)
      BY <2>1, <2>8, <2>14, <2>16 DEF Edge, Told
    <2>18. Fins(base \o t.out) => Fins(base \o s.out)
      BY <2>6, <2>14 DEF Milder
    <2>19. s.rel <= t.rel /\ t.rel <= j /\ t.rel = s.rel /\ Ordered(t, base \o t.out, n)
      BY <2>8, <2>15, <2>16
    <2> HIDE DEF InSynSent
    <2> QED BY <2>5, <2>14, <2>17, <2>18, <2>19, Zenon DEF Heeds
  <1> QED BY <1>1, <1>2

\* What follows concerns the peer's stream only, and is acknowledged.
LEMMA HeedsAcks ==
    ASSUME NEW s, NEW t, NEW base \in Seq(Segment), NEW n \in Nat, NEW j \in Nat,
           NEW g \in Segment, Fit(s), Heeds(s, t, base, n, j, g), NEW u, Fit(u), SameSender(t, u),
           u.out = t.out, u.tcp # "SynReceived", u.tcp = "Established" => t.tcp = "Established"
    PROVE  /\ Heeds(s, SendFlags(u, {"ACK"}, TRUE), base, n, j, g)
           /\ SendFlags(u, {"ACK"}, TRUE).tcp = u.tcp
  <1> DEFINE v == SendFlags(u, {"ACK"}, TRUE)
  <1>1. /\ Fit(v) /\ SameSender(u, v) /\ v.tcp = u.tcp
        /\ Milder(base \o u.out, base \o v.out, n)
    BY AckSent
  <1> HIDE DEF v
  <1>2. SameSender(t, v)
    BY <1>1 DEF SameSender
  <1>3. Ordered(v, base \o v.out, n)
    BY <1>1, <1>2, OrderedKeeps DEF Heeds
  <1>4. Fins(base \o v.out) => Fins(base \o s.out)
    BY <1>1 DEF Milder, Heeds
  <1>5. v.rel = t.rel /\ v.st = t.st /\ (Awaits(v) <=> Awaits(t))
    BY <1>2 DEF SameSender, Awaits
  <1>6. Edge(v) <= Edge(t)
    <2>1. Edge(t) \in Nat
      BY EdgeIsNat DEF Heeds
    <2> QED BY <1>1, <1>2, <2>1 DEF Edge, SameSender
  <1>7. Awaits(v) => Edge(v) <= Told(s, g, j)
    <2>1. Edge(v) \in Nat /\ Edge(t) \in Nat /\ Edge(s) \in Nat
      BY <1>1, EdgeIsNat DEF Heeds
    <2>2. Told(s, g, j) \in Nat
      BY <2>1 DEF Told, Segment
    <2>3. Awaits(v) => Edge(t) <= Told(s, g, j)
      BY <1>5 DEF Heeds
    <2> QED BY <1>6, <2>1, <2>2, <2>3
  <1>8. Heeds(s, v, base, n, j, g)
    BY <1>1, <1>3, <1>4, <1>5, <1>7 DEF Heeds
  <1> QED BY <1>1, <1>8 DEF v

LEMMA TakenFits ==
    ASSUME NEW s, Fit(s), NEW g \in Segment
    PROVE  /\ Fit(Taken(s, g)) /\ SameSender(s, Taken(s, g)) /\ Taken(s, g).tcp = s.tcp
           /\ Taken(s, g).out = s.out
  <1> DEFINE n == Stored(s, g)
             new == SubSeq(g.data, 1, n)
             next == (s.ack + AckAdvance(s, g)) % SeqMod
             u == Taken(s, g)
  <1>1. /\ s \in SockRecord /\ s.rx \in Seq(Nat) /\ Len(s.rx) \in Nat /\ Len(s.rx) <= RxBuf
        /\ g.data \in Seq(Nat) /\ Len(g.data) \in Nat /\ RxBuf \in Nat /\ s.ack \in Int
    BY SMTT(30), EndpointAssumption DEF SockRecord, Segment, Fit, Num
  <1>2. n \in Nat /\ n <= Len(g.data) /\ Len(s.rx) + n <= RxBuf
    <2>1. RxFree(s) \in Nat /\ RxFree(s) = RxBuf - Len(s.rx)
      BY <1>1 DEF RxFree
    <2>2. n \in Nat /\ n <= Len(g.data) /\ n <= RxFree(s)
      BY <1>1, <2>1, LesserBounds DEF Stored
    <2> HIDE DEF n
    <2> QED BY <1>1, <2>1, <2>2
  <1>3. new \in Seq(Nat) /\ Len(new) = n
    BY <1>1, <1>2, TakeShape
  <1>4. next \in Num
    <2>1. AckAdvance(s, g) = n
      BY DEF AckAdvance
    <2>2. s.ack + n \in Int
      BY <1>1, <1>2
    <2> QED BY <2>1, <2>2, ModNum
  <1>5. u = [s EXCEPT !.rx = s.rx \o new, !.ack = next]
    BY <1>1 DEF SockRecord, Taken
  <1> HIDE DEF n, new, next, u
  <1>6. s.rx \o new \in Seq(Nat) /\ Len(s.rx \o new) = Len(s.rx) + n
    BY <1>1, <1>3, JoinShape
  <1>7. /\ u \in SockRecord /\ u.rx = s.rx \o new /\ u.st = s.st /\ u.tcp = s.tcp /\ u.wr = s.wr
        /\ u.rel = s.rel /\ u.out = s.out /\ u.una = s.una /\ u.seq = s.seq /\ u.win = s.win
    BY <1>1, <1>4, <1>5, <1>6 DEF SockRecord
  <1>8. Fit(u)
    BY <1>1, <1>2, <1>6, <1>7 DEF Fit, Agree
  <1> QED BY <1>7, <1>8 DEF SameSender, u

LEMMA EndedFits ==
    ASSUME NEW s, Fit(s), s.tcp = "Established"
    PROVE  /\ Fit(Ended(s)) /\ SameSender(s, Ended(s)) /\ Ended(s).tcp = "CloseWait"
           /\ Ended(s).out = s.out
  <1> DEFINE next == (s.ack + 1) % SeqMod
             u == Ended(s)
  <1>1. s \in SockRecord /\ s.st = "Connected"
    BY ConnectedWhenEstablished DEF Fit
  <1>2. next \in Num
    <2>1. s.ack + 1 \in Int
      BY <1>1 DEF SockRecord, Num
    <2> QED BY <2>1, ModNum
  <1>3. u = [s EXCEPT !.ack = next, !.finRecvd = TRUE, !.tcp = "CloseWait"]
    BY <1>1 DEF SockRecord, Ended
  <1> HIDE DEF next, u
  <1>4. /\ u \in SockRecord /\ u.rx = s.rx /\ u.st = s.st /\ u.tcp = "CloseWait" /\ u.wr = s.wr
        /\ u.rel = s.rel /\ u.out = s.out /\ u.una = s.una /\ u.seq = s.seq /\ u.win = s.win
    BY <1>1, <1>2, <1>3 DEF SockRecord, TcpState
  <1>5. Fit(u)
    BY <1>1, <1>4 DEF Fit, Agree
  <1> QED BY <1>4, <1>5 DEF SameSender, u

\* What a segment acknowledges, and its window w, are taken.
LEMMA AckHeeds ==
    ASSUME NEW s, Fit(s), NEW base \in Seq(Segment), NEW n \in Nat, NEW j \in Nat,
           NEW g \in Segment, Ordered(s, base \o s.out, n), Says(s, g, j, n),
           s.st = "Connected", "ACK" \in g.flags, NEW w \in Nat,
           \/ s.tcp = "Established" /\ w = g.win
           \/ s.tcp = "CloseWait" /\ w = s.win
    PROVE  LET t == [ProcessAck(s, g) EXCEPT !.win = w]
           IN Heeds(s, t, base, n, j, g) /\ t.tcp = s.tcp
  <1> DEFINE p == ProcessAck(s, g)
             t == [p EXCEPT !.win = w]
  <1>1. /\ s.rel \in Nat /\ s.wr \in Nat /\ s.win \in Nat /\ g.win \in Nat
        /\ s.wr - s.rel <= TxBuf /\ TxBuf \in Nat /\ s.rel <= s.wr /\ Len(s.rx) <= RxBuf
    BY FitNumbers, EndpointAssumption DEF Segment, Fit
  <1>2. s.rel <= j /\ j <= n /\ g.ack = Mine(1 + j) /\ Edge(s) <= j + g.win
    BY DEF Says, Awaits
  <1>3. n <= s.wr
    BY SentBounds
  <1>4. s.una = Mine(1 + s.rel) /\ j <= s.wr
    BY <1>1, <1>2, <1>3 DEF Ordered, Based
  <1>5. /\ p.rel = j /\ p.una = Mine(1 + j) /\ p.seq = s.seq /\ p.wr = s.wr /\ p.st = s.st
        /\ p.tcp = s.tcp /\ p.win = s.win /\ p.out = s.out /\ p \in SockRecord
    BY <1>2, <1>4, AckedTo
  <1>6. p.rx = s.rx
    <2>1. s \in SockRecord
      BY DEF Fit
    <2> QED BY <2>1 DEF ProcessAck, SockRecord
  <1> HIDE DEF p
  <1>7. /\ t.rel = j /\ t.una = Mine(1 + j) /\ t.seq = s.seq /\ t.wr = s.wr /\ t.st = s.st
        /\ t.tcp = s.tcp /\ t.win = w /\ t.out = s.out /\ t \in SockRecord /\ t.rx = s.rx
    BY <1>5, <1>6 DEF SockRecord
  <1> HIDE DEF t
  <1>8. Fit(t)
    BY <1>1, <1>2, <1>4, <1>7 DEF Fit, Agree
  <1>9. t.win = s.win \/ s.rel + s.win <= j + t.win
    BY <1>2, <1>7 DEF Edge
  <1>10. Ordered(t, base \o t.out, n)
    <2>1. t.tcp # "SynReceived"
      BY <1>7
    <2> QED BY <1>2, <1>7, <1>9, <2>1, AckedOrdered
  <1>11. Edge(t) <= Told(s, g, j)
    BY <1>1, <1>7 DEF Edge, Told
  <1>12. t.rel <= j
    BY <1>7
  <1>13. Heeds(s, t, base, n, j, g)
    BY <1>2, <1>7, <1>8, <1>10, <1>11, <1>12 DEF Heeds
  <1> QED BY <1>7, <1>13 DEF t, p

LEMMA EstablishedHeeds ==
    ASSUME NEW s, Fit(s), NEW base \in Seq(Segment), NEW n \in Nat, NEW j \in Nat,
           NEW g \in Segment, Ordered(s, base \o s.out, n), Says(s, g, j, n),
           s.tcp = "Established"
    PROVE  Heeds(s, InEstablished(s, g, TRUE), base, n, j, g)
  <1> DEFINE s1 == IF "ACK" \in g.flags THEN [ProcessAck(s, g) EXCEPT !.win = g.win] ELSE s
             s2 == IF DataInSequence(s1, g) THEN SendFlags(Taken(s1, g), {"ACK"}, TRUE) ELSE s1
             s3 == IF FinInSequence(s2, g) THEN SendFlags(Ended(s2), {"ACK"}, TRUE) ELSE s2
  <1>0. InEstablished(s, g, TRUE) = Reset(s3, g)
    BY Zenon DEF InEstablished, Taken, Ended
  <1>1. s.st = "Connected"
    BY ConnectedWhenEstablished
  <1>2. Heeds(s, s1, base, n, j, g) /\ s1.tcp = "Established"
    <2>1. CASE "ACK" \notin g.flags
      BY <2>1, HeedsSelf
    <2>2. CASE "ACK" \in g.flags
      <3>1. g.win \in Nat
        BY DEF Segment
      <3>2. LET t == [ProcessAck(s, g) EXCEPT !.win = g.win]
            IN Heeds(s, t, base, n, j, g) /\ t.tcp = s.tcp
        BY <1>1, <2>2, <3>1, AckHeeds
      <3> QED BY <2>2, <3>2
    <2> QED BY <2>1, <2>2
  <1> HIDE DEF s1
  <1>3. Fit(s1)
    BY <1>2 DEF Heeds
  <1>4. Heeds(s, s2, base, n, j, g) /\ s2.tcp = "Established"
    <2>1. CASE DataInSequence(s1, g)
      <3>1. /\ Fit(Taken(s1, g)) /\ SameSender(s1, Taken(s1, g)) /\ Taken(s1, g).tcp = s1.tcp
            /\ Taken(s1, g).out = s1.out
        BY <1>3, TakenFits
      <3> DEFINE u == Taken(s1, g)
      <3> HIDE DEF u
      <3>2. Heeds(s, SendFlags(u, {"ACK"}, TRUE), base, n, j, g)
            /\ SendFlags(u, {"ACK"}, TRUE).tcp = u.tcp
        BY ZenonT(60), <1>2, <3>1, HeedsAcks DEF u
      <3> QED BY <1>2, <2>1, <3>1, <3>2 DEF u
    <2>2. CASE ~DataInSequence(s1, g)
      BY <1>2, <2>2
    <2> QED BY <2>1, <2>2
  <1> HIDE DEF s2
  <1>5. Fit(s2)
    BY <1>4 DEF Heeds
  <1>6. Heeds(s, s3, base, n, j, g)
    <2>1. CASE FinInSequence(s2, g)
      <3>1. /\ Fit(Ended(s2)) /\ SameSender(s2, Ended(s2)) /\ Ended(s2).tcp = "CloseWait"
            /\ Ended(s2).out = s2.out
        BY <1>4, <1>5, EndedFits
      <3> DEFINE u == Ended(s2)
      <3> HIDE DEF u
      <3>2. Heeds(s, SendFlags(u, {"ACK"}, TRUE), base, n, j, g)
        BY <1>4, <3>1, HeedsAcks DEF u
      <3> QED BY <2>1, <3>2 DEF u
    <2>2. CASE ~FinInSequence(s2, g)
      BY <1>4, <2>2
    <2> QED BY <2>1, <2>2
  <1> HIDE DEF s3
  <1>7. Heeds(s, Reset(s3, g), base, n, j, g)
    BY <1>6, HeedsReset
  <1> QED BY <1>0, <1>7, Zenon

\* In CLOSE_WAIT only the acknowledgment of a segment is looked at.
LEMMA CloseWaitHeeds ==
    ASSUME NEW s, Fit(s), NEW base \in Seq(Segment), NEW n \in Nat, NEW j \in Nat,
           NEW g \in Segment, Ordered(s, base \o s.out, n), Says(s, g, j, n),
           s.tcp = "CloseWait"
    PROVE  Heeds(s, InCloseWait(s, g), base, n, j, g)
  <1>1. CASE "ACK" \notin g.flags
    <2>1. InCloseWait(s, g) = s
      BY <1>1 DEF InCloseWait
    <2> QED BY <2>1, HeedsSelf
  <1>2. CASE "ACK" \in g.flags
    <2> DEFINE p == ProcessAck(s, g)
    <2>1. s.st = "Connected" /\ s.win \in Nat /\ s \in SockRecord
      BY FitNumbers DEF Fit, Agree, SockRecord, SockState
    <2>2. LET t == [ProcessAck(s, g) EXCEPT !.win = s.win]
          IN Heeds(s, t, base, n, j, g) /\ t.tcp = s.tcp
      BY <1>2, <2>1, AckHeeds
    <2>3. p.win = s.win /\ p = [p EXCEPT !.win = s.win]
      BY <2>1 DEF ProcessAck, SockRecord
    <2>4. Heeds(s, p, base, n, j, g)
      BY <2>2, <2>3
    <2> QED BY <1>2, <2>4 DEF InCloseWait
  <1> QED BY <1>1, <1>2

\* A closing socket has nothing left in its tx ring, and sends only again what it
\* sent.
LEMMA GoneHeeds ==
    ASSUME NEW s, Fit(s), NEW base \in Seq(Segment), NEW n \in Nat, NEW j \in Nat,
           NEW g \in Segment, Ordered(s, base \o s.out, n), s.st = "Closing",
           NEW t, Fit(t), t.st \in {"Closing", "Closed"}, t.tcp # "SynReceived",
           t.una = s.una, t.rel = s.rel, t.wr = s.wr,
           Milder(base \o s.out, base \o t.out, n)
    PROVE  Heeds(s, t, base, n, j, g)
  <1>1. s.rel <= s.rel /\ s.rel \in Nat /\ ~Awaits(t) /\ TxAvailable(t) = TxAvailable(s)
    BY FitNumbers DEF Awaits, TxAvailable
  <1>2. Based(t, base \o t.out, n)
    BY DEF Ordered, Based, Milder, Syns
  <1>3. Lasts(t) => \E k \in 0..TxAvailable(t) :
            Paced(t, base \o t.out, n, k) /\ (t.st = "Connected" => t.seq = Mine(1 + t.rel + k))
    <2>1. PICK k \in 0..TxAvailable(s) : Paced(s, base \o s.out, n, k)
      BY DEF Ordered, Lasts
    <2>2. s.rel + k \in Nat
      BY <1>1
    <2>3. Sending(base \o t.out, n, s.rel + k)
      BY <2>1, <2>2 DEF Paced, Milder
    <2>4. Paced(t, base \o t.out, n, k)
      BY <2>1, <2>3 DEF Paced
    <2> QED BY <1>1, <2>4
  <1>4. Ordered(t, base \o t.out, n)
    BY <1>2, <1>3 DEF Ordered
  <1>5. Fins(base \o t.out) => Fins(base \o s.out)
    BY DEF Milder
  <1> QED BY <1>1, <1>4, <1>5 DEF Heeds

\* The socket t is s, closed a little further.
ClosesOn(s, t, base, n) ==
    /\ Fit(t) /\ t.st = "Closing" /\ t.tcp # "SynReceived" /\ t.una = s.una
    /\ t.rel = s.rel /\ t.wr = s.wr /\ Milder(base \o s.out, base \o t.out, n)

LEMMA FinTakenGone ==
    ASSUME NEW s, Fit(s), s.st = "Closing", NEW base \in Seq(Segment), NEW n \in Nat,
           NEW g \in Segment, NEW m \in BOOLEAN,
           NEW t, t = SendFlags(FinTaken(s, g, m), {"ACK"}, TRUE)
    PROVE  ClosesOn(s, t, base, n)
  <1> DEFINE next == (g.seq + 1) % SeqMod
             u == FinTaken(s, g, m)
  <1>1. s \in SockRecord /\ g.seq \in Int
    BY DEF Fit, Segment
  <1>2. next \in Num
    <2>1. g.seq + 1 \in Int
      BY <1>1
    <2> QED BY <2>1, ModNum
  <1>3. u = [s EXCEPT !.ack = next, !.tcp = "TimeWait", !.armed = m]
    BY DEF FinTaken
  <1>0. t = SendFlags(u, {"ACK"}, TRUE)
    OBVIOUS
  <1> HIDE DEF next, u
  <1>4. /\ u \in SockRecord /\ u.st = "Closing" /\ u.tcp = "TimeWait" /\ u.rx = s.rx
        /\ u.wr = s.wr /\ u.rel = s.rel /\ u.una = s.una /\ u.out = s.out
    BY <1>1, <1>2, <1>3 DEF SockRecord, TcpState
  <1>5. Fit(u)
    BY <1>4, ClosingFits
  <1>6. /\ Fit(t) /\ SameSender(u, t) /\ t.tcp = u.tcp /\ Milder(base \o u.out, base \o t.out, n)
    BY <1>0, <1>5, AckSent
  <1> QED BY <1>4, <1>6 DEF SameSender, ClosesOn

\* With an empty tx ring no acknowledgment releases anything.
LEMMA NothingToAck ==
    ASSUME NEW s, Fit(s), s.rel = s.wr, NEW g \in Segment PROVE ProcessAck(s, g) = s
  <1>1. TxAvailable(s) = 0
    BY FitNumbers DEF TxAvailable
  <1>2. AckedBytes(s, g) \in Int
    <2>1. g.ack \in Int /\ s.una \in Int
      BY FitNumbers DEF Segment
    <2>2. (g.ack - s.una) % SeqMod \in Int
      BY <2>1, ModNum DEF Num
    <2> QED BY <2>2, EndpointAssumption DEF AckedBytes, Distance
  <1> DEFINE acked == AckedBytes(s, g)
  <1> HIDE DEF acked
  <1>3. ~Acceptable(s, acked)
    BY <1>1, <1>2 DEF Acceptable, acked
  <1> QED BY <1>3 DEF ProcessAck, acked

LEMMA FinWait1Heeds ==
    ASSUME NEW s, Fit(s), NEW base \in Seq(Segment), NEW n \in Nat, NEW j \in Nat,
           NEW g \in Segment, Ordered(s, base \o s.out, n), s.tcp = "FinWait1", s.rel = s.wr
    PROVE  Heeds(s, InFinWait1(s, g, TRUE), base, n, j, g)
  <1> DEFINE s1 == IF "ACK" \in g.flags THEN ProcessAck(s, g) ELSE s
             acked == "ACK" \in g.flags /\ s1.finSent /\ g.ack = s1.seq
             s2 == IF acked THEN [s1 EXCEPT !.finAcked = TRUE, !.tcp = "FinWait2"] ELSE s1
             fin == "FIN" \in g.flags /\ (acked \/ (~s2.finAcked /\ g.seq = s2.ack))
             u == [s2 EXCEPT !.ack = (g.seq + 1) % SeqMod, !.tcp = "TimeWait"]
  <1>0. InFinWait1(s, g, TRUE) = IF fin THEN SendFlags(u, {"ACK"}, TRUE) ELSE s2
    BY Zenon DEF InFinWait1
  <1>1. s.st = "Closing" /\ s \in SockRecord
    BY ClosingWhenFinWait DEF Fit
  <1>2. s1 = s
    BY NothingToAck
  <1> HIDE DEF s1
  <1>3. /\ Fit(s2) /\ s2.st = "Closing" /\ s2.tcp \in {"FinWait1", "FinWait2"} /\ s2.una = s.una
        /\ s2.rel = s.rel /\ s2.wr = s.wr /\ s2.out = s.out
    <2>1. CASE ~acked
      BY <1>1, <1>2, <2>1
    <2>2. CASE acked
      <3>1. s2 = [s EXCEPT !.finAcked = TRUE, !.tcp = "FinWait2"]
        BY <1>2, <2>2
      <3> HIDE DEF s2
      <3>2. /\ s2 \in SockRecord /\ s2.st = "Closing" /\ s2.rx = s.rx /\ s2.wr = s.wr
            /\ s2.rel = s.rel /\ s2.tcp = "FinWait2" /\ s2.una = s.una /\ s2.out = s.out
        BY <1>1, <3>1 DEF SockRecord, TcpState
      <3>3. Fit(s2)
        BY <1>1, <3>2, ClosingFits
      <3> QED BY <3>2, <3>3
    <2> QED BY <2>1, <2>2
  <1> HIDE DEF s2
  <1>4. CASE ~fin
    <2>1. InFinWait1(s, g, TRUE) = s2
      BY <1>0, <1>4
    <2>2. Milder(base \o s.out, base \o s2.out, n)
      BY <1>3, MilderSelf
    <2>3. Heeds(s, s2, base, n, j, g)
      BY <1>1, <1>3, <2>2, GoneHeeds
    <2> QED BY <2>1, <2>3, Zenon
  <1>5. CASE fin
    <2>1. s2 \in SockRecord /\ s2.armed \in BOOLEAN
      BY <1>3 DEF Fit, SockRecord
    <2>2. u = FinTaken(s2, g, s2.armed)
      BY <2>1 DEF FinTaken, SockRecord
    <2> HIDE DEF u
    <2> DEFINE t == SendFlags(u, {"ACK"}, TRUE)
    <2>3. ClosesOn(s2, t, base, n)
      <3> DEFINE m == s2.armed
      <3>1. m \in BOOLEAN
        BY <2>1
      <3>2. t = SendFlags(FinTaken(s2, g, m), {"ACK"}, TRUE)
        BY <2>2
      <3> HIDE DEF m, t
      <3> QED BY <1>3, <3>1, <3>2, FinTakenGone
    <2>4. InFinWait1(s, g, TRUE) = t
      BY <1>0, <1>5
    <2> HIDE DEF t
    <2>5. Heeds(s, t, base, n, j, g)
      BY <1>1, <1>3, <2>3, GoneHeeds DEF ClosesOn
    <2> QED BY <2>4, <2>5, Zenon
  <1> QED BY <1>4, <1>5

LEMMA FinWait2Heeds ==
    ASSUME NEW s, Fit(s), NEW base \in Seq(Segment), NEW n \in Nat, NEW j \in Nat,
           NEW g \in Segment, Ordered(s, base \o s.out, n), Says(s, g, j, n), s.tcp = "FinWait2"
    PROVE  Heeds(s, InFinWait2(s, g, TRUE), base, n, j, g)
  <1>1. s.st = "Closing"
    BY ClosingWhenFinWait
  <1>2. CASE "FIN" \in g.flags /\ g.seq = s.ack
    <2> DEFINE t == SendFlags(FinTaken(s, g, TRUE), {"ACK"}, TRUE)
    <2>1. InFinWait2(s, g, TRUE) = t
      BY <1>2 DEF InFinWait2, FinTaken
    <2>2. ClosesOn(s, t, base, n)
      BY <1>1, FinTakenGone
    <2> HIDE DEF t
    <2>3. Heeds(s, t, base, n, j, g)
      BY <1>1, <2>2, GoneHeeds DEF ClosesOn
    <2> QED BY <2>1, <2>3, Zenon
  <1>3. CASE ~("FIN" \in g.flags /\ g.seq = s.ack)
    BY <1>3, HeedsSelf DEF InFinWait2
  <1> QED BY <1>2, <1>3

\* A segment handed to a socket.
LEMMA InputHeeds ==
    ASSUME NEW s, Fit(s), NEW base \in Seq(Segment), NEW n \in Nat, NEW j \in Nat,
           NEW g \in Segment, Ordered(s, base \o s.out, n), Says(s, g, j, n),
           s.st = "Closing" => s.rel = s.wr,
           s.st = "Connecting" => n = 0 /\ s.rel = 0 /\ s.wr = 0
    PROVE  Heeds(s, TcpInput(s, g, TRUE), base, n, j, g)
  <1>1. CASE s.tcp = "SynSent"
    <2>1. s.st = "Connecting"
      BY <1>1 DEF Fit, Agree, SockRecord, SockState
    <2>2. Heeds(s, InSynSent(s, g, TRUE), base, n, j, g)
      BY <1>1, <2>1, SynSentHeeds
    <2> QED BY <1>1, <2>2 DEF TcpInput
  <1>2. CASE s.tcp = "Established"
    <2>1. Heeds(s, InEstablished(s, g, TRUE), base, n, j, g)
      BY <1>2, EstablishedHeeds
    <2> QED BY <1>2, <2>1 DEF TcpInput
  <1>3. CASE s.tcp = "FinWait1"
    <2>1. Heeds(s, InFinWait1(s, g, TRUE), base, n, j, g)
      BY <1>3, FinWait1Heeds, ClosingWhenFinWait
    <2> QED BY <1>3, <2>1 DEF TcpInput
  <1>4. CASE s.tcp = "FinWait2"
    <2>1. Heeds(s, InFinWait2(s, g, TRUE), base, n, j, g)
      BY <1>4, FinWait2Heeds
    <2> QED BY <1>4, <2>1 DEF TcpInput
  <1>5. CASE s.tcp = "CloseWait"
    <2>1. Heeds(s, InCloseWait(s, g), base, n, j, g)
      BY <1>5, CloseWaitHeeds
    <2> QED BY <1>5, <2>1 DEF TcpInput
  <1>6. CASE s.tcp = "LastAck"
    <2>1. Heeds(s, InLastAck(s, g), base, n, j, g)
      BY HeedsSelf, HeedsDies DEF InLastAck
    <2> QED BY <1>6, <2>1 DEF TcpInput
  <1>7. CASE s.tcp \notin {"SynSent", "Established", "FinWait1", "FinWait2", "CloseWait",
                           "LastAck"}
    <2>1. TcpInput(s, g, TRUE) = s
      BY <1>7 DEF TcpInput, Ordered, Based
    <2> QED BY <2>1, HeedsSelf
  <1> QED BY <1>1, <1>2, <1>3, <1>4, <1>5, <1>6, <1>7

----------------------------------------------------------------------------
(* The socket sends.                                                       *)

LEMMA OrderedMore ==
    ASSUME NEW s, Fit(s), NEW q \in Seq(Segment), NEW f \in Segment, NEW n \in Nat,
           Based(s, q, n), "SYN" \in f.flags => f.seq = Iss, NEW t, SameStream(s, t),
           NEW top \in Nat, Sending(Append(q, f), n, top),
           Lasts(s) => \E k \in 0..TxAvailable(s) :
                          /\ Paced(s, Append(q, f), n, k)
                          /\ s.st = "Connected" => t.seq = Mine(1 + s.rel + k)
    PROVE  Ordered(t, Append(q, f), n)
  <1> DEFINE r == Append(q, f)
  <1>1. /\ t.st = s.st /\ t.tcp = s.tcp /\ t.una = s.una /\ t.win = s.win /\ t.rel = s.rel
        /\ TxAvailable(t) = TxAvailable(s) /\ (Lasts(t) <=> Lasts(s))
    BY DEF SameStream, TxAvailable, Lasts
  <1>2. Syns(r)
    <2>1. Syns(q)
      BY DEF Based, Syns
    <2> QED BY <2>1, SynsAppend
  <1> HIDE DEF r
  <1>3. Based(t, r, n)
    BY <1>1, <1>2 DEF Based, Syns, r
  <1>4. ASSUME Lasts(t)
        PROVE  \E k \in 0..TxAvailable(t) :
                  Paced(t, r, n, k) /\ (t.st = "Connected" => t.seq = Mine(1 + t.rel + k))
    <2>1. PICK k \in 0..TxAvailable(s) :
              Paced(s, r, n, k) /\ (s.st = "Connected" => t.seq = Mine(1 + s.rel + k))
      BY <1>1, <1>4 DEF r
    <2>2. Paced(t, r, n, k)
      BY <1>1, <2>1 DEF Paced
    <2> QED BY <1>1, <2>1, <2>2
  <1>5. Ordered(t, r, n)
    BY <1>3, <1>4 DEF Ordered
  <1> QED BY <1>5 DEF r

\* A frame with nothing in it goes out.
LEMMA BareSent ==
    ASSUME NEW s, Fit(s), NEW q \in Seq(Segment), NEW f \in Segment, NEW n \in Nat,
           Ready(s, q, n), s.st # "Connected", ~Carries(f), "SYN" \in f.flags => f.seq = Iss,
           NEW t, SameStream(s, t)
    PROVE  Ordered(t, Append(q, f), n)
  <1>1. Based(s, q, n)
    BY DEF Ready
  <1>2. PICK top \in Nat : Sending(q, n, top)
    BY <1>1 DEF Based
  <1>3. Sending(Append(q, f), n, top)
    BY <1>2, SendingPlain
  <1>4. Lasts(s) => \E k \in 0..TxAvailable(s) : Paced(s, Append(q, f), n, k)
    <2>1. SUFFICES ASSUME Lasts(s) PROVE \E k \in 0..TxAvailable(s) : Paced(s, Append(q, f), n, k)
      OBVIOUS
    <2>2. PICK k \in 0..TxAvailable(s) : Paced(s, q, n, k)
      BY <2>1 DEF Ready
    <2>3. s.rel + k \in Nat
      BY FitNumbers
    <2>4. Sending(Append(q, f), n, s.rel + k)
      BY <2>2, <2>3, SendingPlain DEF Paced
    <2>5. Paced(s, Append(q, f), n, k)
      BY <2>2, <2>4 DEF Paced
    <2> QED BY <2>5
  <1> QED BY <1>1, <1>3, <1>4, OrderedMore

\* Our FIN goes out, behind the last byte.
LEMMA FinSent ==
    ASSUME NEW s, Fit(s), NEW q \in Seq(Segment), NEW f \in Segment, NEW n \in Nat,
           Ready(s, q, n), s.st = "Closing", f.seq = s.seq, Len(f.data) = 0,
           "SYN" \notin f.flags, NEW t, SameStream(s, t)
    PROVE  Ordered(t, Append(q, f), n) /\ n = s.wr
  <1>1. /\ s.rel = s.wr /\ s.rel \in Nat /\ s.wr \in Nat /\ TxAvailable(s) = 0 /\ TxBuf \in Nat
    BY FitNumbers, EndpointAssumption DEF Ready, TxAvailable
  <1>2. Lasts(s) /\ Based(s, q, n)
    BY DEF Lasts, Ready
  <1>3. Paced(s, q, n, 0)
    <2>1. PICK k \in 0..TxAvailable(s) : Paced(s, q, n, k)
      BY <1>2 DEF Ready
    <2>2. k = 0
      BY <1>1
    <2> QED BY <2>1, <2>2
  <1>4. n = s.rel
    BY <1>1, <1>2, <1>3 DEF Paced, Based
  <1>5. Carried(f, n)
    <2>1. f.seq = Mine(1 + n)
      BY <1>2, <1>4 DEF Ready, Based
    <2>2. \A i \in 1..Len(f.data) : f.data[i] = n + i
      OBVIOUS
    <2> QED BY <1>1, <2>1, <2>2 DEF Carried
  <1>6. Sending(q, n, n)
    <2>1. s.rel + 0 = n
      BY <1>1, <1>4
    <2> QED BY <1>3, <2>1 DEF Paced
  <1>7. Sending(Append(q, f), n, n)
    <2>1. n \in 0..n /\ n <= n + Len(f.data) /\ n + Len(f.data) <= n /\ n <= n
      OBVIOUS
    <2> QED BY <1>5, <1>6, <2>1, SendingAppend
  <1>8. Paced(s, Append(q, f), n, 0) /\ 0 \in 0..TxAvailable(s)
    <2>1. s.rel + 0 = n
      BY <1>1, <1>4
    <2> QED BY <1>1, <1>3, <1>7, <2>1 DEF Paced
  <1>9. Ordered(t, Append(q, f), n)
    BY <1>2, <1>7, <1>8, OrderedMore
  <1> QED BY <1>1, <1>4, <1>9

\* The bytes of a segment: all the tx ring has, for it is no more than a segment
\* and what the window lets through includes what was sent before.
LEMMA BytesSent ==
    ASSUME NEW s, Fit(s), NEW q \in Seq(Segment), NEW f \in Segment, NEW n \in Nat,
           Ready(s, q, n), s.st = "Connected", f.seq = s.seq, NEW l \in Nat,
           l = Lesser(TxAvailable(s), Lesser(s.win, Mss)),
           f.data = [i \in 1..l |-> s.rel + i], "SYN" \notin f.flags, "FIN" \notin f.flags,
           NEW t, SameStream(s, t), t.seq = (s.seq + l) % SeqMod
    PROVE  Ordered(t, Append(q, f), n)
  <1>1. /\ s.rel \in Nat /\ s.wr \in Nat /\ s.win \in Nat /\ TxAvailable(s) \in Nat
        /\ TxAvailable(s) <= TxBuf /\ TxBuf \in Nat /\ Mss \in Nat
    BY FitNumbers, EndpointAssumption
  <1>2. Lasts(s) /\ Based(s, q, n) /\ s.rel <= n /\ TxAvailable(s) <= Mss
    BY DEF Lasts, Ready, Based
  <1>3. PICK k \in 0..TxAvailable(s) : Paced(s, q, n, k)
    BY <1>2 DEF Ready
  <1>4. k \in Nat /\ k <= s.win /\ n <= s.rel + k /\ Sending(q, n, s.rel + k)
    BY <1>1, <1>3 DEF Paced
  <1>5. l <= TxAvailable(s) /\ l <= s.win /\ k <= l
    BY <1>1, <1>2, <1>4 DEF Lesser
  <1>6. Len(f.data) = l /\ \A i \in 1..l : f.data[i] = s.rel + i
    BY <1>1
  <1>7. s.seq = Mine(1 + s.rel)
    BY <1>2 DEF Ready, Based
  <1>8. Carried(f, s.rel)
    BY <1>1, <1>5, <1>6, <1>7 DEF Carried
  <1>9. Sending(Append(q, f), n, s.rel + l)
    <2> DEFINE top == s.rel + k
               reach == s.rel + l
    <2>1. top \in Nat /\ reach \in Nat /\ top <= reach /\ n <= reach /\ s.rel \in 0..n
          /\ Sending(q, n, top) /\ reach <= reach
      BY SMTT(30), <1>1, <1>2, <1>4, <1>5
    <2>2. s.rel + Len(f.data) = reach
      BY <1>6
    <2> HIDE DEF top, reach
    <2>3. Sending(Append(q, f), n, reach)
      BY <1>8, <2>1, <2>2, SendingAppend
    <2> QED BY <2>3 DEF reach
  <1>10. Paced(s, Append(q, f), n, l) /\ l \in 0..TxAvailable(s)
    <2>1. n <= s.rel + l
      BY <1>1, <1>4, <1>5
    <2> QED BY <1>1, <1>5, <1>9, <2>1 DEF Paced
  <1>11. t.seq = Mine(1 + s.rel + l)
    <2>1. 1 + s.rel \in Nat
      BY <1>1
    <2>2. (Mine(1 + s.rel) + l) % SeqMod = Mine((1 + s.rel) + l)
      BY <2>1, MineAdd
    <2> QED BY <1>7, <2>2
  <1>12. s.rel + l \in Nat
    BY <1>1
  <1> QED BY <1>2, <1>9, <1>10, <1>11, <1>12, OrderedMore

\* tcpOutput from the oldest byte that was not acknowledged.
LEMMA OutputOrdered ==
    ASSUME NEW s, Fit(s), NEW base \in Seq(Segment), NEW n \in Nat,
           Ready(s, base \o s.out, n)
    PROVE  /\ Ordered(Output(s, TRUE), base \o Output(s, TRUE).out, n)
           /\ Fins(base \o Output(s, TRUE).out) => Fins(base \o s.out) \/ (s.st = "Closing" /\ n = s.wr)
  <1> DEFINE t == Output(s, TRUE)
             fl == OutputFlags(s)
             l == SendLen(s)
             f == FrameOf(s, fl, l)
             q == base \o s.out
  <1>1. l \in Nat /\ fl \in SUBSET Flag
    BY SendLenBounds, FitNumbers, OutputFlagsAreFlags
  <1>2. /\ SameStream(s, t) /\ t.out = Append(s.out, f)
        /\ t.seq = (s.seq + l + Takes(fl)) % SeqMod
    BY OutputShape
  <1>3. f \in Segment /\ f.flags = fl /\ f.seq = s.seq /\ f.data = [i \in 1..l |-> s.rel + i]
    BY <1>1, FrameIsSegment DEF FrameOf
  <1> HIDE DEF t, f
  <1>4. s.out \in Seq(Segment) /\ s \in SockRecord /\ s.seq \in Int
    BY DEF Fit, SockRecord, Num
  <1>5. base \o t.out = Append(q, f) /\ q \in Seq(Segment)
    BY <1>2, <1>3, <1>4, JoinAppend
  <1> HIDE DEF q
  <1>6. Fins(Append(q, f)) => Fins(q) \/ "FIN" \in f.flags
    BY <1>3, <1>5, FinsAppend
  <1>7. Ready(s, q, n) /\ s.tcp # "SynReceived"
    BY DEF q, Ready, Based
  <1>8. Len(f.data) = l
    BY <1>1, <1>3
  <1>9. CASE s.tcp \in {"Established", "CloseWait"}
    <2>1. s.st = "Connected"
      BY <1>4, <1>9 DEF Fit, Agree, SockRecord, SockState
    <2>2. "SYN" \notin fl /\ "FIN" \notin fl
      BY <1>9 DEF OutputFlags
    <2>3. Takes(fl) = 0
      BY <2>2 DEF Takes
    <2>4. l = Lesser(TxAvailable(s), Lesser(s.win, Mss))
      BY <1>9 DEF SendLen
    <2> HIDE DEF fl, l
    <2>5. t.seq = (s.seq + l) % SeqMod
      <3>1. s.seq + l + 0 = s.seq + l
        BY <1>1, <1>4
      <3> QED BY <1>2, <2>3, <3>1
    <2>6. Ordered(t, Append(q, f), n)
      BY <1>1, <1>2, <1>3, <1>5, <1>7, <2>1, <2>2, <2>4, <2>5, BytesSent
    <2> QED BY <1>3, <1>5, <1>6, <2>2, <2>6 DEF t, q
  <1>10. CASE s.tcp \in {"FinWait1", "LastAck"}
    <2>1. s.st = "Closing" /\ l = 0 /\ "SYN" \notin fl
      BY <1>10, ClosingWhenFinWait DEF SendLen, OutputFlags
    <2> HIDE DEF fl, l
    <2>2. Ordered(t, Append(q, f), n) /\ n = s.wr
      BY <1>2, <1>3, <1>5, <1>7, <1>8, <2>1, FinSent
    <2> QED BY <1>5, <2>1, <2>2 DEF t, q
  <1>11. CASE s.tcp \notin {"Established", "CloseWait", "FinWait1", "LastAck"}
    <2>1. s.st # "Connected" /\ l = 0 /\ "FIN" \notin fl
          /\ ("SYN" \in fl => s.tcp = "SynSent")
      BY <1>11 DEF Fit, Agree, SendLen, OutputFlags
    <2> HIDE DEF fl, l
    <2>2. ~Carries(f)
      BY <1>3, <1>8, <2>1 DEF Carries
    <2>3. "SYN" \in f.flags => f.seq = Iss
      <3>1. s.tcp = "SynSent" => s.st = "Connecting"
        BY <1>4 DEF Fit, Agree, SockRecord, SockState
      <3>2. s.st = "Connecting" => s.seq = Iss
        BY <1>7 DEF Ready, Based
      <3> QED BY <1>3, <2>1, <3>1, <3>2
    <2>4. Ordered(t, Append(q, f), n)
      BY <1>2, <1>3, <1>5, <1>7, <2>1, <2>2, <2>3, BareSent
    <2> QED BY <1>3, <1>5, <1>6, <2>1, <2>4 DEF t, q
  <1> QED BY <1>9, <1>10, <1>11

\* What a call or a timeout does, when n is what the peer has.
Sends(s, t, base, n) ==
    /\ Ordered(t, base \o t.out, n)
    /\ Fins(base \o t.out) => Fins(base \o s.out) \/ (t.st = "Closing" /\ n = t.wr)
    /\ t.rel = s.rel
    /\ Awaits(t) => Edge(t) = Edge(s)

LEMMA OutputSends ==
    ASSUME NEW s, Fit(s), NEW u, Fit(u), NEW base \in Seq(Segment), NEW n \in Nat,
           Ready(u, base \o u.out, n), u.out = s.out, u.rel = s.rel, u.tcp = s.tcp, u.win = s.win
    PROVE  Sends(s, Output(u, TRUE), base, n)
  <1> DEFINE t == Output(u, TRUE)
  <1>1. /\ Ordered(t, base \o t.out, n)
        /\ Fins(base \o t.out) => Fins(base \o u.out) \/ (u.st = "Closing" /\ n = u.wr)
    BY OutputOrdered
  <1>2. SameStream(u, t)
    BY OutputShape
  <1> HIDE DEF t
  <1>3. Sends(s, t, base, n)
    BY <1>1, <1>2 DEF Sends, SameStream, Edge
  <1> QED BY <1>3 DEF t

LEMMA TimerSends ==
    ASSUME NEW s, Fit(s), NEW base \in Seq(Segment), NEW n \in Nat,
           Ordered(s, base \o s.out, n), s.st = "Closing" => s.rel = s.wr
    PROVE  Sends(s, TimerExpired(s, TRUE), base, n)
  <1> DEFINE u == [s EXCEPT !.cnt = @ + 1, !.seq = Rewound(s), !.armed = TRUE]
  <1>1. s \in SockRecord
    BY DEF Fit
  <1>2. CASE s.tcp = "TimeWait" \/ s.cnt >= MaxRetx
    <2>1. TimerExpired(s, TRUE) = Dead(s)
      BY <1>2 DEF TimerExpired
    <2>2. /\ Ordered(Dead(s), base \o s.out, n) /\ Dead(s).rel = s.rel
          /\ Dead(s).out = s.out /\ Dead(s).st = "Closed"
      BY OrderedDies
    <2> QED BY <2>1, <2>2 DEF Sends, Awaits
  <1>3. CASE ~(s.tcp = "TimeWait" \/ s.cnt >= MaxRetx)
    <2>1. s.cnt + 1 \in 0..MaxRetx
      BY <1>1, <1>3, EndpointAssumption DEF SockRecord
    <2>2. u = [s EXCEPT !.cnt = s.cnt + 1, !.seq = s.una, !.armed = TRUE]
      BY <1>1 DEF Rewound, SockRecord
    <2>3. TimerExpired(s, TRUE) = Output(u, TRUE)
      BY <1>3 DEF TimerExpired
    <2> HIDE DEF u
    <2>4. /\ u \in SockRecord /\ u.rx = s.rx /\ u.st = s.st /\ u.tcp = s.tcp /\ u.wr = s.wr
          /\ u.rel = s.rel /\ u.out = s.out /\ u.seq = s.una /\ u.una = s.una /\ u.win = s.win
      BY <1>1, <2>1, <2>2 DEF SockRecord
    <2>5. Fit(u) /\ TxAvailable(u) = TxAvailable(s)
      BY <2>4 DEF Fit, Agree, TxAvailable
    <2>6. Ready(u, base \o u.out, n)
      <3>1. Based(u, base \o u.out, n)
        BY <2>4, <2>5 DEF Ordered, Based
      <3>2. ASSUME Lasts(u) PROVE \E k \in 0..TxAvailable(u) : Paced(u, base \o u.out, n, k)
        <4>1. PICK k \in 0..TxAvailable(s) : Paced(s, base \o s.out, n, k)
          BY <2>4, <3>2 DEF Ordered, Lasts
        <4>2. Paced(u, base \o u.out, n, k)
          BY <2>4, <4>1 DEF Paced
        <4> QED BY <2>5, <4>2
      <3> QED BY <2>4, <3>1, <3>2 DEF Ready
    <2>7. Sends(s, Output(u, TRUE), base, n)
      BY <2>4, <2>5, <2>6, OutputSends
    <2> QED BY <2>3, <2>7, Zenon
  <1> QED BY <1>2, <1>3

\* One turn of Send, or of its waiting loop when m is 0.  A socket that is closed
\* still sends an acknowledgment.
LEMMA SendTurnSends ==
    ASSUME NEW s, Fit(s), NEW base \in Seq(Segment), NEW n \in Nat,
           Ordered(s, base \o s.out, n), s.st \in {"Connected", "Closed"},
           NEW m \in Nat, m <= TxFree(s), s.st = "Connected" => TxAvailable(s) = 0 /\ m <= Mss
    PROVE  Sends(s, SendTurn(s, m, TRUE), base, n)
  <1> DEFINE u == [s EXCEPT !.wr = @ + m]
  <1>1. s \in SockRecord /\ s.wr \in Nat /\ s.rel \in Nat /\ TxBuf \in Nat /\ Mss \in Nat
    BY EndpointAssumption DEF Fit, SockRecord
  <1>2. s.wr + m \in Nat /\ s.rel <= s.wr + m /\ (s.wr + m) - s.rel <= TxBuf
    BY <1>1 DEF Fit, TxFree, TxAvailable
  <1>3. SendTurn(s, m, TRUE) = Output(u, TRUE)
    BY DEF SendTurn
  <1>4. /\ u \in SockRecord /\ u.rx = s.rx /\ u.st = s.st /\ u.tcp = s.tcp /\ u.wr = s.wr + m
        /\ u.rel = s.rel /\ u.out = s.out /\ u.seq = s.seq /\ u.una = s.una /\ u.win = s.win
    BY <1>1, <1>2 DEF SockRecord
  <1> HIDE DEF u
  <1>5. Fit(u)
    BY <1>1, <1>2, <1>4 DEF Fit, Agree
  <1>6. s.st = "Connected" => TxAvailable(u) = m
    BY <1>1, <1>4 DEF TxAvailable
  <1>7. Based(u, base \o u.out, n)
    BY <1>4, <1>6 DEF Ordered, Based
  <1>8. ASSUME Lasts(u)
        PROVE  Paced(u, base \o u.out, n, 0) /\ u.seq = u.una /\ 0 \in 0..TxAvailable(u)
    <2>1. s.st = "Connected" /\ Lasts(s)
      BY <1>4, <1>8 DEF Lasts
    <2>2. PICK k \in 0..TxAvailable(s) : Paced(s, base \o s.out, n, k) /\ s.seq = Mine(1 + s.rel + k)
      BY <2>1 DEF Ordered
    <2>3. k = 0
      BY <2>1
    <2>4. Paced(u, base \o u.out, n, 0)
      BY <1>4, <2>2, <2>3 DEF Paced
    <2>5. 1 + s.rel + 0 = 1 + s.rel
      BY <1>1
    <2>6. s.una = Mine(1 + s.rel)
      BY <2>1 DEF Ordered, Based
    <2> QED BY <1>4, <1>6, <2>1, <2>2, <2>3, <2>4, <2>5, <2>6
  <1>9. Ready(u, base \o u.out, n)
    BY <1>4, <1>7, <1>8 DEF Ready, Lasts
  <1>10. Sends(s, Output(u, TRUE), base, n)
    BY <1>4, <1>5, <1>9, OutputSends
  <1> QED BY <1>3, <1>10, Zenon

LEMMA ConnectSends ==
    ASSUME NEW s, Fit(s), NEW base \in Seq(Segment), NEW n \in Nat,
           Ordered(s, base \o s.out, n), s.st = "Bound"
    PROVE  Sends(s, ConnectStart(s, TRUE), base, n)
  <1> DEFINE u == [s EXCEPT !.st = "Connecting", !.tcp = "SynSent", !.seq = Iss, !.una = Iss,
                            !.ack = 0]
             v == SendFlags(u, {"SYN"}, TRUE)
             t == [v EXCEPT !.armed = TRUE]
             f == FrameOf(u, {"SYN"}, 0)
  <1>1. s \in SockRecord /\ Iss \in Num /\ 0 \in Num
    BY EndpointAssumption DEF Fit, Num
  <1>2. ConnectStart(s, TRUE) = t
    BY DEF ConnectStart
  <1> HIDE DEF t, v, f
  <1>3. /\ u \in SockRecord /\ u.rx = s.rx /\ u.st = "Connecting" /\ u.tcp = "SynSent"
        /\ u.wr = s.wr /\ u.rel = s.rel /\ u.out = s.out /\ u.seq = Iss /\ u.una = Iss
    BY <1>1 DEF SockRecord, SockState, TcpState
  <1> HIDE DEF u
  <1>4. Fit(u) /\ TxAvailable(u) = TxAvailable(s)
    BY <1>3 DEF Fit, Agree, TxAvailable
  <1>5. {"SYN"} \in SUBSET Flag /\ "FIN" \notin {"SYN"}
    BY DEF Flag
  <1>6. /\ Fit(v) /\ SameStream(u, v) /\ v.out = Append(u.out, f)
    BY <1>4, <1>5, SendFlagsShape DEF v, f
  <1>7. f \in Segment /\ f.flags = {"SYN"} /\ f.seq = u.seq /\ Len(f.data) = 0
    <2>1. Len([i \in 1..0 |-> u.rel + i]) = 0
      OBVIOUS
    <2> QED BY <1>4, <1>5, <2>1, FrameIsSegment DEF FrameOf, f
  <1>8. SameStream(u, t) /\ t.out = v.out
    <2>1. v \in SockRecord
      BY <1>6 DEF Fit
    <2> QED BY <1>6, <2>1 DEF SameStream, SockRecord, t
  <1>9. Ready(u, base \o u.out, n)
    <2>1. Based(u, base \o u.out, n)
      BY <1>3 DEF Ordered, Based
    <2>2. PICK k \in 0..TxAvailable(s) : Paced(s, base \o s.out, n, k)
      BY DEF Ordered, Lasts
    <2>3. Paced(u, base \o u.out, n, k)
      BY <1>3, <2>2 DEF Paced
    <2> QED BY <1>3, <1>4, <2>1, <2>2, <2>3 DEF Ready
  <1>10. ~Carries(f) /\ f.seq = Iss
    BY <1>3, <1>5, <1>7 DEF Carries
  <1>11. s.out \in Seq(Segment)
    BY <1>1 DEF SockRecord
  <1> DEFINE q == base \o s.out
  <1>12. base \o t.out = Append(q, f) /\ q \in Seq(Segment)
    BY <1>3, <1>6, <1>7, <1>8, <1>11, JoinAppend
  <1>13. Ready(u, q, n)
    BY <1>3, <1>9
  <1> HIDE DEF q
  <1>14. Ordered(t, base \o t.out, n)
    BY <1>3, <1>4, <1>7, <1>8, <1>10, <1>12, <1>13, BareSent
  <1>15. Fins(base \o t.out) => Fins(base \o s.out)
    BY <1>5, <1>7, <1>12, FinsAppend DEF q
  <1>16. t.rel = s.rel /\ Edge(t) = Edge(s)
    <2>1. s.tcp = "Closed"
      BY DEF Fit, Agree
    <2> QED BY <1>3, <1>8, <2>1 DEF SameStream, Edge
  <1>17. Sends(s, t, base, n)
    BY <1>14, <1>15, <1>16 DEF Sends
  <1> QED BY <1>2, <1>17, Zenon

\* Close sends the FIN at once; with an empty tx ring it is behind the last byte.
LEMMA CloseSends ==
    ASSUME NEW s, Fit(s), NEW base \in Seq(Segment), NEW n \in Nat,
           Ordered(s, base \o s.out, n), TxAvailable(s) = 0, s.out = <<>>
    PROVE  LET t == CloseCall(s, TRUE)
           IN /\ Ordered(t, base \o t.out, n)
              /\ Fins(base \o t.out) => Fins(base) \/ (t.st = "Closing" /\ n = t.wr)
              /\ t.st = "Closing" => t.wr = s.wr /\ t.rel = t.wr
  <1>1. s \in SockRecord /\ s.rel \in Nat /\ s.wr \in Nat /\ s.rel = s.wr
    BY DEF Fit, SockRecord, TxAvailable
  <1>2. base \o <<>> = base
    BY JoinNone
  <1>3. ASSUME NEW next \in {"FinWait1", "LastAck"}, s.st = "Connected", NEW t,
               t = [SendFlags([s EXCEPT !.tcp = next, !.st = "Closing"], {"FIN", "ACK"}, TRUE)
                       EXCEPT !.finSent = TRUE]
        PROVE  Ordered(t, base \o t.out, n) /\ t.st = "Closing" /\ n = t.wr /\ t.wr = s.wr
               /\ t.rel = t.wr
    <2> DEFINE u == [s EXCEPT !.tcp = next, !.st = "Closing"]
               v == SendFlags(u, {"FIN", "ACK"}, TRUE)
               f == FrameOf(u, {"FIN", "ACK"}, 0)
    <2>1. t = [v EXCEPT !.finSent = TRUE]
      BY <1>3
    <2> HIDE DEF v, f
    <2>2. /\ u \in SockRecord /\ u.rx = s.rx /\ u.st = "Closing" /\ u.tcp = next
          /\ u.wr = s.wr /\ u.rel = s.rel /\ u.out = <<>> /\ u.seq = s.seq /\ u.una = s.una
      BY <1>1 DEF SockRecord, SockState, TcpState
    <2> HIDE DEF u
    <2>3. Fit(u) /\ TxAvailable(u) = 0
      BY <1>1, <2>2 DEF Fit, Agree, TxAvailable
    <2>4. {"FIN", "ACK"} \in SUBSET Flag /\ "SYN" \notin {"FIN", "ACK"}
      BY DEF Flag
    <2>5. Fit(v) /\ SameStream(u, v) /\ v.out = Append(u.out, f)
      BY <2>3, <2>4, SendFlagsShape DEF v, f
    <2>6. f \in Segment /\ f.flags = {"FIN", "ACK"} /\ f.seq = u.seq /\ Len(f.data) = 0
      <3>1. Len([i \in 1..0 |-> u.rel + i]) = 0
        OBVIOUS
      <3> QED BY <2>3, <2>4, <3>1, FrameIsSegment DEF FrameOf, f
    <2>7. SameStream(u, t) /\ t.out = v.out
      <3>1. v \in SockRecord
        BY <2>5 DEF Fit
      <3> QED BY <2>1, <2>5, <3>1 DEF SameStream, SockRecord
    <2>8. base \o t.out = Append(base, f)
      <3>1. <<>> \in Seq(Segment) /\ t.out = Append(<<>>, f)
        BY <2>2, <2>5, <2>7
      <3> QED BY <1>2, <2>6, <3>1, JoinAppend
    <2>9. Ready(u, base, n)
      <3>1. PICK k \in 0..TxAvailable(s) : Paced(s, base, n, k) /\ s.seq = Mine(1 + s.rel + k)
        BY <1>2, <1>3 DEF Ordered, Lasts
      <3>2. k = 0 /\ 1 + s.rel + 0 = 1 + s.rel /\ 0 \in 0..TxAvailable(u)
        BY <1>1, <2>3
      <3>3. Based(s, base, n)
        BY <1>2 DEF Ordered
      <3>4. s.una = Mine(1 + s.rel) /\ s.seq = s.una
        BY <1>3, <3>1, <3>2, <3>3 DEF Based
      <3>5. Based(u, base, n)
        BY <2>2, <3>3, <3>4 DEF Based
      <3>6. Paced(u, base, n, 0)
        BY <2>2, <3>1, <3>2 DEF Paced
      <3> QED BY <1>1, <2>2, <3>2, <3>4, <3>5, <3>6 DEF Ready
    <2>10. Ordered(t, Append(base, f), n) /\ n = u.wr
      BY <2>2, <2>3, <2>4, <2>6, <2>7, <2>9, FinSent
    <2> QED BY <1>1, <2>2, <2>7, <2>8, <2>10 DEF SameStream
  <1>4. CASE s.tcp = "Established"
    <2> DEFINE t == CloseCall(s, TRUE)
    <2>1. t = [SendFlags([s EXCEPT !.tcp = "FinWait1", !.st = "Closing"], {"FIN", "ACK"}, TRUE)
                  EXCEPT !.finSent = TRUE]
      BY <1>4 DEF CloseCall
    <2>2. s.st = "Connected"
      BY <1>4, ConnectedWhenEstablished
    <2> HIDE DEF t
    <2>3. Ordered(t, base \o t.out, n) /\ t.st = "Closing" /\ n = t.wr /\ t.wr = s.wr
          /\ t.rel = t.wr
      BY <1>3, <2>1, <2>2
    <2> QED BY <2>3 DEF t
  <1>5. CASE s.tcp = "CloseWait"
    <2> DEFINE t == CloseCall(s, TRUE)
    <2>1. t = [SendFlags([s EXCEPT !.tcp = "LastAck", !.st = "Closing"], {"FIN", "ACK"}, TRUE)
                  EXCEPT !.finSent = TRUE]
      BY <1>5 DEF CloseCall
    <2>2. s.st = "Connected"
      BY <1>1, <1>5 DEF Fit, Agree, SockRecord, SockState
    <2> HIDE DEF t
    <2>3. Ordered(t, base \o t.out, n) /\ t.st = "Closing" /\ n = t.wr /\ t.wr = s.wr
          /\ t.rel = t.wr
      BY <1>3, <2>1, <2>2
    <2> QED BY <2>3 DEF t
  <1>6. CASE s.tcp \notin {"Established", "CloseWait"}
    <2>1. CloseCall(s, TRUE) = FreeSocket
      BY <1>6 DEF CloseCall
    <2>2. /\ FreeSocket.st = "Free" /\ FreeSocket.tcp = "Closed" /\ FreeSocket.rel = 0
          /\ FreeSocket.out = <<>>
      BY DEF FreeSocket
    <2>3. Ordered(FreeSocket, base, n)
      <3>1. Based(s, base, n)
        BY <1>2 DEF Ordered
      <3>2. Based(FreeSocket, base, n)
        BY <2>2, <3>1 DEF Based
      <3> QED BY <2>2, <3>2 DEF Ordered, Lasts
    <2> QED BY <1>2, <2>1, <2>2, <2>3
  <1> QED BY <1>4, <1>5, <1>6

\* A frame no socket takes is answered with a reset.
Replied(s, g) == [s EXCEPT !.out = <<ResetReply(g)>>]

Undisturbed(s, t, base, n) ==
    /\ Ordered(t, base \o t.out, n) /\ (Fins(base \o t.out) => Fins(base))
    /\ t.st = s.st /\ t.rel = s.rel /\ t.wr = s.wr /\ Fit(t)

LEMMA ReplySends ==
    ASSUME NEW s, Fit(s), s.st = "Free", s.out = <<>>, NEW base \in Seq(Segment), NEW n \in Nat,
           Ordered(s, base, n), NEW g \in Segment
    PROVE  Undisturbed(s, Replied(s, g), base, n)
  <1> DEFINE f == ResetReply(g)
             next == (g.seq + 1) % SeqMod
             t == Replied(s, g)
  <1>0. t = [s EXCEPT !.out = <<ResetReply(g)>>]
    BY DEF Replied
  <1> HIDE DEF t
  <1>1. s \in SockRecord /\ g.ack \in Num /\ g.seq \in Int /\ 0 \in Num
    BY EndpointAssumption DEF Fit, Segment, Num
  <1>2. next \in Num
    <2>1. g.seq + 1 \in Int
      BY <1>1
    <2> QED BY <2>1, ModNum
  <1>3. f \in Segment /\ Plain(f)
    <2>1. f = IF "ACK" \in g.flags
              THEN [flags |-> {"RST"}, seq |-> g.ack, ack |-> 0, win |-> 0, data |-> <<>>]
              ELSE [flags |-> {"RST", "ACK"}, seq |-> 0, ack |-> next, win |-> 0, data |-> <<>>]
      BY DEF ResetReply
    <2> HIDE DEF f, next
    <2>2. {"RST"} \in SUBSET Flag /\ {"RST", "ACK"} \in SUBSET Flag /\ <<>> \in Seq(Nat) /\ Len(<<>>) = 0
      BY DEF Flag
    <2>3. f \in Segment
      BY <1>1, <1>2, <2>1, <2>2 DEF Segment, Num
    <2> QED BY <2>1, <2>2, <2>3 DEF Plain, Carries
  <1> HIDE DEF f
  <1>4. /\ t.st = s.st /\ t.tcp = s.tcp /\ t.rel = s.rel /\ t.wr = s.wr /\ t.out = <<f>>
        /\ t.una = s.una /\ t.seq = s.seq /\ t.win = s.win
    BY <1>0, <1>1 DEF SockRecord, f
  <1>5. base \o t.out = Append(base, f)
    BY <1>3, <1>4
  <1>6. Milder(base, base \o t.out, n)
    BY <1>3, <1>5, PlainMilder
  <1>7. SameSender(s, t) /\ t.tcp # "SynReceived"
    BY <1>4 DEF SameSender, Fit, Agree
  <1>8. Ordered(t, base \o t.out, n)
    BY <1>6, <1>7, OrderedKeeps
  <1>9. Fit(t)
    <2>1. <<f>> \in Seq(Segment) /\ t = [s EXCEPT !.out = <<f>>]
      BY <1>0, <1>3 DEF f
    <2> QED BY <1>1, <2>1 DEF Fit, Agree, SockRecord
  <1>10. Undisturbed(s, t, base, n)
    BY <1>4, <1>6, <1>8, <1>9 DEF Milder, Undisturbed
  <1> QED BY <1>10 DEF t

----------------------------------------------------------------------------
(* The peer takes our stream.                                              *)

\* From the peer p to the peer t, when at most the first most bytes could come.
Grows(p, t, most) ==
    /\ Hearing(t)
    /\ Len(p.got) <= Len(t.got) /\ Len(t.got) <= most
    /\ t.eof # p.eof => ~p.eof /\ Len(t.got) = Len(p.got)
    /\ p.eof => Len(t.got) = Len(p.got)
    /\ Heard(p) <= Heard(t) /\ Room(p) <= Room(t)
    /\ \/ t.out = p.out
       \/ \E h \in Segment :
             /\ t.out = Append(p.out, h)
             /\ "ACK" \in h.flags => h.ack = Mine(1 + Heard(t)) /\ Heard(t) + h.win = Room(t)

LEMMA HeardNumbers ==
    ASSUME NEW p, PeerFit(p)
    PROVE  /\ p.got \in Seq(Nat) /\ Len(p.got) \in Nat /\ p.eof \in BOOLEAN
           /\ Heard(p) \in Nat /\ Room(p) \in Nat /\ Heard(p) <= Len(p.got) + 1
           /\ Len(p.got) <= Heard(p) /\ Heard(p) + (PeerBuf - p.unread) = Room(p)
  <1>1. p.got \in Seq(Nat) /\ p.eof \in BOOLEAN /\ p.unread \in 0..PeerBuf /\ PeerBuf \in Nat
    BY PeerAssumption DEF PeerFit, PeerRecord
  <1>2. Len(p.got) \in Nat
    BY <1>1
  <1> DEFINE u == p.unread
             have == Len(p.got)
  <1>3. Heard(p) \in {have, have + 1} /\ Room(p) = Heard(p) + PeerBuf - u
    <2> DEFINE one == IF p.eof THEN 1 ELSE 0
    <2>1. one \in {0, 1} /\ Heard(p) = have + one /\ Room(p) = Heard(p) + PeerBuf - u
      BY DEF Heard, Room
    <2> HIDE DEF one, have, u
    <2>2. have \in Nat
      BY <1>2 DEF have
    <2> QED BY <2>1, <2>2
  <1>4. u \in Nat /\ u <= PeerBuf
    BY <1>1
  <1> HIDE DEF u, have
  <1>5. Heard(p) \in Nat /\ Heard(p) <= have + 1 /\ have <= Heard(p) /\ have \in Nat
    BY <1>2, <1>3 DEF have
  <1> DEFINE a == Heard(p)
             r == Room(p)
  <1> HIDE DEF a, r
  <1>6. r = a + PeerBuf - u /\ a \in Nat /\ PeerBuf \in Nat
    BY <1>1, <1>3, <1>5 DEF a, r
  <1>7. r \in Nat /\ a + (PeerBuf - u) = r
    BY <1>4, <1>6
  <1> QED BY <1>1, <1>5, <1>7 DEF u, have, a, r

\* A step that leaves what it has alone.
SameHeard(p, q) ==
    /\ q.got = p.got /\ q.eof = p.eof /\ q.unread = p.unread /\ q.rcv = p.rcv
    /\ q.out = p.out /\ q.st \in {p.st, "dead"}

LEMMA SameGrows ==
    ASSUME NEW p, PeerFit(p), Hearing(p), NEW q, SameHeard(p, q), NEW most \in Nat,
           Len(p.got) <= most
    PROVE  Grows(p, q, most)
  <1>1. Heard(q) = Heard(p) /\ Room(q) = Room(p)
    BY DEF SameHeard, Heard, Room
  <1>2. Len(p.got) <= Len(p.got) /\ Heard(p) <= Heard(p) /\ Room(p) <= Room(p)
    BY HeardNumbers
  <1>3. Hearing(q)
    BY <1>1 DEF SameHeard, Hearing
  <1> QED BY <1>1, <1>2, <1>3 DEF Grows, SameHeard

\* An answer is sent.
LEMMA AnswerGrows ==
    ASSUME NEW p, PeerFit(p), NEW q, q \in PeerRecord, NEW most \in Nat,
           Grows(p, q, most), q.out = p.out, NEW h \in Segment,
           "ACK" \in h.flags => h.ack = Mine(1 + Heard(q)) /\ h.win = PeerBuf - q.unread
    PROVE  Grows(p, PeerSends(q, h), most) /\ PeerSends(q, h).eof = q.eof
  <1> DEFINE t == PeerSends(q, h)
  <1>1. t = [q EXCEPT !.out = Append(p.out, h)]
    BY DEF PeerSends, PeerRecord
  <1> HIDE DEF t
  <1>2. /\ t.st = q.st /\ t.got = q.got /\ t.eof = q.eof /\ t.unread = q.unread
        /\ t.rcv = q.rcv /\ t.out = Append(p.out, h)
    BY <1>1 DEF PeerRecord
  <1>3. Heard(t) = Heard(q) /\ Room(t) = Room(q)
    BY <1>2 DEF Heard, Room
  <1>4. Hearing(t)
    BY <1>2, <1>3 DEF Grows, Hearing
  <1>5. "ACK" \in h.flags => Heard(t) + h.win = Room(t)
    <2>1. Heard(q) \in Int /\ q.unread \in 0..PeerBuf /\ PeerBuf \in Nat
      <3>1. q.got \in Seq(Nat) /\ q.eof \in BOOLEAN /\ q.unread \in 0..PeerBuf /\ PeerBuf \in Nat
        BY PeerAssumption DEF PeerRecord
      <3> QED BY <3>1 DEF Heard
    <2> QED BY <1>3, <2>1 DEF Room
  <1>6. p.eof => Len(q.got) = Len(p.got)
    BY DEF Grows
  <1>7. Grows(p, t, most)
    BY <1>2, <1>3, <1>4, <1>5, <1>6 DEF Grows
  <1> QED BY <1>2, <1>7 DEF t

LEMMA AcksGrow ==
    ASSUME NEW p, PeerFit(p), NEW q, q \in PeerRecord, NEW most \in Nat,
           Grows(p, q, most), q.out = p.out, q.st \in {"synRcvd", "estab"}, NEW m \in Nat,
           NEW flags \in SUBSET Flag, NEW start \in Nat
    PROVE  /\ Grows(p, PeerSends(q, PeerSegment(q, flags, start, m)), most)
           /\ PeerSends(q, PeerSegment(q, flags, start, m)).eof = q.eof
  <1> DEFINE h == PeerSegment(q, flags, start, m)
             d == [i \in 1..m |-> start + i]
             pos == (PeerIss + 1 + start) % SeqMod
  <1>1. q.rcv \in Num /\ q.unread \in 0..PeerBuf /\ PeerBuf \in Nat
    BY PeerAssumption DEF PeerRecord
  <1>2. d \in Seq(Nat)
    OBVIOUS
  <1>3. pos \in Num
    <2>1. PeerIss + 1 + start \in Int
      BY PeerAssumption
    <2> QED BY <2>1, ModNum
  <1>4. h = [flags |-> flags, seq |-> pos, ack |-> q.rcv, win |-> PeerBuf - q.unread, data |-> d]
    BY DEF PeerSegment
  <1> HIDE DEF h, d, pos
  <1>5. h \in Segment
    BY <1>1, <1>2, <1>3, <1>4 DEF Segment, Num
  <1>6. h.ack = Mine(1 + Heard(q)) /\ h.win = PeerBuf - q.unread
    BY <1>4 DEF Grows, Hearing
  <1>7. Grows(p, PeerSends(q, h), most) /\ PeerSends(q, h).eof = q.eof
    BY <1>5, <1>6, AnswerGrows
  <1> QED BY <1>7 DEF h

\* What a segment carries is taken when it begins where the stream got to, or
\* before.
LEMMA TakesDataGrows ==
    ASSUME NEW p, PeerFit(p), Hearing(p), p.st = "estab", NEW g \in Segment,
           NEW start \in 0..Len(p.got), NEW most \in Nat, Len(p.got) <= most,
           Carries(g) => Carried(g, start) /\ most = start + Len(g.data)
    PROVE  /\ Grows(p, PeerTakesData(p, g), most)
           /\ PeerTakesData(p, g).eof => p.eof \/ "FIN" \in g.flags
  <1> DEFINE off == Distance(p.rcv, g.seq)
             inOrder == 0 <= off /\ off <= Len(g.data) /\ ~p.eof
             n == IF inOrder THEN Lesser(Len(g.data) - off, PeerBuf - p.unread) ELSE 0
             fin == inOrder /\ "FIN" \in g.flags /\ off + n = Len(g.data)
             new == SubSeq(g.data, off + 1, off + n)
             next == (p.rcv + n + (IF fin THEN 1 ELSE 0)) % SeqMod
             over == p.eof \/ fin
             p1 == [p EXCEPT !.got = @ \o new, !.unread = @ + n, !.eof = over, !.rcv = next]
             answers == Len(g.data) > 0 \/ "FIN" \in g.flags \/ off # 0
             have == Len(p.got)
             size == Len(g.data)
  <1>1. PeerTakesData(p, g) = IF answers THEN PeerAcks(p1) ELSE p1
    BY Zenon DEF PeerTakesData
  <1>2. /\ p \in PeerRecord /\ p.rcv \in Num /\ p.rcv \in Nat /\ p.unread \in 0..PeerBuf
        /\ PeerBuf - p.unread \in Nat /\ PeerBuf \in Nat /\ p.sent \in Nat
        /\ p.got \in Seq(Nat) /\ have \in Nat /\ p.eof \in BOOLEAN
        /\ g.data \in Seq(Nat) /\ size \in Nat /\ g.seq \in Int
    <2>1. p \in PeerRecord
      BY DEF PeerFit
    <2>2. /\ p.rcv \in Num /\ p.unread \in 0..PeerBuf /\ p.sent \in Nat /\ p.got \in Seq(Nat)
          /\ p.eof \in BOOLEAN
      BY <2>1 DEF PeerRecord
    <2>3. PeerBuf \in Nat /\ p.unread \in Nat /\ PeerBuf - p.unread \in Nat
      BY <2>2, PeerAssumption
    <2>4. p.rcv \in Nat /\ g.seq \in Int /\ g.data \in Seq(Nat)
      BY <2>2, EndpointAssumption DEF Num, Segment
    <2>5. have \in Nat /\ size \in Nat
      BY <2>2, <2>4
    <2> QED BY <2>1, <2>2, <2>3, <2>4, <2>5
  <1>3. p.rcv = Mine(1 + Heard(p)) /\ Heard(p) \in {have, have + 1} /\ (~p.eof => Heard(p) = have)
    <2>1. p.rcv = Mine(1 + Heard(p))
      BY DEF Hearing
    <2> DEFINE one == IF p.eof THEN 1 ELSE 0
    <2>2. one \in {0, 1} /\ (~p.eof => one = 0) /\ Heard(p) = have + one
      BY DEF Heard
    <2> HIDE DEF one, have
    <2> QED BY <1>2, <2>1, <2>2
  <1>4. off \in Int
    <2>1. (p.rcv - g.seq) % SeqMod \in Int
      <3>1. p.rcv - g.seq \in Int
        BY <1>2
      <3> QED BY <3>1, ModNum DEF Num
    <2> QED BY <2>1, EndpointAssumption DEF Distance
  <1>5. Carries(g) => off = Heard(p) - start
    <2>1. SUFFICES ASSUME Carries(g) PROVE off = Heard(p) - start
      OBVIOUS
    <2>2. g.seq = Mine(1 + start) /\ size <= TxBuf /\ have <= start + size
      BY <2>1 DEF Carried
    <2> HIDE DEF have, size
    <2>3. /\ 1 + Heard(p) \in Nat /\ 1 + start \in Nat /\ 1 + Heard(p) <= (1 + start) + Near
          /\ 1 + start <= (1 + Heard(p)) + Near /\ (1 + Heard(p)) - (1 + start) = Heard(p) - start
      <3>1. start \in Nat /\ start <= have
        BY <1>2 DEF have
      <3>2. TxBuf \in Nat /\ Near \in Nat /\ TxBuf + 1 <= Near
        BY EndpointAssumption DEF Near
      <3> DEFINE heard == Heard(p)
      <3>3. heard \in {have, have + 1} /\ have \in Nat /\ size \in Nat
        BY <1>2, <1>3
      <3>4. have <= start + size /\ size <= TxBuf
        BY <2>2
      <3> HIDE DEF heard
      <3>5. heard \in Nat /\ start <= heard /\ heard <= start + TxBuf + 1
        BY <3>1, <3>2, <3>3, <3>4
      <3>6. /\ 1 + heard \in Nat /\ 1 + start \in Nat /\ 1 + heard <= (1 + start) + Near
            /\ 1 + start <= (1 + heard) + Near /\ (1 + heard) - (1 + start) = heard - start
        BY <3>1, <3>2, <3>5
      <3> QED BY <3>6 DEF heard
    <2> QED BY <1>3, <2>2, <2>3, DistanceOf
  <1> HIDE DEF off
  <1>6. CASE inOrder /\ Carries(g)
    <2>1. /\ ~p.eof /\ Heard(p) = have /\ off = have - start /\ off \in Nat /\ off <= size
          /\ start \in Nat /\ start + off = have /\ size - off \in Nat
      BY <1>2, <1>3, <1>4, <1>5, <1>6
    <2>2. n \in Nat /\ n <= size - off /\ n <= PeerBuf - p.unread
      <3>1. n = Lesser(size - off, PeerBuf - p.unread)
        BY <1>6
      <3> HIDE DEF n, size
      <3> QED BY <1>2, <2>1, <3>1, LesserBounds
    <2>3. fin => n = 0
      <3>1. fin => size = 0
        BY DEF Carried, Carries
      <3> HIDE DEF n, size, fin
      <3> QED BY <2>1, <2>2, <3>1
    <2>4. fin \in BOOLEAN /\ over = fin /\ (fin => "FIN" \in g.flags)
      BY <2>1
    <2> DEFINE one == IF fin THEN 1 ELSE 0
    <2>5. one \in {0, 1} /\ (fin => one = 1) /\ (~fin => one = 0)
      OBVIOUS
    <2>12. next = (p.rcv + n + one) % SeqMod
      OBVIOUS
    <2>6. new \in Seq(Nat) /\ Len(new) = n /\ \A i \in 1..n : new[i] = g.data[off + i]
      <3>1. off + n <= size
        <4> HIDE DEF n, size
        <4> QED BY <1>2, <2>1, <2>2
      <3> HIDE DEF n
      <3> QED BY ZenonT(60), <1>2, <2>1, <2>2, <3>1, SliceShape
    <2> HIDE DEF n, new, next, over, fin, one
    <2>7. \A i \in 1..n : new[i] = have + i
      <3> TAKE i \in 1..n
      <3>1. off + i \in 1..size /\ start + (off + i) = have + i
        <4> DEFINE o == off
                   x == n
        <4>1. i \in Nat /\ 1 <= i /\ i <= x /\ x \in Nat /\ x <= size - o /\ o \in Nat /\ start + o = have
              /\ start \in Nat
          BY <2>1, <2>2
        <4> HIDE DEF size, have, o, x
        <4>2. o + i \in 1..size /\ start + (o + i) = have + i
          BY <1>2, <4>1
        <4> QED BY <4>2 DEF o
      <3>2. g.data[off + i] = start + (off + i)
        BY <1>6, <3>1 DEF Carried
      <3> QED BY <2>6, <3>1, <3>2
    <2>8. /\ p.got \o new \in Seq(Nat) /\ Len(p.got \o new) = have + n
          /\ \A i \in 1..(have + n) :
                (p.got \o new)[i] = IF i <= have THEN p.got[i] ELSE new[i - have]
      <3>1. /\ p.got \o new \in Seq(Nat) /\ Len(p.got \o new) = have + Len(new)
            /\ \A i \in 1..(have + Len(new)) :
                  (p.got \o new)[i] = IF i <= have THEN p.got[i] ELSE new[i - have]
        BY <1>2, <2>6, JoinShape
      <3> QED BY <2>6, <3>1
    <2>9. next = Mine(1 + have + n + one) /\ next \in Num
      <3>1. 1 + have \in Nat /\ n + one \in Nat /\ (1 + have) + (n + one) = 1 + have + n + one
            /\ p.rcv + n + one = p.rcv + (n + one)
        <4> DEFINE x == n
                   r == p.rcv
                   h == have
                   o == one
        <4>1. x \in Nat /\ r \in Nat /\ h \in Nat /\ o \in Nat
          BY <1>2, <2>2, <2>5
        <4> HIDE DEF x, r, h, o
        <4>2. 1 + h \in Nat /\ x + o \in Nat /\ (1 + h) + (x + o) = 1 + h + x + o
              /\ r + x + o = r + (x + o)
          BY <4>1
        <4> QED BY Zenon, <4>2 DEF x, r, h, o
      <3>2. p.rcv = Mine(1 + have)
        BY <1>3, <2>1
      <3> DEFINE m == n + one
                 a == 1 + have
      <3>3. m \in Nat /\ a \in Nat /\ a + m \in Nat
        BY <3>1
      <3> HIDE DEF m, a
      <3>4. (Mine(a) + m) % SeqMod = Mine(a + m) /\ Mine(a + m) \in Num
        BY <3>3, MineAdd
      <3> QED BY <2>12, <3>1, <3>2, <3>4 DEF m, a
    <2>10. p.unread + n \in 0..PeerBuf
      BY SMTT(30), <1>2, <2>2
    <2>11. /\ p1 \in PeerRecord /\ p1.got = p.got \o new /\ p1.unread = p.unread + n /\ p1.eof = fin
           /\ p1.rcv = Mine(1 + have + n + one) /\ p1.st = "estab" /\ p1.out = p.out
           /\ p1.sent = p.sent
      BY <1>2, <2>4, <2>8, <2>9, <2>10 DEF PeerRecord
    <2> HIDE DEF p1, answers
    <2>13. Heard(p1) = have + n + one /\ Len(p1.got) = have + n
      BY <2>5, <2>8, <2>11 DEF Heard, one
    <2>14. 1 + Heard(p1) = 1 + have + n + one
      BY <1>2, <2>2, <2>5, <2>13
    <2>15. \A i \in 1..Len(p1.got) : p1.got[i] = i
      <3> TAKE i \in 1..Len(p1.got)
      <3>1. i \in 1..(have + n)
        BY <2>13
      <3>2. CASE i <= have
        <4>1. i \in 1..have /\ p1.got[i] = p.got[i]
          BY <1>2, <2>8, <2>11, <3>1, <3>2
        <4> QED BY <4>1 DEF Hearing
      <3>3. CASE ~(i <= have)
        <4>1. p1.got[i] = new[i - have]
          BY <2>8, <2>11, <3>1, <3>3
        <4> HIDE DEF have
        <4>2. i - have \in 1..n /\ have + (i - have) = i
          BY <1>2, <2>2, <3>1, <3>3
        <4> QED BY <2>7, <4>1, <4>2
      <3> QED BY <3>2, <3>3
    <2>16. Hearing(p1)
      BY <2>11, <2>13, <2>14, <2>15 DEF Hearing
    <2>17. Room(p1) = Heard(p1) + PeerBuf - (p.unread + n) /\ Room(p) = have + PeerBuf - p.unread
      BY <2>1, <2>11 DEF Room
    <2>18. have <= have + n /\ have + n <= most /\ have <= Heard(p1) /\ Room(p) <= Room(p1)
      <3>1. most = start + size
        BY <1>6
      <3> HIDE DEF have, size
      <3> QED BY SMTT(30), <1>2, <2>1, <2>2, <2>5, <2>13, <2>17, <3>1
    <2>19. fin => have + n = have
      <3> HIDE DEF have
      <3> QED BY <1>2, <2>3
    <2>20. Grows(p, p1, most)
      <3>1. Len(p1.got) = have + n /\ Heard(p) = have /\ p1.eof = fin /\ p1.out = p.out /\ ~p.eof
        BY <2>1, <2>11, <2>13
      <3>2. (p1.eof # p.eof => ~p.eof /\ Len(p1.got) = have)
        <4>1. CASE fin
          BY <2>19, <3>1, <4>1
        <4>2. CASE ~fin
          BY <2>4, <3>1, <4>2, <1>2
        <4> QED BY <4>1, <4>2
      <3> HIDE DEF have
      <3>3. have <= Len(p1.got) /\ Len(p1.got) <= most /\ Heard(p) <= Heard(p1)
        BY <2>18, <3>1
      <3> QED BY <2>16, <2>18, <3>1, <3>2, <3>3 DEF Grows, have
    <2>21. Grows(p, PeerAcks(p1), most) /\ PeerAcks(p1).eof = p1.eof
      <3>1. {"ACK"} \in SUBSET Flag /\ 0 \in Nat /\ p1.sent \in Nat
        BY <1>2, <2>11 DEF Flag
      <3> QED BY <2>11, <2>20, <3>1, AcksGrow DEF PeerAcks
    <2> QED BY <1>1, <2>4, <2>11, <2>20, <2>21
  <1>7. CASE ~(inOrder /\ Carries(g))
    <2>1. n = 0 /\ ~fin
      <3>1. CASE ~inOrder
        BY <3>1
      <3>2. CASE inOrder /\ ~Carries(g)
        <4>1. size = 0 /\ "FIN" \notin g.flags
          BY <1>2, <3>2 DEF Carries
        <4>2. off = 0
          BY <1>4, <3>2, <4>1
        <4> QED BY <1>2, <4>1, <4>2 DEF Lesser
      <3> QED BY <1>7, <3>1, <3>2
    <2>2. new = <<>>
      <3>1. off + n = off
        BY <1>4, <2>1
      <3> QED BY SMTT(30), <1>2, <1>4, <3>1
    <2>3. over = p.eof /\ next = p.rcv
      <3>1. p.rcv + n + (IF fin THEN 1 ELSE 0) = p.rcv
        BY <1>2, <2>1
      <3>2. p.rcv % SeqMod = p.rcv
        <4>1. p.rcv \in 0..(SeqMod - 1) /\ SeqMod \in Nat \ {0}
          BY <1>2, EndpointAssumption DEF Num
        <4>2. 0 \in 0..SeqMod /\ p.rcv + 0 = p.rcv /\ p.rcv + 0 < SeqMod
          BY <4>1
        <4>3. (p.rcv + 0) % SeqMod = p.rcv
          BY <4>1, <4>2, WrapOnce
        <4> QED BY <4>2, <4>3
      <3> QED BY <1>2, <2>1, <3>1, <3>2
    <2>4. p.got \o new = p.got
      <3>1. <<>> \in Seq(Nat) /\ Len(<<>>) = 0
        OBVIOUS
      <3>2. p.got \o <<>> = p.got
        BY <1>2
      <3> QED BY Zenon, <2>2, <3>2
    <2>5. p.unread + n = p.unread
      BY <1>2, <2>1
    <2> HIDE DEF n, new, next, over, fin
    <2>6. p1 = [p EXCEPT !.got = p.got, !.unread = p.unread, !.eof = p.eof, !.rcv = p.rcv]
      BY <1>2, <2>3, <2>4, <2>5 DEF PeerRecord
    <2>7. p1 \in PeerRecord /\ SameHeard(p, p1) /\ p1.st = "estab" /\ p1.sent = p.sent
      BY <1>2, <2>6 DEF PeerRecord, SameHeard
    <2> HIDE DEF p1, answers
    <2>8. Grows(p, p1, most) /\ p1.eof = p.eof
      BY <2>7, SameGrows DEF SameHeard
    <2>9. Grows(p, PeerAcks(p1), most) /\ PeerAcks(p1).eof = p1.eof
      <3>1. {"ACK"} \in SUBSET Flag /\ 0 \in Nat /\ p1.sent \in Nat /\ p1.out = p.out
        BY <1>2, <2>7 DEF Flag, SameHeard
      <3> QED BY <2>7, <2>8, <3>1, AcksGrow DEF PeerAcks
    <2> QED BY <1>1, <2>8, <2>9
  <1> QED BY <1>6, <1>7

\* What a frame of ours may bring.
Brings(g, p, start, most) ==
    /\ g \in Segment
    /\ "SYN" \in g.flags => g.seq = Iss
    /\ start \in 0..Len(p.got) /\ most \in Nat /\ Len(p.got) <= most
    /\ Carries(g) => Carried(g, start) /\ most = start + Len(g.data)

Hark(p, t, g, most) ==
    Grows(p, t, most) /\ (t.eof => p.eof \/ "FIN" \in g.flags)

SameData(p, q) ==
    q.got = p.got /\ q.eof = p.eof /\ q.unread = p.unread /\ q.rcv = p.rcv /\ q.out = p.out

LEMMA SameThenHark ==
    ASSUME NEW p, NEW q, SameData(p, q), NEW t, NEW g, NEW most, Hark(q, t, g, most)
    PROVE  Hark(p, t, g, most)
  <1>1. Heard(q) = Heard(p) /\ Room(q) = Room(p)
    BY DEF SameData, Heard, Room
  <1> QED BY <1>1 DEF SameData, Hark, Grows

LEMMA SameHarks ==
    ASSUME NEW p, PeerFit(p), Hearing(p), NEW g, NEW start, NEW most, Brings(g, p, start, most),
           NEW q, SameHeard(p, q)
    PROVE  Hark(p, q, g, most)
  <1>1. most \in Nat /\ Len(p.got) <= most
    BY DEF Brings
  <1> QED BY <1>1, SameGrows DEF Hark, SameHeard

LEMMA AcksHark ==
    ASSUME NEW p, PeerFit(p), Hearing(p), p.st \in {"synRcvd", "estab"},
           NEW g, NEW start, NEW most, Brings(g, p, start, most)
    PROVE  Hark(p, PeerAcks(p), g, most)
  <1>1. SameHeard(p, p) /\ most \in Nat
    BY DEF SameHeard, Brings
  <1>2. Grows(p, p, most)
    BY <1>1, SameHarks DEF Hark
  <1>3. p \in PeerRecord /\ p.sent \in Nat /\ 0 \in Nat /\ {"ACK"} \in SUBSET Flag
    BY PeerNumbers DEF Flag
  <1>4. Grows(p, PeerAcks(p), most) /\ PeerAcks(p).eof = p.eof
    BY <1>1, <1>2, <1>3, AcksGrow DEF PeerAcks
  <1> QED BY <1>4 DEF Hark

LEMMA PeerDiesHarks ==
    ASSUME NEW p, PeerFit(p), Hearing(p), NEW g, NEW start, NEW most, Brings(g, p, start, most)
    PROVE  Hark(p, [p EXCEPT !.st = "dead"], g, most) /\ Hark(p, p, g, most)
  <1> DEFINE q == [p EXCEPT !.st = "dead"]
  <1>1. SameHeard(p, q) /\ SameHeard(p, p)
    BY DEF SameHeard, PeerFit, PeerRecord
  <1> QED BY <1>1, SameHarks

LEMMA EstabHarks ==
    ASSUME NEW p, Sound(p), Hearing(p), p.st = "estab",
           NEW g, NEW start, NEW most, Brings(g, p, start, most)
    PROVE  Hark(p, PeerInEstablished(p, g), g, most)
  <1> DEFINE q == PeerTakesAck(p, g)
             t == PeerTakesData(q, g)
  <1>1. g \in Segment /\ PeerFit(p) /\ p \in PeerRecord
    BY DEF Brings, Sound, PeerFit
  <1>2. Hark(p, t, g, most)
    <2>1. PeerFit(q)
      <3>1. Hears(p, q, g)
        BY <1>1, TakesAckSound
      <3> QED BY <3>1 DEF Hears, Sound
    <2>2. SameData(p, q) /\ q.st = p.st
      <3>1. q = p \/ \E u : q = [p EXCEPT !.acked = u, !.win = g.win]
        BY DEF PeerTakesAck
      <3> HIDE DEF q
      <3> QED BY <1>1, <3>1 DEF PeerRecord, SameData
    <2> HIDE DEF q
    <2>3. Hearing(q)
      BY <2>2 DEF Hearing, Heard, SameData
    <2>4. /\ start \in 0..Len(q.got) /\ most \in Nat /\ Len(q.got) <= most
          /\ Carries(g) => Carried(g, start) /\ most = start + Len(g.data)
      BY <2>2 DEF SameData, Brings
    <2>5. Grows(q, t, most) /\ (t.eof => q.eof \/ "FIN" \in g.flags)
      BY <1>1, <2>1, <2>2, <2>3, <2>4, TakesDataGrows
    <2> HIDE DEF t
    <2>6. Hark(q, t, g, most)
      BY <2>5 DEF Hark
    <2> QED BY <2>2, <2>6, SameThenHark
  <1>3. Hark(p, PeerAcks(p), g, most)
    BY <1>1, AcksHark
  <1>4. Hark(p, p, g, most) /\ Hark(p, [p EXCEPT !.st = "dead"], g, most)
    BY <1>1, PeerDiesHarks
  <1> HIDE DEF Hark
  <1> QED BY <1>2, <1>3, <1>4, Zenon DEF PeerInEstablished, t, q

\* The SYN-ACK of a peer in the handshake.
LEMMA SynAckHarks ==
    ASSUME NEW p, PeerFit(p), NEW q, q \in PeerRecord, Hearing(q), q.st = "synRcvd",
           q.out = p.out, q.got = p.got, q.eof = p.eof, q.unread = p.unread,
           NEW g, NEW most \in Nat, Len(p.got) <= most
    PROVE  Hark(p, PeerSends(q, PeerSynAckSegment(q)), g, most)
  <1> DEFINE h == PeerSynAckSegment(q)
  <1>1. most \in Nat /\ Len(p.got) <= most
    OBVIOUS
  <1>2. h \in Segment
    <2>1. /\ PeerIss \in 0..(SeqMod - 1) /\ q.rcv \in 0..(SeqMod - 1) /\ PeerBuf \in Nat
          /\ <<>> \in Seq(Nat)
      BY PeerAssumption DEF PeerRecord, Num
    <2> QED BY <2>1 DEF PeerSynAckSegment, Segment, Flag
  <1>3. h.ack = q.rcv /\ h.win = PeerBuf
    BY DEF PeerSynAckSegment
  <1>4. q.rcv = Mine(1 + Heard(q)) /\ q.unread = 0 /\ PeerBuf = PeerBuf - q.unread
    BY PeerAssumption DEF Hearing
  <1> HIDE DEF h
  <1>5. Heard(q) = Heard(p) /\ Room(q) = Room(p)
    BY DEF Heard, Room
  <1>6. Heard(p) <= Heard(q) /\ Room(p) <= Room(q)
    BY <1>5, HeardNumbers
  <1>7. Len(p.got) <= Len(q.got)
    BY HeardNumbers
  <1>8. Grows(p, q, most)
    BY <1>1, <1>6, <1>7 DEF Grows
  <1>9. Grows(p, PeerSends(q, h), most) /\ PeerSends(q, h).eof = q.eof
    BY <1>1, <1>2, <1>3, <1>4, <1>8, AnswerGrows
  <1>10. Hark(p, PeerSends(q, h), g, most)
    BY <1>9 DEF Hark
  <1> QED BY <1>10 DEF h

LEMMA SynRcvdHarks ==
    ASSUME NEW p, Sound(p), Hearing(p), p.st = "synRcvd",
           NEW g, NEW start, NEW most, Brings(g, p, start, most)
    PROVE  Hark(p, PeerInSynRcvd(p, g), g, most)
  <1>1. g \in Segment /\ PeerFit(p) /\ p \in PeerRecord
    BY DEF Brings, Sound, PeerFit
  <1>2. Hark(p, PeerSends(p, PeerSynAckSegment(p)), g, most)
    BY <1>1, SynAckHarks DEF Brings
  <1> DEFINE q == [p EXCEPT !.st = "estab", !.win = g.win]
  <1>3. Hark(p, PeerInEstablished(q, g), g, most)
    <2>1. g.win \in Nat
      BY <1>1 DEF Segment
    <2>2. /\ q \in PeerRecord /\ q.bytes = p.bytes /\ q.closes = p.closes /\ q.acked = p.acked
          /\ q.sent = p.sent /\ q.out = p.out /\ q.st = "estab" /\ SameData(p, q)
      BY <1>1, <2>1 DEF PeerRecord, SameData
    <2> HIDE DEF q
    <2>3. Sound(q)
      BY <2>2, KeepsSound
    <2>4. Hearing(q) /\ Brings(g, q, start, most)
      BY <2>2 DEF Hearing, Heard, SameData, Brings
    <2>5. Hark(q, PeerInEstablished(q, g), g, most)
      BY <2>2, <2>3, <2>4, EstabHarks
    <2> QED BY <2>2, <2>5, SameThenHark
  <1>4. Hark(p, p, g, most) /\ Hark(p, [p EXCEPT !.st = "dead"], g, most)
    BY <1>1, PeerDiesHarks
  <1> HIDE DEF Hark
  <1> QED BY <1>2, <1>3, <1>4, Zenon DEF PeerInSynRcvd, q

LEMMA ListenHarks ==
    ASSUME NEW p, Sound(p), Hearing(p), p.st = "listen",
           NEW g, NEW start, NEW most, Brings(g, p, start, most)
    PROVE  Hark(p, PeerInListen(p, g), g, most)
  <1> DEFINE next == (g.seq + 1) % SeqMod
             q == [p EXCEPT !.st = "synRcvd", !.rcv = next]
             t == PeerSends(q, PeerSynAckSegment(q))
  <1>0. PeerInListen(p, g) = IF "SYN" \in g.flags THEN t ELSE p
    BY Zenon DEF PeerInListen
  <1>1. g \in Segment /\ PeerFit(p) /\ p \in PeerRecord
    BY DEF Brings, Sound, PeerFit
  <1>2. CASE "SYN" \in g.flags
    <2>1. next = Mine(1) /\ Mine(1) \in Num
      <3>1. g.seq = Iss
        BY <1>2 DEF Brings
      <3>2. 0 \in Nat /\ 1 \in Nat
        OBVIOUS
      <3> QED BY <3>1, <3>2, FirstMine, MineAdd
    <2> HIDE DEF next
    <2>2. /\ q \in PeerRecord /\ q.out = p.out /\ q.st = "synRcvd" /\ q.rcv = next
          /\ q.got = p.got /\ q.eof = p.eof /\ q.unread = p.unread
      BY <1>1, <2>1 DEF PeerRecord
    <2> HIDE DEF q
    <2>3. q.got = <<>> /\ ~q.eof /\ q.unread = 0
      BY <2>2 DEF Hearing
    <2>4. Heard(q) = 0 /\ 1 + Heard(q) = 1
      <3>1. Len(<<>>) = 0
        OBVIOUS
      <3> QED BY <2>3, <3>1 DEF Heard
    <2>5. Hearing(q)
      BY <2>1, <2>2, <2>3, <2>4 DEF Hearing
    <2>6. Hark(p, t, g, most)
      BY <1>1, <2>2, <2>5, SynAckHarks DEF Brings
    <2> QED BY <1>0, <1>2, <2>6 DEF next
  <1>3. CASE "SYN" \notin g.flags
    <2>1. Hark(p, p, g, most)
      BY <1>1, PeerDiesHarks
    <2> QED BY <1>0, <1>3, <2>1
  <1> QED BY <1>2, <1>3

LEMMA DeadHarks ==
    ASSUME NEW p, Sound(p), Hearing(p), NEW g, NEW start, NEW most, Brings(g, p, start, most)
    PROVE  Hark(p, PeerInDead(p, g), g, most)
  <1> DEFINE f == [flags |-> {"RST"}, seq |-> g.ack, ack |-> 0, win |-> 0, data |-> <<>>]
             t == PeerSends(p, f)
  <1>1. g \in Segment /\ PeerFit(p) /\ p \in PeerRecord /\ most \in Nat
    BY DEF Brings, Sound, PeerFit
  <1>2. f \in Segment /\ f.flags = {"RST"}
    <2>1. <<>> \in Seq(Nat) /\ 0 \in 0..(SeqMod - 1) /\ g.ack \in 0..(SeqMod - 1)
      BY <1>1, EndpointAssumption DEF Segment
    <2> QED BY <2>1 DEF Segment, Flag
  <1> HIDE DEF f
  <1>3. Hark(p, p, g, most)
    BY <1>1, PeerDiesHarks
  <1>4. Grows(p, t, most) /\ t.eof = p.eof
    <2>1. "ACK" \notin f.flags
      BY <1>2
    <2> QED BY <1>1, <1>2, <1>3, <2>1, AnswerGrows DEF Hark
  <1> HIDE DEF t
  <1>5. Hark(p, t, g, most)
    BY <1>4 DEF Hark
  <1> QED BY <1>3, <1>5, Zenon DEF PeerInDead, t, f

LEMMA PeerInputHarks ==
    ASSUME NEW p, Sound(p), Hearing(p), NEW g, NEW start, NEW most, Brings(g, p, start, most)
    PROVE  Hark(p, PeerInput(p, g), g, most)
  <1>1. p.st # "synSent"
    BY DEF Hearing
  <1> QED BY <1>1, EstabHarks, SynRcvdHarks, ListenHarks, DeadHarks DEF PeerInput

\* What the peer does by itself.
Speaks(p, t) == Grows(p, t, Len(p.got)) /\ t.eof = p.eof

LEMMA SendsDataSpeaks ==
    ASSUME NEW p, Sound(p), Hearing(p), NEW m \in PeerMaySend(p)
    PROVE  Speaks(p, PeerSendsData(p, m))
  <1> DEFINE more == Larger(p.sent, m.start + m.n + m.fin)
             q == [p EXCEPT !.sent = more]
             flags == IF m.fin = 1 THEN {"ACK", "FIN"} ELSE {"ACK"}
  <1>1. PeerFit(p) /\ p \in PeerRecord /\ p.sent \in Nat /\ p.acked \in Nat /\ PeerFins(p) \in 0..1
        /\ p.got \in Seq(Nat)
    BY PeerNumbers DEF Sound, PeerRecord
  <1>2. m.start \in Nat /\ m.n \in Nat /\ m.fin \in Nat /\ p.st = "estab"
    BY <1>1, EndpointAssumption DEF PeerMaySend
  <1>3. PeerSendsData(p, m) = PeerSends(q, PeerSegment(q, flags, m.start, m.n))
    BY <1>1 DEF PeerSendsData, PeerRecord
  <1>4. more \in Nat /\ flags \in SUBSET Flag
    BY <1>1, <1>2 DEF Larger, Flag
  <1> HIDE DEF more, flags
  <1>5. q \in PeerRecord /\ SameHeard(p, q) /\ q.out = p.out /\ q.st = "estab" /\ q.eof = p.eof
    BY <1>1, <1>2, <1>4 DEF PeerRecord, SameHeard
  <1> HIDE DEF q
  <1>6. Len(p.got) \in Nat /\ Len(p.got) <= Len(p.got)
    BY <1>1
  <1>7. Grows(p, q, Len(p.got))
    BY <1>1, <1>5, <1>6, SameGrows
  <1>8. /\ Grows(p, PeerSends(q, PeerSegment(q, flags, m.start, m.n)), Len(p.got))
        /\ PeerSends(q, PeerSegment(q, flags, m.start, m.n)).eof = q.eof
    BY <1>1, <1>2, <1>4, <1>5, <1>6, <1>7, AcksGrow
  <1> QED BY <1>3, <1>5, <1>8 DEF Speaks

LEMMA RepeatsSpeaks ==
    ASSUME NEW p, Sound(p), Hearing(p), p.st \in {"synSent", "synRcvd"}
    PROVE  Speaks(p, PeerRepeatsSyn(p))
  <1>1. PeerFit(p) /\ p \in PeerRecord /\ p.got \in Seq(Nat) /\ p.st = "synRcvd"
    BY PeerNumbers DEF Sound, PeerRecord, Hearing
  <1>2. Len(p.got) \in Nat /\ Len(p.got) <= Len(p.got)
    BY <1>1
  <1>3. Hark(p, PeerSends(p, PeerSynAckSegment(p)), PeerSynAckSegment(p), Len(p.got))
    BY <1>1, <1>2, SynAckHarks
  <1>4. PeerSends(p, PeerSynAckSegment(p)).eof = p.eof
    BY <1>1 DEF PeerSends, PeerRecord
  <1> QED BY <1>1, <1>3, <1>4 DEF Speaks, Hark, PeerRepeatsSyn

LEMMA ReadsSpeaks ==
    ASSUME NEW p, Sound(p), Hearing(p), p.st = "estab"
    PROVE  Speaks(p, PeerReads(p))
  <1> DEFINE q == [p EXCEPT !.unread = 0]
  <1>1. PeerFit(p) /\ p \in PeerRecord /\ p.got \in Seq(Nat) /\ p.sent \in Nat /\ 0 \in 0..PeerBuf
        /\ p.unread \in 0..PeerBuf /\ PeerBuf \in Nat
    BY PeerNumbers, PeerAssumption DEF Sound, PeerRecord
  <1>2. /\ q \in PeerRecord /\ q.got = p.got /\ q.eof = p.eof /\ q.rcv = p.rcv /\ q.out = p.out
        /\ q.st = "estab" /\ q.unread = 0 /\ q.sent = p.sent
    BY <1>1 DEF PeerRecord
  <1>3. PeerReads(p) = PeerAcks(q)
    BY DEF PeerReads
  <1> HIDE DEF q
  <1>4. Heard(q) = Heard(p)
    BY <1>2 DEF Heard
  <1>5. Heard(p) \in Nat /\ Len(p.got) \in Nat
    BY <1>1, HeardNumbers
  <1>6. Room(p) <= Room(q)
    <2> DEFINE a == Heard(p)
    <2>1. Room(p) = a + PeerBuf - p.unread /\ Room(q) = a + PeerBuf - 0
      BY <1>2, <1>4 DEF Room
    <2> HIDE DEF a
    <2>2. a \in Nat
      BY <1>5 DEF a
    <2> QED BY <1>1, <2>1, <2>2
  <1>7. Hearing(q)
    BY <1>2, <1>4 DEF Hearing
  <1>8. Grows(p, q, Len(p.got))
    BY <1>2, <1>4, <1>5, <1>6, <1>7 DEF Grows
  <1>9. {"ACK"} \in SUBSET Flag /\ 0 \in Nat
    BY DEF Flag
  <1>10. Grows(p, PeerAcks(q), Len(p.got)) /\ PeerAcks(q).eof = q.eof
    BY <1>1, <1>2, <1>5, <1>8, <1>9, AcksGrow DEF PeerAcks
  <1> QED BY <1>2, <1>3, <1>10 DEF Speaks

LEMMA AbortsSpeaks ==
    ASSUME NEW p, Sound(p), Hearing(p), p.st = "estab"
    PROVE  Speaks(p, PeerAborts(p))
  <1> DEFINE q == [p EXCEPT !.st = "dead"]
             h == PeerSegment(p, {"RST", "ACK"}, p.sent, 0)
  <1>1. PeerFit(p) /\ p \in PeerRecord /\ p.got \in Seq(Nat) /\ p.sent \in Nat
        /\ p.unread \in 0..PeerBuf /\ PeerBuf \in Nat
    BY PeerNumbers, PeerAssumption DEF Sound, PeerRecord
  <1>2. q \in PeerRecord /\ SameHeard(p, q) /\ q.out = p.out /\ q.eof = p.eof /\ q.unread = p.unread
    BY <1>1 DEF PeerRecord, SameHeard
  <1>3. PeerAborts(p) = PeerSends(q, h)
    BY DEF PeerAborts
  <1>4. h \in Segment /\ h.ack = p.rcv /\ h.win = PeerBuf - p.unread
    <2>1. {"RST", "ACK"} \in SUBSET Flag /\ "SYN" \notin {"RST", "ACK"} /\ "FIN" \notin {"RST", "ACK"}
          /\ 0 \in Nat /\ ~(0 > 0)
      BY DEF Flag
    <2>2. FromPeer(h, p.bytes)
      BY <1>1, <2>1, PeerSegmentSound
    <2> QED BY <2>2 DEF FromPeer, PeerSegment
  <1> HIDE DEF h, q
  <1>5. Heard(q) = Heard(p)
    BY <1>2 DEF Heard, SameHeard
  <1>6. h.ack = Mine(1 + Heard(q)) /\ h.win = PeerBuf - q.unread
    BY <1>2, <1>4, <1>5 DEF Hearing
  <1>7. Len(p.got) \in Nat /\ Len(p.got) <= Len(p.got)
    BY <1>1
  <1>8. Grows(p, q, Len(p.got))
    BY <1>1, <1>2, <1>7, SameGrows
  <1>9. Grows(p, PeerSends(q, h), Len(p.got)) /\ PeerSends(q, h).eof = q.eof
    BY <1>1, <1>2, <1>4, <1>6, <1>7, <1>8, AnswerGrows
  <1> QED BY <1>2, <1>3, <1>9 DEF Speaks

----------------------------------------------------------------------------
(* The steps of the stack keep the invariant.                              *)

\* The socket t, its frames moved to the network.
LEMMA MovedOut ==
    ASSUME NEW t, Fit(t), StackDoes(t)
    PROVE  /\ SameSender(t, conn') /\ conn'.tcp = t.tcp /\ toPeer' = toPeer \o t.out
           /\ Edge(conn') = Edge(t) /\ TxAvailable(conn') = TxAvailable(t)
           /\ \A n : Ordered(t, toPeer', n) => Ordered(conn', toPeer', n)
  <1>1. t \in SockRecord /\ conn' = [t EXCEPT !.out = <<>>] /\ toPeer' = toPeer \o t.out
    BY DEF StackDoes, Fit
  <1>2. SameSender(t, conn') /\ conn'.tcp = t.tcp
    BY <1>1 DEF SockRecord, SameSender
  <1>3. Edge(conn') = Edge(t) /\ TxAvailable(conn') = TxAvailable(t)
    BY <1>2 DEF SameSender, Edge, TxAvailable
  <1>4. ASSUME NEW n, Ordered(t, toPeer', n) PROVE Ordered(conn', toPeer', n)
    <2>1. Based(conn', toPeer', n)
      BY <1>2, <1>3, <1>4 DEF Ordered, Based, SameSender
    <2>2. ASSUME NEW k, Paced(t, toPeer', n, k) PROVE Paced(conn', toPeer', n, k)
      BY <1>2, <2>2 DEF Paced, SameSender
    <2>3. Lasts(conn') => Lasts(t)
      BY <1>2 DEF Lasts, SameSender
    <2> QED BY <1>2, <1>3, <1>4, <2>1, <2>2, <2>3 DEF Ordered, SameSender
  <1> QED BY <1>1, <1>2, <1>3, <1>4

\* What an action of the stack shows to keep the invariant.
StackOrders(t) ==
    /\ Ordered(t, toPeer \o t.out, Len(peer.got))
    /\ Fins(toPeer \o t.out) => Fins(toPeer) \/ (app'.closed /\ app'.asked = Len(peer.got))
    /\ app.closed => app'.closed /\ app'.asked = app.asked
    /\ t.st # "Free" => app'.pending + t.wr = app'.asked
    /\ t.st \in {"Bound", "Connecting"} => app'.asked = 0
    /\ t.st = "Closing" => t.rel = t.wr
    /\ app'.closed => app'.pending = 0
    /\ app'.pending > 0 /\ t.st = "Connected" =>
          TxAvailable(t) = 0 /\ app'.pending <= Lesser(Mss, TxBuf)
    /\ Awaits(t) => /\ Telling(toUs', t.rel, Edge(t), Heard(peer), Room(peer))
                    /\ Edge(t) <= Room(peer)

LEMMA StackSends ==
    ASSUME SendInv, Careful, NEW t, Fit(t), StackDoes(t), StackOrders(t),
           scene' = scene, peer' = peer
    PROVE  SendInv'
  <1>1. /\ SameSender(t, conn') /\ conn'.tcp = t.tcp /\ toPeer' = toPeer \o t.out
        /\ Edge(conn') = Edge(t) /\ TxAvailable(conn') = TxAvailable(t)
    BY MovedOut
  <1>2. Ordered(conn', toPeer', Len(peer.got))
    BY <1>1, MovedOut DEF StackOrders
  <1>3. FinsLast'
    <2>1. Fins(toPeer') \/ peer.eof => app'.closed /\ app'.asked = Len(peer.got)
      BY <1>1 DEF StackOrders, SendInv, FinsLast
    <2> QED BY <2>1 DEF FinsLast
  <1>4. Asked'
    BY <1>1 DEF StackOrders, Asked, SameSender
  <1>5. Answered'
    BY <1>1 DEF StackOrders, Answered, SameSender, Awaits
  <1>6. Hearing(peer)' /\ Ordered(conn, toPeer, Len(peer.got))'
    BY <1>2 DEF SendInv
  <1> QED BY <1>3, <1>4, <1>5, <1>6 DEF SendInv

\* What holds while no call has closed it.
LEMMA CarefulFacts ==
    ASSUME RecvInv, SendInv, Careful
    PROVE  /\ Fit(conn) /\ conn \in SockRecord /\ conn.out = <<>> /\ conn.wr \in Nat /\ conn.rel \in Nat
           /\ conn.rel <= conn.wr /\ toPeer \in Seq(Segment) /\ toPeer \o conn.out = toPeer
           /\ toUs \in Seq(Segment)
           /\ Ordered(conn, toPeer \o conn.out, Len(peer.got)) /\ Len(peer.got) \in Nat
           /\ Hearing(peer) /\ PeerFit(peer) /\ Sound(peer) /\ peer.out = <<>>
           /\ app \in AppRecord /\ app.asked \in Nat /\ app.pending \in Nat
           /\ scene.resolves = {TRUE} /\ ~scene.passive /\ scene.waits /\ scene.reach = 1
  <1>1. Fit(conn) /\ conn \in SockRecord /\ conn.out = <<>> /\ toPeer \in Seq(Segment)
        /\ toUs \in Seq(Segment) /\ PeerFit(peer) /\ Sound(peer) /\ peer.out = <<>> /\ app \in AppRecord
    BY InvFacts DEF RecvInv, Types, Flight, Fit
  <1>2. toPeer \o conn.out = toPeer
    BY <1>1, JoinNone
  <1>3. peer.got \in Seq(Nat)
    BY <1>1 DEF PeerFit, PeerRecord
  <1>4. conn.wr \in Nat /\ conn.rel \in Nat /\ conn.rel <= conn.wr
    BY <1>1 DEF Fit, SockRecord
  <1>5. app.asked \in Nat /\ app.pending \in Nat
    BY <1>1 DEF AppRecord
  <1>6. Ordered(conn, toPeer, Len(peer.got)) /\ Hearing(peer)
    BY DEF SendInv
  <1> QED BY <1>1, <1>2, <1>3, <1>4, <1>5, <1>6 DEF Careful

\* A step of the stack that changes nothing of what the application asked.
LEMMA QuietSends ==
    ASSUME RecvInv, SendInv, Careful, NEW t, Fit(t), Sends(conn, t, toPeer, Len(peer.got)),
           t.wr = conn.wr,
           \/ t.st \in {conn.st, "Closed"} \/ (conn.st = "Bound" /\ t.st = "Connecting")
           \/ (conn.st = "Connecting" /\ t.st = "Connected"),
           t.st # "Free" => conn.st # "Free", toUs' = toUs,
           app'.closed = app.closed, app'.asked = app.asked, app'.pending = app.pending
    PROVE  StackOrders(t)
  <1>1. /\ Ordered(t, toPeer \o t.out, Len(peer.got)) /\ t.rel = conn.rel
        /\ Awaits(t) => Edge(t) = Edge(conn)
        /\ Fins(toPeer \o t.out) => Fins(toPeer) \/ (t.st = "Closing" /\ Len(peer.got) = t.wr)
    BY CarefulFacts DEF Sends
  <1>2. Asked /\ Answered /\ TxAvailable(t) = TxAvailable(conn)
    BY <1>1 DEF SendInv, TxAvailable
  <1>3. t.st = "Closing" => app.closed /\ app.pending = 0 /\ app.asked = t.wr
    <2>1. SUFFICES ASSUME t.st = "Closing" PROVE app.closed /\ app.pending = 0 /\ app.asked = t.wr
      OBVIOUS
    <2>2. conn.st = "Closing" /\ app.closed
      BY <2>1 DEF RecvInv, AppFits
    <2>3. app.pending = 0 /\ app.pending + conn.wr = app.asked /\ conn.wr \in Nat
      BY <1>2, <2>2, CarefulFacts DEF Asked
    <2> QED BY <2>2, <2>3
  <1>4. Awaits(t) => Awaits(conn)
    BY DEF Awaits
  <1>5. Awaits(t) => /\ Telling(toUs', t.rel, Edge(t), Heard(peer), Room(peer))
                     /\ Edge(t) <= Room(peer)
    BY <1>1, <1>2, <1>4 DEF Answered, Awaits
  <1>6. app.pending > 0 => conn.st \in {"Connected", "Closed"}
    BY DEF RecvInv, AppFits
  <1> QED BY <1>1, <1>2, <1>3, <1>5, <1>6 DEF StackOrders, Asked

LEMMA ConnectOrders == ASSUME RecvInv, SendInv, Careful, Connect PROVE SendInv'
  <1> DEFINE t == ConnectStart(conn, TRUE)
  <1>1. StackDoes(t) /\ conn.st = "Bound" /\ UNCHANGED <<scene, app, peer, toUs>>
    BY CarefulFacts DEF Connect
  <1>2. Sends(conn, t, toPeer, Len(peer.got))
    BY <1>1, CarefulFacts, ConnectSends
  <1>3. Fit(t) /\ t.st \in {"Connecting", "Closed"} /\ t.wr = conn.wr
    <2>1. Fit(conn) /\ TRUE \in BOOLEAN
      BY CarefulFacts
    <2>2. InOrder(conn, ReadSoFar, peer.bytes) /\ ReadSoFar \in Nat /\ peer.bytes \in Nat
      BY InvFacts
    <2>3. InOrder(t, ReadSoFar, peer.bytes) /\ t.st \in {"Connecting", "Closed"} /\ t.wr = conn.wr
      BY <1>1, <2>1, <2>2, ConnectCall
    <2> QED BY <2>3 DEF InOrder
  <1> HIDE DEF t
  <1>4. StackOrders(t)
    BY <1>1, <1>2, <1>3, QuietSends
  <1> QED BY <1>1, <1>3, <1>4, StackSends

LEMMA TimerOrders == ASSUME RecvInv, SendInv, Careful, Timer PROVE SendInv'
  <1> DEFINE t == TimerExpired(conn, TRUE)
  <1>1. StackDoes(t) /\ TimerRuns(conn) /\ UNCHANGED <<scene, app, peer, toUs>>
    BY CarefulFacts DEF Timer
  <1>2. Sends(conn, t, toPeer, Len(peer.got))
    <2>1. conn.st = "Closing" => conn.rel = conn.wr
      BY DEF SendInv, Asked
    <2> QED BY <2>1, CarefulFacts, TimerSends
  <1>3. /\ Fit(t) /\ t.wr = conn.wr
        /\ t.st \in {conn.st, "Closed"} \/ (conn.st = "Connecting" /\ t.st = "Connected")
    <2>2. InOrder(conn, ReadSoFar, peer.bytes) /\ ReadSoFar \in Nat /\ peer.bytes \in Nat
      BY InvFacts
    <2>3. Step(conn, t, ReadSoFar, peer.bytes)
      BY <1>1, <2>2, TimerStep
    <2> QED BY <2>3 DEF InOrder, Step
  <1>4. conn.st # "Free"
    BY <1>1, CarefulFacts DEF TimerRuns, Fit, Agree
  <1> HIDE DEF t
  <1>5. StackOrders(t)
    BY <1>1, <1>2, <1>3, <1>4, QuietSends
  <1> QED BY <1>1, <1>3, <1>5, StackSends

\* The application reads: neither half of what it sends is touched.
LEMMA ReadingSends ==
    ASSUME SendInv, SameSender(conn, conn'), conn'.tcp = conn.tcp,
           app'.closed = app.closed, app'.asked = app.asked, app'.pending = app.pending,
           UNCHANGED <<scene, peer, toPeer, toUs>>
    PROVE  SendInv'
  <1>1. Careful' = Careful
    BY DEF Careful
  <1>2. SUFFICES ASSUME Careful PROVE SendInv'
    BY <1>1 DEF SendInv
  <1>3. Edge(conn') = Edge(conn) /\ TxAvailable(conn') = TxAvailable(conn)
    BY DEF SameSender, Edge, TxAvailable
  <1>4. Based(conn', toPeer, Len(peer.got))
    BY <1>2, <1>3 DEF SendInv, Ordered, Based, SameSender
  <1>5. ASSUME NEW k, Paced(conn, toPeer, Len(peer.got), k)
        PROVE  Paced(conn', toPeer, Len(peer.got), k)
    BY <1>5 DEF Paced, SameSender
  <1>6. Lasts(conn') => Lasts(conn)
    BY DEF Lasts, SameSender
  <1>7. Ordered(conn', toPeer, Len(peer.got))
    BY <1>2, <1>3, <1>4, <1>5, <1>6 DEF SendInv, Ordered, SameSender
  <1>8. FinsLast' /\ Asked' /\ Answered' /\ Hearing(peer)
    BY <1>2, <1>3 DEF SendInv, FinsLast, Asked, Answered, SameSender
  <1>9. Ordered(conn', toPeer', Len(peer'.got)) /\ Hearing(peer')
    BY <1>7, <1>8
  <1> QED BY <1>8, <1>9 DEF SendInv

LEMMA ReadOrders ==
    ASSUME RecvInv, SendInv, RecvBytes \/ RecvEof \/ Accept \/ SendFull
    PROVE  SendInv'
  <1>1. conn \in SockRecord /\ app \in AppRecord
    BY InvFacts
  <1>2. CASE RecvBytes
    <2>1. PICK k \in 1..Len(conn.rx) :
              /\ app' = [app EXCEPT !.read = @ \o SubSeq(conn.rx, 1, k)]
              /\ conn' = RecvTake(conn, k)
      BY <1>2 DEF RecvBytes
    <2>2. UNCHANGED <<scene, peer, toPeer, toUs>>
      BY <1>2 DEF RecvBytes
    <2>3. SameSender(conn, conn') /\ conn'.tcp = conn.tcp
      BY <1>1, <2>1 DEF RecvTake, SockRecord, SameSender
    <2>4. app'.closed = app.closed /\ app'.asked = app.asked /\ app'.pending = app.pending
      BY <1>1, <2>1 DEF AppRecord
    <2> QED BY <2>2, <2>3, <2>4, ReadingSends
  <1>3. CASE RecvEof \/ Accept \/ SendFull
    <2>1. UNCHANGED <<scene, conn, peer, toPeer, toUs>>
      BY <1>3 DEF RecvEof, Accept, SendFull
    <2>2. app'.closed = app.closed /\ app'.asked = app.asked /\ app'.pending = app.pending
      BY <1>1, <1>3 DEF RecvEof, Accept, SendFull, AppRecord
    <2>3. SameSender(conn, conn') /\ conn'.tcp = conn.tcp
      BY <2>1 DEF SameSender
    <2> QED BY <2>1, <2>2, <2>3, ReadingSends
  <1> QED BY <1>2, <1>3

LEMMA SendStartOrders == ASSUME RecvInv, SendInv, Careful, SendStart PROVE SendInv'
  <1>1. PICK n \in 1..(scene.out - app.asked) :
            /\ app' = [app EXCEPT !.pending = n, !.asked = @ + n]
            /\ scene.waits => TxAvailable(conn) = 0 /\ n <= Lesser(Mss, TxBuf)
    BY DEF SendStart
  <1>2. /\ conn.st = "Connected" /\ app.pending = 0 /\ ~app.closed
        /\ UNCHANGED <<scene, conn, peer, toPeer, toUs>>
    BY DEF SendStart, Holds
  <1>3. n \in Nat /\ app.asked \in Nat /\ app \in AppRecord /\ conn.wr \in Nat
    <2>1. scene.out \in Nat
      BY InvFacts, ConnAssumption DEF Scenes
    <2> QED BY <2>1, CarefulFacts
  <1>4. app'.pending = n /\ app'.asked = app.asked + n /\ app'.closed = app.closed
    BY <1>1, <1>3 DEF AppRecord
  <1>5. Asked'
    <2>1. app.pending + conn.wr = app.asked
      BY <1>2 DEF SendInv, Asked
    <2>2. n + conn.wr = app.asked + n
      BY <1>2, <1>3, <2>1
    <2> QED BY <1>1, <1>2, <1>4, <2>2, CarefulFacts DEF Asked
  <1>6. FinsLast' /\ Answered'
    BY <1>2, <1>4 DEF SendInv, FinsLast, Answered
  <1>7. Ordered(conn', toPeer', Len(peer'.got)) /\ Hearing(peer')
    BY <1>2 DEF SendInv
  <1> QED BY <1>5, <1>6, <1>7 DEF SendInv

LEMMA SendWriteOrders == ASSUME RecvInv, SendInv, Careful, SendWrite PROVE SendInv'
  <1> DEFINE m == Lesser(app.pending, TxFree(conn))
             t == SendTurn(conn, m, TRUE)
             r == ReadSoFar
             n == Len(peer.got)
  <1>1. StackDoes(t) /\ app.pending > 0 /\ UNCHANGED <<scene, peer, toUs>>
        /\ app' = [app EXCEPT !.pending = @ - m]
    BY CarefulFacts DEF SendWrite
  <1>2. Fit(conn) /\ app.pending \in Nat /\ app.asked \in Nat /\ conn.wr \in Nat /\ app \in AppRecord
        /\ Asked /\ Answered
    BY CarefulFacts DEF SendInv
  <1>3. TxFree(conn) \in Nat /\ TxBuf \in Nat /\ Mss \in Nat
    BY <1>2, FitNumbers, EndpointAssumption DEF TxFree
  <1>4. m \in Nat /\ m <= app.pending /\ m <= TxFree(conn)
    BY <1>2, <1>3, LesserBounds
  <1>5. conn.st \in {"Connected", "Closed"} /\ ~app.closed
    BY <1>1, <1>2 DEF RecvInv, AppFits, Asked
  <1>6. conn.st = "Connected" => TxAvailable(conn) = 0 /\ m <= Mss /\ m = app.pending
    <2>1. SUFFICES ASSUME conn.st = "Connected"
                   PROVE  TxAvailable(conn) = 0 /\ m <= Mss /\ m = app.pending
      OBVIOUS
    <2>2. TxAvailable(conn) = 0 /\ app.pending <= Lesser(Mss, TxBuf)
      BY <1>1, <1>2, <2>1 DEF Asked
    <2>3. app.pending <= Mss /\ app.pending <= TxBuf
      BY <1>2, <1>3, <2>2, LesserBounds DEF Lesser
    <2>4. TxFree(conn) = TxBuf
      BY <1>3, <2>2 DEF TxFree
    <2>5. m = app.pending
      BY <1>2, <1>3, <2>3, <2>4 DEF Lesser
    <2> QED BY <2>2, <2>3, <2>5
  <1> HIDE DEF m
  <1>7. Sends(conn, t, toPeer, n)
    BY <1>4, <1>5, <1>6, CarefulFacts, SendTurnSends
  <1>8. Fit(t) /\ t.wr = conn.wr + m /\ t.st \in {conn.st, "Closed"}
    <2>1. InOrder(conn, r, peer.bytes) /\ r \in Nat /\ peer.bytes \in Nat /\ TRUE \in BOOLEAN
      BY InvFacts
    <2>2. InOrder(t, r, peer.bytes) /\ t.wr = conn.wr + m /\ t.st \in {conn.st, "Closed"}
      BY <1>4, <1>5, <2>1, SendCall
    <2> QED BY <2>2 DEF InOrder
  <1> HIDE DEF t
  <1>9. app'.pending = app.pending - m /\ app'.asked = app.asked /\ app'.closed = app.closed
    BY <1>1, <1>2 DEF AppRecord
  <1>10. /\ Ordered(t, toPeer \o t.out, n) /\ t.rel = conn.rel
         /\ Awaits(t) => Edge(t) = Edge(conn)
         /\ Fins(toPeer \o t.out) => Fins(toPeer)
    BY <1>5, <1>7, <1>8, CarefulFacts DEF Sends
  <1>11. t.st = "Connected" => app'.pending = 0
    BY <1>2, <1>5, <1>6, <1>8, <1>9
  <1>12. app'.pending + t.wr = app'.asked
    <2>1. app.pending + conn.wr = app.asked
      BY <1>2, <1>5 DEF Asked
    <2> QED BY <1>2, <1>4, <1>8, <1>9, <2>1
  <1>13. Awaits(t) => /\ Telling(toUs', t.rel, Edge(t), Heard(peer), Room(peer))
                      /\ Edge(t) <= Room(peer)
    BY <1>1, <1>2, <1>5, <1>8, <1>10 DEF Answered, Awaits
  <1>14. StackOrders(t)
    BY <1>5, <1>8, <1>9, <1>10, <1>11, <1>12, <1>13 DEF StackOrders
  <1> QED BY <1>1, <1>8, <1>14, StackSends

\* A turn of the waiting loop is one that writes nothing.
LEMMA SendWaitOrders == ASSUME RecvInv, SendInv, Careful, SendWait PROVE SendInv'
  <1> DEFINE t == Output(conn, TRUE)
  <1>1. StackDoes(t) /\ app.full /\ UNCHANGED <<scene, peer, toUs>>
        /\ app' = [app EXCEPT !.full = FALSE]
    BY CarefulFacts DEF SendWait
  <1>2. conn.st \in {"Connected", "Closed"} /\ app.pending > 0
    BY <1>1 DEF RecvInv, AppFits
  <1>3. conn.st = "Connected" => TxAvailable(conn) = 0
    BY <1>2 DEF SendInv, Asked
  <1>4. Sends(conn, t, toPeer, Len(peer.got))
    <2>1. 0 \in Nat /\ 0 <= TxFree(conn) /\ 0 <= Mss /\ toPeer \in Seq(Segment)
          /\ Len(peer.got) \in Nat
      BY CarefulFacts, FitNumbers, EndpointAssumption DEF TxFree
    <2>2. Sends(conn, SendTurn(conn, 0, TRUE), toPeer, Len(peer.got))
      BY <1>2, <1>3, <2>1, CarefulFacts, SendTurnSends
    <2>3. SendTurn(conn, 0, TRUE) = t
      <3>1. [conn EXCEPT !.wr = @ + 0] = conn
        BY CarefulFacts DEF SockRecord
      <3> QED BY <3>1 DEF SendTurn
    <2> QED BY <2>2, <2>3
  <1>5. Fit(t) /\ t.st = conn.st /\ t.wr = conn.wr
    BY CarefulFacts, OutputShape DEF SameStream
  <1>6. app'.closed = app.closed /\ app'.asked = app.asked /\ app'.pending = app.pending
    BY <1>1, CarefulFacts DEF AppRecord
  <1> HIDE DEF t
  <1>7. StackOrders(t)
    BY <1>1, <1>2, <1>4, <1>5, <1>6, QuietSends
  <1> QED BY <1>1, <1>5, <1>7, StackSends

LEMMA SendGivesUpOrders == ASSUME RecvInv, SendInv, Careful, SendGivesUp PROVE SendInv'
  <1>1. app.full /\ app' = [app EXCEPT !.full = FALSE, !.pending = 0, !.asked = @ - app.pending]
        /\ UNCHANGED <<scene, conn, peer, toPeer, toUs>>
    BY DEF SendGivesUp
  <1>2. app \in AppRecord /\ app.asked \in Nat /\ app.pending \in Nat /\ conn.wr \in Nat
        /\ app.pending > 0 /\ conn.st \in {"Connected", "Closed"} /\ ~app.closed
    <2>1. AppFits /\ Asked /\ app \in AppRecord /\ app.asked \in Nat /\ app.pending \in Nat
          /\ conn.wr \in Nat
      BY CarefulFacts DEF RecvInv, SendInv
    <2>2. app.pending > 0 /\ conn.st \in {"Connected", "Closed"}
      BY <1>1, <2>1 DEF AppFits
    <2> QED BY <2>1, <2>2 DEF Asked
  <1>3. app'.pending = 0 /\ app'.asked = app.asked - app.pending /\ app'.closed = app.closed
    BY <1>1, <1>2 DEF AppRecord
  <1>4. Asked'
    <2>1. app.pending + conn.wr = app.asked
      BY <1>2 DEF SendInv, Asked
    <2>2. 0 + conn.wr = app.asked - app.pending
      BY <1>2, <2>1
    <2> QED BY <1>1, <1>2, <1>3, <2>2 DEF Asked
  <1>5. FinsLast' /\ Answered'
    BY <1>1, <1>2, <1>3 DEF SendInv, FinsLast, Answered
  <1>6. Ordered(conn', toPeer', Len(peer'.got)) /\ Hearing(peer')
    BY <1>1 DEF SendInv
  <1> QED BY <1>4, <1>5, <1>6 DEF SendInv

LEMMA CloseOrders == ASSUME RecvInv, SendInv, Careful, Close PROVE SendInv'
  <1> DEFINE t == CloseCall(conn, TRUE)
             r == ReadSoFar
             n == Len(peer.got)
  <1>1. /\ StackDoes(t) /\ app.pending = 0 /\ ~app.closed /\ UNCHANGED <<scene, peer, toUs>>
        /\ app' = [app EXCEPT !.closed = TRUE] /\ TxAvailable(conn) = 0
    BY CarefulFacts DEF Close, Holds
  <1>2. app \in AppRecord /\ Asked /\ app.asked \in Nat /\ conn.wr \in Nat
    BY CarefulFacts DEF SendInv
  <1>3. app'.pending = 0 /\ app'.asked = app.asked /\ app'.closed
    BY <1>1, <1>2 DEF AppRecord
  <1>4. /\ Ordered(t, toPeer \o t.out, n)
        /\ Fins(toPeer \o t.out) => Fins(toPeer) \/ (t.st = "Closing" /\ n = t.wr)
        /\ t.st = "Closing" => t.wr = conn.wr /\ t.rel = t.wr
    BY <1>1, CarefulFacts, CloseSends
  <1>5. Fit(t) /\ t.st \in {"Free", "Closing"}
    <2>1. InOrder(conn, r, peer.bytes) /\ r \in Nat /\ peer.bytes \in Nat /\ TRUE \in BOOLEAN
      BY InvFacts
    <2>2. InOrder(t, r, peer.bytes) /\ t.st \in {"Free", "Closing"}
      BY <2>1, CloseLeaves
    <2> QED BY <2>2 DEF InOrder
  <1>6. t.st = "Closing" => t.wr = app.asked /\ 0 + t.wr = app.asked
    <2>1. t.st = "Closing" => conn.st # "Free"
      <3>1. conn.st = "Free" => conn.tcp = "Closed"
        BY CarefulFacts DEF Fit, Agree
      <3>2. conn.tcp = "Closed" => t = FreeSocket
        BY DEF CloseCall
      <3>3. FreeSocket.st = "Free"
        BY DEF FreeSocket
      <3> QED BY <3>1, <3>2, <3>3
    <2> HIDE DEF t
    <2>2. t.st = "Closing" => app.pending + conn.wr = app.asked
      BY <1>2, <2>1 DEF Asked
    <2> QED BY <1>1, <1>2, <1>4, <2>2
  <1> HIDE DEF t
  <1>7. StackOrders(t)
    BY <1>1, <1>3, <1>4, <1>5, <1>6 DEF StackOrders, Awaits
  <1> QED BY <1>1, <1>5, <1>7, StackSends

\* What a frame taken from the front of the queue to us says.
LEMMA FirstSays ==
    ASSUME RecvInv, SendInv, Careful, Len(toUs) > 0, toUs' = Without(toUs, 1)
    PROVE  \E j \in Nat :
              /\ Says(conn, toUs[1], j, Len(peer.got))
              /\ Awaits(conn) =>
                    /\ Telling(toUs', j, Told(conn, toUs[1], j), Heard(peer), Room(peer))
                    /\ j <= Heard(peer) /\ conn.rel <= j /\ Edge(conn) <= Told(conn, toUs[1], j)
                    /\ Told(conn, toUs[1], j) <= Room(peer) /\ Told(conn, toUs[1], j) \in Nat
  <1> DEFINE g == toUs[1]
  <1>1. toUs \in Seq(Segment) /\ Fit(conn) /\ conn.rel \in Nat /\ PeerFit(peer) /\ g.win \in Nat
        /\ Edge(conn) \in Nat /\ Heard(peer) \in Nat /\ Room(peer) \in Nat
    <2>1. toUs \in Seq(Segment) /\ Fit(conn) /\ conn.rel \in Nat /\ PeerFit(peer)
      BY CarefulFacts
    <2>2. 1 \in 1..Len(toUs)
      BY <2>1
    <2> QED BY <2>1, <2>2, EdgeIsNat, HeardNumbers, FrameWins
  <1>2. CASE ~Awaits(conn)
    <2>1. Says(conn, g, 0, Len(peer.got)) /\ 0 \in Nat
      BY <1>2 DEF Says
    <2> QED BY <1>2, <2>1
  <1>3. CASE Awaits(conn)
    <2>1. Telling(toUs, conn.rel, Edge(conn), Heard(peer), Room(peer)) /\ Edge(conn) <= Room(peer)
      BY <1>3 DEF SendInv, Answered, Awaits
    <2>2. PICK j \in conn.rel..Heard(peer) :
              /\ "ACK" \in g.flags => /\ g.ack = Mine(1 + j) /\ Edge(conn) <= j + g.win
                                      /\ j + g.win <= Room(peer)
              /\ Telling(Without(toUs, 1), j, IF "ACK" \in g.flags THEN j + g.win ELSE Edge(conn),
                         Heard(peer), Room(peer))
      BY <1>1, <2>1, TellingRest
    <2>3. ~peer.eof
      <3>1. ~app.closed
        BY <1>3 DEF RecvInv, AppFits, Awaits
      <3> QED BY <3>1 DEF SendInv, FinsLast
    <2>4. Heard(peer) = Len(peer.got)
      <3>1. Len(peer.got) \in Nat
        BY <1>1, HeardNumbers
      <3> QED BY <2>3, <3>1 DEF Heard
    <2>5. j \in Nat /\ conn.rel <= j /\ j <= Heard(peer)
      BY <1>1
    <2>6. Says(conn, g, j, Len(peer.got))
      BY <2>2, <2>4, <2>5 DEF Says
    <2>7. Telling(toUs', j, Told(conn, g, j), Heard(peer), Room(peer))
      BY <2>2 DEF Told
    <2>8. Edge(conn) <= Told(conn, g, j) /\ Told(conn, g, j) <= Room(peer) /\ Told(conn, g, j) \in Nat
      BY <1>1, <2>1, <2>2, <2>5 DEF Told
    <2> QED BY <2>5, <2>6, <2>7, <2>8
  <1> QED BY <1>2, <1>3

\* A segment for a socket that is not free.
LEMMA InputOrders ==
    ASSUME RecvInv, SendInv, Careful, Len(toUs) > 0, toUs' = Without(toUs, 1),
           conn.st # "Free", StackDoes(TcpInput(conn, toUs[1], TRUE)),
           UNCHANGED <<scene, app, peer>>
    PROVE  SendInv'
  <1> DEFINE g == toUs[1]
             t == TcpInput(conn, g, TRUE)
             r == ReadSoFar
             n == Len(peer.got)
  <1>1. 1 \in 1..Len(toUs) /\ g \in Segment /\ n \in Nat /\ Fit(conn) /\ PeerFit(peer)
    <2>1. toUs \in Seq(Segment) /\ Len(toUs) \in Nat
      BY CarefulFacts
    <2>2. 1 \in 1..Len(toUs)
      BY <2>1
    <2> QED BY <2>1, <2>2, FrameWins, CarefulFacts
  <1>2. Step(conn, t, r, peer.bytes)
    <2>1. InOrder(conn, r, peer.bytes) /\ r \in Nat /\ peer.bytes \in Nat /\ TRUE \in BOOLEAN
          /\ peer.bytes + 2 <= SeqMod
      BY InvFacts
    <2>2. FromPeer(g, peer.bytes)
      BY <1>1, FlightWithout
    <2> QED BY <2>1, <2>2, InputStep
  <1>3. PICK j \in Nat :
            /\ Says(conn, g, j, n)
            /\ Awaits(conn) =>
                  /\ Telling(toUs', j, Told(conn, g, j), Heard(peer), Room(peer))
                  /\ j <= Heard(peer) /\ conn.rel <= j /\ Edge(conn) <= Told(conn, g, j)
                  /\ Told(conn, g, j) <= Room(peer) /\ Told(conn, g, j) \in Nat
    BY FirstSays
  <1>4. Asked /\ app.asked \in Nat /\ app.pending \in Nat /\ conn.wr \in Nat /\ conn.rel \in Nat
        /\ conn.rel <= conn.wr
    BY CarefulFacts DEF SendInv
  <1>5. conn.st = "Closing" => conn.rel = conn.wr
    BY <1>4 DEF Asked
  <1>6. conn.st = "Connecting" => n = 0 /\ conn.rel = 0 /\ conn.wr = 0
    <2>1. SUFFICES ASSUME conn.st = "Connecting" PROVE n = 0 /\ conn.rel = 0 /\ conn.wr = 0
      OBVIOUS
    <2>2. conn.wr = 0 /\ conn.rel = 0
      BY <1>4, <2>1 DEF Asked
    <2>3. PICK k \in 0..TxAvailable(conn) : Paced(conn, toPeer \o conn.out, n, k)
      BY <2>1, CarefulFacts DEF Ordered, Lasts
    <2>4. k = 0
      BY <2>2, <2>3 DEF TxAvailable
    <2>5. n <= 0
      BY <2>2, <2>3, <2>4 DEF Paced
    <2> QED BY <1>1, <2>2, <2>5
  <1>7. Heeds(conn, t, toPeer, n, j, g)
    <2>1. toPeer \in Seq(Segment) /\ Ordered(conn, toPeer \o conn.out, n)
      BY CarefulFacts
    <2> QED BY <1>1, <1>3, <1>5, <1>6, <2>1, InputHeeds
  <1> HIDE DEF t, g
  <1>8. Fit(t) /\ t.wr = conn.wr /\ t.st # "Free"
        /\ (t.st \in {conn.st, "Closed"} \/ (conn.st = "Connecting" /\ t.st = "Connected"))
    BY <1>2 DEF Step, InOrder
  <1>9. /\ Ordered(t, toPeer \o t.out, n) /\ (Fins(toPeer \o t.out) => Fins(toPeer))
        /\ conn.rel <= t.rel /\ (conn.st # "Connected" => t.rel = conn.rel)
        /\ Awaits(t) => t.rel <= j /\ Edge(t) <= Told(conn, g, j)
    BY <1>7, CarefulFacts DEF Heeds
  <1>10. Awaits(t) => /\ Telling(toUs', t.rel, Edge(t), Heard(peer), Room(peer))
                      /\ Edge(t) <= Room(peer)
    <2>1. SUFFICES ASSUME Awaits(t)
                   PROVE  /\ Telling(toUs', t.rel, Edge(t), Heard(peer), Room(peer))
                          /\ Edge(t) <= Room(peer)
      OBVIOUS
    <2>2. Awaits(conn)
      BY <1>8, <2>1 DEF Awaits
    <2>3. toUs' \in Seq(Segment) /\ Edge(t) \in Nat /\ t.rel \in Nat /\ Heard(peer) \in Nat
          /\ Room(peer) \in Nat
      <3>1. toUs' \in Seq(Segment)
        BY <1>1, FlightWithout
      <3> QED BY <1>1, <1>8, <3>1, EdgeIsNat, HeardNumbers, FitNumbers
    <2> DEFINE e == Told(conn, g, j)
               x == Edge(t)
               y == Room(peer)
    <2>4. e \in Nat /\ x <= e /\ e <= y /\ x \in Nat /\ y \in Nat
      BY <1>3, <1>9, <2>1, <2>2, <2>3
    <2>5. Telling(toUs', j, e, Heard(peer), y)
      BY <1>3, <2>2
    <2> HIDE DEF e, x, y
    <2>6. x <= y /\ y <= y
      BY <2>4
    <2>7. Heard(peer) <= Heard(peer) /\ t.rel <= j
      BY <1>9, <2>1, <2>3
    <2>8. Telling(toUs', t.rel, x, Heard(peer), y)
      BY <2>3, <2>4, <2>5, <2>6, <2>7, TellingMore
    <2> QED BY <2>6, <2>8 DEF x, y
  <1>11. t.st = "Closing" => t.rel = t.wr
    BY <1>5, <1>8, <1>9
  <1>12. app.pending > 0 /\ t.st = "Connected" => TxAvailable(t) = 0
    <2>1. SUFFICES ASSUME app.pending > 0, t.st = "Connected" PROVE TxAvailable(t) = 0
      OBVIOUS
    <2>2. conn.st = "Connected"
      BY <1>8, <2>1 DEF RecvInv, AppFits
    <2>3. conn.wr = conn.rel
      BY <1>4, <2>1, <2>2 DEF Asked, TxAvailable
    <2>4. t.rel <= t.wr /\ t.rel \in Nat
      BY <1>8, FitNumbers DEF Fit
    <2>5. t.rel = t.wr
      BY <1>4, <1>8, <1>9, <2>3, <2>4
    <2> QED BY <2>4, <2>5 DEF TxAvailable
  <1>13. app.pending > 0 /\ t.st = "Connected" => conn.st = "Connected"
    BY <1>8 DEF RecvInv, AppFits
  <1>14. StackOrders(t)
    BY <1>4, <1>8, <1>9, <1>10, <1>11, <1>12, <1>13 DEF StackOrders, Asked
  <1>15. StackDoes(t)
    BY DEF t, g
  <1> QED BY <1>8, <1>14, <1>15, StackSends

LEMMA DeliverOrders == ASSUME RecvInv, SendInv, Careful, Deliver PROVE SendInv'
  <1> DEFINE g == toUs[1]
             t == Dispatch(conn, g, TRUE)
             n == Len(peer.got)
  <1>1. StackDoes(t) /\ toUs' = Without(toUs, 1) /\ Len(toUs) > 0 /\ UNCHANGED <<scene, app, peer>>
    <2>1. PICK i \in 1..Lesser(scene.reach, Len(toUs)), ok \in scene.resolves :
              StackDoes(Dispatch(conn, toUs[i], ok)) /\ toUs' = Without(toUs, i)
      BY DEF Deliver
    <2>2. ok = TRUE /\ scene.reach = 1 /\ Len(toUs) \in Nat
      <3>1. scene.resolves = {TRUE} /\ toUs \in Seq(Segment) /\ scene.reach = 1
        BY CarefulFacts
      <3>2. Len(toUs) \in Nat
        BY <3>1
      <3>3. ok = TRUE
        BY Zenon, <3>1
      <3> QED BY Zenon, <3>1, <3>2, <3>3
    <2>3. i = 1 /\ Len(toUs) > 0
      BY <2>2 DEF Lesser
    <2> QED BY <2>1, <2>2, <2>3 DEF Deliver
  <1>2. CASE conn.st # "Free"
    <2>1. t = TcpInput(conn, g, TRUE)
      BY <1>2 DEF Dispatch
    <2> QED BY <1>1, <1>2, <2>1, InputOrders
  <1>3. CASE conn.st = "Free"
    <2>1. g \in Segment
      <3>1. toUs \in Seq(Segment) /\ 1 \in 1..Len(toUs)
        BY <1>1, CarefulFacts
      <3> QED BY <3>1, FrameWins
    <2>2. t = IF "RST" \notin g.flags THEN Replied(conn, g) ELSE conn
      BY <1>3, CarefulFacts DEF Dispatch, Replied
    <2>3. toPeer \in Seq(Segment) /\ n \in Nat /\ Ordered(conn, toPeer, n) /\ conn.out = <<>>
          /\ Fit(conn) /\ toPeer \o conn.out = toPeer
      BY CarefulFacts
    <2> HIDE DEF t, g, n
    <2>4. Undisturbed(conn, t, toPeer, n)
      <3>1. Undisturbed(conn, Replied(conn, g), toPeer, n)
        BY <1>3, <2>1, <2>3, ReplySends
      <3>2. Undisturbed(conn, conn, toPeer, n)
        BY <2>3 DEF Undisturbed
      <3> QED BY <2>2, <3>1, <3>2
    <2>5. StackOrders(t)
      BY <1>1, <1>3, <2>4 DEF StackOrders, Awaits, SendInv, Asked, Undisturbed, n
    <2> QED BY <1>1, <2>4, <2>5, StackSends DEF t, g, Undisturbed
  <1> QED BY <1>2, <1>3

----------------------------------------------------------------------------
(* So do those of the network and of the peer.                             *)

LEMMA LoseInOrders == ASSUME RecvInv, SendInv, Careful, LoseIn PROVE SendInv'
  <1>1. toUs' = Without(toUs, 1) /\ Len(toUs) > 0 /\ UNCHANGED <<scene, conn, app, peer, toPeer>>
    <2>1. PICK i \in 1..Lesser(scene.reach, Len(toUs)) : toUs' = Without(toUs, i)
      BY DEF LoseIn
    <2>2. scene.reach = 1 /\ toUs \in Seq(Segment)
      BY CarefulFacts
    <2>3. Len(toUs) \in Nat
      BY <2>2
    <2>4. i = 1 /\ Len(toUs) > 0
      BY <2>2, <2>3 DEF Lesser
    <2> QED BY <2>1, <2>4 DEF LoseIn
  <1>2. ASSUME Awaits(conn)
        PROVE  Telling(toUs', conn.rel, Edge(conn), Heard(peer), Room(peer))
    <2> DEFINE e == Told(conn, toUs[1], 0)
    <2>1. PICK j \in Nat :
              /\ Telling(toUs', j, Told(conn, toUs[1], j), Heard(peer), Room(peer))
              /\ conn.rel <= j /\ Edge(conn) <= Told(conn, toUs[1], j)
              /\ Told(conn, toUs[1], j) \in Nat
      BY <1>1, <1>2, FirstSays
    <2>2. toUs' \in Seq(Segment)
      <3>1. toUs \in Seq(Segment)
        BY CarefulFacts
      <3> QED BY <1>1, <3>1, BehindFirst
    <2>3. conn.rel \in Nat /\ Edge(conn) \in Nat /\ Heard(peer) \in Nat /\ Room(peer) \in Nat
      BY CarefulFacts, EdgeIsNat, HeardNumbers
    <2>4. Heard(peer) <= Heard(peer) /\ Room(peer) <= Room(peer)
      BY <2>3
    <2> QED BY <2>1, <2>2, <2>3, <2>4, TellingMore
  <1>3. Answered'
    BY <1>1, <1>2 DEF SendInv, Answered, Awaits
  <1>4. FinsLast' /\ Asked'
    BY <1>1 DEF SendInv, FinsLast, Asked
  <1>5. Ordered(conn', toPeer', Len(peer'.got)) /\ Hearing(peer')
    BY <1>1 DEF SendInv
  <1> QED BY <1>3, <1>4, <1>5 DEF SendInv

LEMMA FewerFrames ==
    ASSUME NEW q \in Seq(Segment), Len(q) > 0
    PROVE  (Syns(q) => Syns(Without(q, 1))) /\ (Fins(Without(q, 1)) => Fins(q))
           /\ Without(q, 1) \in Seq(Segment)
  <1>1. /\ Without(q, 1) \in Seq(Segment) /\ Len(Without(q, 1)) = Len(q) - 1
        /\ \A i \in 1..(Len(q) - 1) : i + 1 \in 1..Len(q) /\ Without(q, 1)[i] = q[i + 1]
    BY BehindFirst
  <1> DEFINE r == Without(q, 1)
  <1> HIDE DEF r
  <1>2. \A i \in 1..Len(r) : i + 1 \in 1..Len(q) /\ r[i] = q[i + 1]
    BY <1>1 DEF r
  <1>3. Syns(q) => Syns(r)
    BY <1>2 DEF Syns
  <1>4. Fins(r) => Fins(q)
    BY <1>2 DEF Fins
  <1> QED BY <1>1, <1>3, <1>4 DEF r

LEMMA LoseOutOrders == ASSUME RecvInv, SendInv, Careful, LoseOut PROVE SendInv'
  <1> DEFINE n == Len(peer.got)
  <1>1. toPeer' = Without(toPeer, 1) /\ Len(toPeer) > 0 /\ UNCHANGED <<scene, conn, app, peer, toUs>>
    <2>1. PICK i \in 1..Lesser(scene.reach, Len(toPeer)) : toPeer' = Without(toPeer, i)
      BY DEF LoseOut
    <2>2. scene.reach = 1 /\ toPeer \in Seq(Segment)
      BY CarefulFacts
    <2>3. Len(toPeer) \in Nat
      BY <2>2
    <2>4. i = 1 /\ Len(toPeer) > 0
      BY <2>2, <2>3 DEF Lesser
    <2> QED BY <2>1, <2>4 DEF LoseOut
  <1>2. toPeer \in Seq(Segment) /\ n \in Nat /\ Fit(conn) /\ Ordered(conn, toPeer, n)
    BY CarefulFacts
  <1>3. Milder(toPeer, toPeer', n)
    <2>1. ASSUME NEW top \in Nat, Sending(toPeer, n, top) PROVE Sending(toPeer', n, top)
      BY <1>1, <1>2, <2>1, SendingRest
    <2> QED BY <1>1, <1>2, <2>1, FewerFrames DEF Milder
  <1>4. Ordered(conn, toPeer', n)
    <2>1. SameSender(conn, conn) /\ conn.tcp # "SynReceived"
      BY <1>2 DEF SameSender, Ordered, Based
    <2> QED BY <1>2, <1>3, <2>1, OrderedKeeps
  <1>5. FinsLast'
    BY <1>1, <1>3 DEF SendInv, FinsLast, Milder
  <1>6. Asked' /\ Answered'
    BY <1>1 DEF SendInv, Asked, Answered
  <1>7. Ordered(conn', toPeer', Len(peer'.got)) /\ Hearing(peer')
    BY <1>1, <1>4 DEF SendInv
  <1> QED BY <1>5, <1>6, <1>7 DEF SendInv

\* What the peer sends joins what is on its way to us.
LEMMA PeerTells ==
    ASSUME RecvInv, SendInv, Careful, NEW q, PeerFit(q), NEW most, Grows(peer, q, most), PeerDoes(q),
           UNCHANGED conn
    PROVE  /\ Answered' /\ Hearing(peer') /\ peer'.got = q.got /\ peer'.eof = q.eof
  <1>1. q \in PeerRecord /\ peer.out = <<>>
    BY CarefulFacts DEF PeerFit
  <1>2. peer' = [q EXCEPT !.out = <<>>] /\ toUs' = toUs \o q.out
    BY DEF PeerDoes
  <1>3. /\ peer'.st = q.st /\ peer'.got = q.got /\ peer'.eof = q.eof /\ peer'.rcv = q.rcv
        /\ peer'.unread = q.unread
    BY <1>1, <1>2 DEF PeerRecord
  <1>4. Heard(peer') = Heard(q) /\ Room(peer') = Room(q)
    BY <1>3 DEF Heard, Room
  <1>5. Hearing(peer')
    BY <1>3, <1>4 DEF Grows, Hearing
  <1>6. ASSUME Awaits(conn)
        PROVE  /\ Telling(toUs', conn.rel, Edge(conn), Heard(q), Room(q)) /\ Edge(conn) <= Room(q)
    <2>1. Telling(toUs, conn.rel, Edge(conn), Heard(peer), Room(peer)) /\ Edge(conn) <= Room(peer)
      BY <1>6 DEF SendInv, Answered, Awaits
    <2>2. /\ toUs \in Seq(Segment) /\ conn.rel \in Nat /\ Edge(conn) \in Nat
          /\ Heard(peer) \in Nat /\ Room(peer) \in Nat /\ Heard(q) \in Nat /\ Room(q) \in Nat
          /\ Len(peer.got) <= Heard(peer) /\ Len(peer.got) \in Nat
      BY CarefulFacts, EdgeIsNat, HeardNumbers
    <2>3. Heard(peer) <= Heard(q) /\ Room(peer) <= Room(q)
      BY DEF Grows
    <2>4. conn.rel <= Len(peer.got)
      BY DEF SendInv, Ordered, Based
    <2> DEFINE e == Edge(conn)
               h == Heard(q)
               r == Room(q)
               h0 == Heard(peer)
               r0 == Room(peer)
    <2> HIDE DEF e, h, r, h0, r0
    <2>5. e <= r /\ conn.rel <= h /\ conn.rel <= conn.rel /\ e <= e
      <3>1. /\ e \in Nat /\ h \in Nat /\ r \in Nat /\ h0 \in Nat /\ r0 \in Nat /\ conn.rel \in Nat
            /\ e <= r0 /\ r0 <= r /\ h0 <= h /\ Len(peer.got) <= h0 /\ Len(peer.got) \in Nat
        BY <2>1, <2>2, <2>3 DEF e, h, r, h0, r0
      <3> QED BY <2>4, <3>1
    <2>6. Telling(toUs, conn.rel, e, h, r)
      BY <2>1, <2>2, <2>3, <2>5, TellingMore DEF e, h, r
    <2>7. CASE q.out = peer.out
      <3>1. toUs' = toUs
        BY <1>1, <1>2, <2>2, <2>7, JoinNone
      <3> QED BY <2>5, <2>6, <3>1 DEF e, h, r
    <2>8. CASE q.out # peer.out
      <3>1. PICK f \in Segment :
                /\ q.out = Append(peer.out, f)
                /\ "ACK" \in f.flags => f.ack = Mine(1 + Heard(q)) /\ Heard(q) + f.win = Room(q)
        BY <2>8 DEF Grows
      <3>2. toUs' = Append(toUs, f)
        <4>1. Append(<<>>, f) = <<f>>
          OBVIOUS
        <4>2. toUs \o <<f>> = Append(toUs, f)
          BY <2>2
        <4> QED BY <1>1, <1>2, <3>1, <4>1, <4>2
      <3>3. Telling(Append(toUs, f), conn.rel, e, h, r)
        BY <2>2, <2>5, <2>6, <3>1, TellingAppend DEF e, h, r
      <3> QED BY <2>5, <3>2, <3>3 DEF e, h, r
    <2> QED BY <2>7, <2>8
  <1>7. Answered'
    BY <1>4, <1>6 DEF Answered, Awaits
  <1> QED BY <1>3, <1>5, <1>7

\* The peer acts by itself.
LEMMA SpeaksOrders ==
    ASSUME RecvInv, SendInv, Careful, NEW q, PeerFit(q), Speaks(peer, q), PeerDoes(q),
           UNCHANGED <<scene, conn, app, toPeer>>
    PROVE  SendInv'
  <1> DEFINE n == Len(peer.got)
  <1>1. Answered' /\ Hearing(peer') /\ peer'.got = q.got /\ peer'.eof = peer.eof
    BY PeerTells DEF Speaks
  <1>2. Len(q.got) = n
    <2>1. n \in Nat /\ Len(q.got) \in Nat
      BY CarefulFacts, HeardNumbers
    <2> QED BY <2>1 DEF Speaks, Grows
  <1>3. Ordered(conn', toPeer', Len(peer'.got))
    BY <1>1, <1>2 DEF SendInv
  <1>4. FinsLast' /\ Asked'
    BY <1>1, <1>2 DEF SendInv, FinsLast, Asked
  <1> QED BY <1>1, <1>3, <1>4 DEF SendInv

LEMMA FarOrders ==
    ASSUME RecvInv, SendInv, Careful, PeerData \/ PeerRepeats \/ PeerRead \/ PeerAbort
    PROVE  SendInv'
  <1>1. Sound(peer) /\ Hearing(peer)
    BY CarefulFacts
  <1>2. UNCHANGED <<scene, conn, app, toPeer>>
    BY DEF PeerData, PeerRepeats, PeerRead, PeerAbort
  <1>3. PICK q : PeerDoes(q) /\ Speaks(peer, q) /\ Sound(q)
    <2>1. CASE PeerData
      <3>1. PICK m \in PeerMaySend(peer) : PeerDoes(PeerSendsData(peer, m))
        BY <2>1 DEF PeerData
      <3>2. Speaks(peer, PeerSendsData(peer, m)) /\ Sound(PeerSendsData(peer, m))
        BY <1>1, SendsDataSpeaks, PeerMore
      <3> QED BY <3>1, <3>2
    <2>2. CASE PeerRepeats
      <3>1. PeerDoes(PeerRepeatsSyn(peer)) /\ peer.st \in {"synSent", "synRcvd"}
        BY <2>2 DEF PeerRepeats
      <3>2. Speaks(peer, PeerRepeatsSyn(peer)) /\ Sound(PeerRepeatsSyn(peer))
        BY <1>1, <3>1, RepeatsSpeaks, PeerAgain
      <3> QED BY <3>1, <3>2
    <2>3. CASE PeerRead
      <3>1. PeerDoes(PeerReads(peer)) /\ peer.st = "estab"
        BY <2>3 DEF PeerRead
      <3>2. Speaks(peer, PeerReads(peer)) /\ Sound(PeerReads(peer))
        BY <1>1, <3>1, ReadsSpeaks, PeerEmpties
      <3> QED BY <3>1, <3>2
    <2>4. CASE PeerAbort
      <3>1. PeerDoes(PeerAborts(peer)) /\ peer.st = "estab"
        BY <2>4 DEF PeerAbort
      <3>2. Speaks(peer, PeerAborts(peer)) /\ Sound(PeerAborts(peer))
        BY <1>1, <3>1, AbortsSpeaks, PeerGivesUp
      <3> QED BY <3>1, <3>2
    <2> QED BY <2>1, <2>2, <2>3, <2>4
  <1> QED BY <1>2, <1>3, SpeaksOrders DEF Sound

LEMMA PeerReceivesOrders == ASSUME RecvInv, SendInv, Careful, PeerReceives PROVE SendInv'
  <1> DEFINE g == toPeer[1]
             q == PeerInput(peer, g)
             n == Len(peer.got)
             rest == Without(toPeer, 1)
  <1>1. PeerDoes(q) /\ toPeer' = rest /\ Len(toPeer) > 0 /\ UNCHANGED <<scene, conn, app>>
    <2>1. PICK i \in 1..Lesser(scene.reach, Len(toPeer)) :
              PeerDoes(PeerInput(peer, toPeer[i])) /\ toPeer' = Without(toPeer, i)
      BY DEF PeerReceives
    <2>2. scene.reach = 1 /\ toPeer \in Seq(Segment)
      BY CarefulFacts
    <2>3. Len(toPeer) \in Nat
      BY <2>2
    <2>4. i = 1 /\ Len(toPeer) > 0
      BY <2>2, <2>3 DEF Lesser
    <2> QED BY <2>1, <2>4 DEF PeerReceives
  <1>2. /\ toPeer \in Seq(Segment) /\ n \in Nat /\ Fit(conn) /\ Ordered(conn, toPeer, n)
        /\ Sound(peer) /\ Hearing(peer) /\ PeerFit(peer) /\ conn.rel \in Nat
    BY CarefulFacts
  <1>3. g \in Segment /\ Len(g.data) \in Nat /\ 1 \in 1..Len(toPeer)
    <2>1. 1 \in 1..Len(toPeer)
      BY <1>1, <1>2
    <2> QED BY <1>2, <2>1, FrameLens, FrameWins
  <1>4. \E top \in Nat :
           /\ Sending(toPeer, n, top)
           /\ Lasts(conn) => \E k \in 0..TxAvailable(conn) :
                 /\ Paced(conn, toPeer, n, k) /\ top = conn.rel + k
                 /\ conn.st = "Connected" => conn.seq = Mine(1 + conn.rel + k)
    <2>1. CASE Lasts(conn)
      <3>1. PICK k \in 0..TxAvailable(conn) :
                 /\ Paced(conn, toPeer, n, k)
                 /\ conn.st = "Connected" => conn.seq = Mine(1 + conn.rel + k)
        BY <1>2, <2>1 DEF Ordered
      <3>2. conn.rel + k \in Nat
        BY <1>2
      <3>3. Sending(toPeer, n, conn.rel + k)
        BY <3>1 DEF Paced
      <3> QED BY <3>1, <3>2, <3>3
    <2>2. CASE ~Lasts(conn)
      BY <1>2, <2>2 DEF Ordered, Based
    <2> QED BY <2>1, <2>2
  <1>5. PICK top \in Nat :
           /\ Sending(toPeer, n, top)
           /\ Lasts(conn) => \E k \in 0..TxAvailable(conn) :
                 /\ Paced(conn, toPeer, n, k) /\ top = conn.rel + k
                 /\ conn.st = "Connected" => conn.seq = Mine(1 + conn.rel + k)
    BY <1>4
  <1>6. PICK start \in 0..n :
              /\ Carries(g) => /\ Carried(g, start) /\ n <= start + Len(g.data)
                               /\ start + Len(g.data) <= top
              /\ Sending(rest, n, top)
              /\ Carries(g) /\ Fins(toPeer) => start + Len(g.data) <= n
              /\ Carries(g) => \A m \in Nat : n <= m /\ m <= start + Len(g.data) =>
                    Sending(rest, m, top)
    BY <1>1, <1>2, <1>5, SendingRest
  <1> DEFINE most == IF Carries(g) THEN start + Len(g.data) ELSE n
  <1>7. most \in Nat /\ n <= most /\ (Carries(g) => most = start + Len(g.data))
        /\ (~Carries(g) => most = n)
    BY <1>2, <1>3, <1>6
  <1>8. "FIN" \in g.flags => Fins(toPeer)
    BY <1>3 DEF Fins
  <1>9. "SYN" \in g.flags => g.seq = Iss
    <2>1. Syns(toPeer)
      BY <1>2 DEF Ordered, Based
    <2> QED BY <1>3, <2>1 DEF Syns
  <1> HIDE DEF g, rest, q, most
  <1>10. Brings(g, peer, start, most)
    BY <1>3, <1>6, <1>7, <1>9 DEF Brings
  <1>11. Hark(peer, q, g, most)
    BY <1>2, <1>10, PeerInputHarks DEF q
  <1>12. Sound(q) /\ PeerFit(q)
    BY <1>2, <1>3, PeerInputHears DEF q, Hears, Sound
  <1> DEFINE w == Len(q.got)
  <1>13. w \in Nat /\ n <= w /\ w <= most
    BY <1>11, <1>12, HeardNumbers DEF Hark, Grows
  <1>14. Answered' /\ Hearing(peer') /\ peer'.got = q.got /\ peer'.eof = q.eof
    BY <1>1, <1>11, <1>12, PeerTells DEF Hark
  <1> HIDE DEF w, n
  <1>15. Sending(rest, w, top)
    <2>1. CASE Carries(g)
      BY <1>6, <1>7, <1>13, <2>1
    <2>2. CASE ~Carries(g)
      <3>1. w = n
        BY <1>2, <1>7, <1>13, <2>2
      <3> QED BY <1>6, <3>1
    <2> QED BY <2>1, <2>2
  <1>16. w <= top \/ ~Carries(g)
    <2>1. Carries(g) => most <= top
      BY <1>6, <1>7
    <2> QED BY <1>7, <1>13, <2>1
  <1>17. Syns(rest) /\ (Fins(rest) => Fins(toPeer))
    <2>1. Syns(toPeer)
      BY <1>2 DEF Ordered, Based
    <2> QED BY <1>1, <1>2, <2>1, FewerFrames DEF rest
  <1>18. Ordered(conn, rest, w)
    <2>1. Based(conn, rest, w)
      <3>1. conn.rel <= n
        BY <1>2 DEF Ordered, Based
      <3>2. conn.rel <= w
        BY <1>2, <1>13, <3>1
      <3> QED BY <1>2, <1>15, <1>17, <3>2 DEF Ordered, Based
    <2>2. ASSUME Lasts(conn)
          PROVE  \E k \in 0..TxAvailable(conn) :
                    /\ Paced(conn, rest, w, k)
                    /\ conn.st = "Connected" => conn.seq = Mine(1 + conn.rel + k)
      <3>1. PICK k \in 0..TxAvailable(conn) :
                 /\ Paced(conn, toPeer, n, k) /\ top = conn.rel + k
                 /\ conn.st = "Connected" => conn.seq = Mine(1 + conn.rel + k)
        BY <1>5, <2>2
      <3>2. n <= top
        BY <3>1 DEF Paced
      <3>3. w <= top
        BY <1>2, <1>7, <1>13, <1>16, <3>2
      <3>4. Paced(conn, rest, w, k)
        BY <1>15, <3>1, <3>3 DEF Paced
      <3> QED BY <3>1, <3>4
    <2> QED BY <2>1, <2>2 DEF Ordered
  <1>19. FinsLast'
    <2>1. ASSUME Fins(rest) \/ q.eof PROVE app.closed /\ app.asked = w
      <3>1. CASE Fins(toPeer)
        <4>1. app.closed /\ app.asked = n
          BY <3>1 DEF SendInv, FinsLast, n
        <4>2. most <= n
          BY <1>2, <1>6, <1>7, <3>1
        <4>3. w = n
          BY <1>2, <1>7, <1>13, <4>2
        <4> QED BY <4>1, <4>3
      <3>2. CASE ~Fins(toPeer)
        <4>1. peer.eof
          BY <1>8, <1>11, <1>17, <2>1, <3>2 DEF Hark
        <4>2. w = n
          BY <1>11, <4>1 DEF Hark, Grows, w, n
        <4> QED BY <4>1, <4>2 DEF SendInv, FinsLast, n
      <3> QED BY <3>1, <3>2
    <2> QED BY <1>1, <1>14, <2>1 DEF FinsLast, w
  <1>20. Asked'
    BY <1>1 DEF SendInv, Asked
  <1>21. Ordered(conn', toPeer', Len(peer'.got))
    BY <1>1, <1>14, <1>18 DEF w
  <1> QED BY <1>14, <1>19, <1>20, <1>21 DEF SendInv

LEMMA InitOrders == Init => SendInv
  <1> SUFFICES ASSUME Init, Careful PROVE SendInv
    BY DEF SendInv
  <1>1. conn = BoundSocket /\ toPeer = <<>> /\ toUs = <<>>
        /\ app = [open |-> ~scene.passive, closed |-> FALSE, asked |-> 0, pending |-> 0,
                  full |-> FALSE, read |-> <<>>, eof |-> FALSE]
        /\ peer = Peer("listen", scene.bytes, scene.closes)
    BY DEF Init, Careful
  <1>2. conn.st = "Bound" /\ conn.tcp = "Closed" /\ conn.rel = 0 /\ conn.wr = 0
        /\ TxAvailable(conn) = 0
    BY <1>1 DEF BoundSocket, FreeSocket, TxAvailable
  <1>3. peer.st = "listen" /\ peer.got = <<>> /\ peer.eof = FALSE /\ peer.unread = 0
    BY <1>1 DEF Peer
  <1>4. Len(<<>>) = 0
    OBVIOUS
  <1>5. Len(peer.got) = 0 /\ Heard(peer) = 0
    BY <1>3, <1>4 DEF Heard
  <1>6. Room(peer) = PeerBuf /\ PeerBuf \in Nat
    BY <1>3, <1>5, PeerAssumption DEF Room
  <1>7. Sending(toPeer, 0, 0) /\ 0 \in Nat /\ 0 \in 0..0
    BY <1>1, SendingNone
  <1>8. Syns(toPeer) /\ ~Fins(toPeer)
    <2>1. 1..Len(toPeer) = {}
      BY <1>1, <1>4
    <2> QED BY <2>1 DEF Syns, Fins
  <1>9. Ordered(conn, toPeer, 0)
    <2>1. Based(conn, toPeer, 0)
      BY <1>2, <1>7, <1>8 DEF Based
    <2>2. Paced(conn, toPeer, 0, 0)
      BY <1>2, <1>7 DEF Paced
    <2> QED BY <1>2, <1>7, <2>1, <2>2 DEF Ordered
  <1>10. Hearing(peer)
    BY <1>3, <1>4 DEF Hearing
  <1>11. Answered
    <2>1. Edge(conn) = 0
      BY <1>2 DEF Edge
    <2> QED BY <1>1, <1>6, <2>1, TellingNone DEF Answered
  <1>12. FinsLast /\ Asked
    BY <1>1, <1>2, <1>3, <1>8 DEF FinsLast, Asked
  <1> QED BY <1>5, <1>9, <1>10, <1>11, <1>12 DEF SendInv

LEMMA NextOrders == RecvInv /\ SendInv /\ [Next]_vars => SendInv'
  <1> SUFFICES ASSUME RecvInv, SendInv, [Next]_vars PROVE SendInv'
    OBVIOUS
  <1>1. CASE UNCHANGED vars
    BY <1>1 DEF vars, SendInv, Careful, FinsLast, Asked, Answered
  <1>2. CASE ~Careful /\ Next
    <2>1. scene' = scene
      BY <1>2 DEF Next, App, Poll, Net, Far, Connect, Accept, SendStart, SendWrite, SendFull,
         SendWait, SendGivesUp, RecvBytes, RecvEof, Close, Deliver, Timer, LoseIn, LoseOut, PeerReceives, PeerData,
         PeerRepeats, PeerRead, PeerAbort
    <2>2. Careful' = Careful
      BY <2>1 DEF Careful
    <2> QED BY <1>2, <2>2 DEF SendInv
  <1>3. CASE Careful /\ App
    BY <1>3, ConnectOrders, SendStartOrders, SendWriteOrders, SendWaitOrders,
       SendGivesUpOrders, ReadOrders, CloseOrders DEF App
  <1>4. CASE Careful /\ Poll
    BY <1>4, DeliverOrders, TimerOrders DEF Poll
  <1>5. CASE Careful /\ Net
    BY <1>5, LoseInOrders, LoseOutOrders DEF Net
  <1>6. CASE Careful /\ Far
    BY <1>6, PeerReceivesOrders, FarOrders DEF Far
  <1> QED BY <1>1, <1>2, <1>3, <1>4, <1>5, <1>6 DEF Next

\* In the use Careful describes the frames on their way, the peer and the socket
\* agree on what is sent next (tcp.go:173-264).
THEOREM SendingOrdered == Spec => []SendInv
  BY Receives, InitOrders, NextOrders, PTL DEF Spec

\* In that use the peer gets the bytes in order, each once, the tx ring lets go of
\* nothing the peer has not got, and the FIN is behind the last byte
\* (tcp.go:173-264).
THEOREM CarefulSendsHold == Spec => []CarefulSends
  <1>1. RecvInv /\ SendInv => CarefulSends
    <2> SUFFICES ASSUME RecvInv, SendInv, Careful
                 PROVE  SentInOrder /\ ReleasedWereReceived /\ FinAfterAllData
      BY DEF CarefulSends
    <2>1. Hearing(peer) /\ Ordered(conn, toPeer, Len(peer.got)) /\ FinsLast /\ Asked
      BY DEF SendInv
    <2>2. peer.got \in Seq(Nat) /\ app.asked \in Nat /\ app.pending \in Nat
      BY CarefulFacts DEF PeerFit, PeerRecord
    <2>3. SentInOrder
      <3>1. peer.got = [i \in 1..Len(peer.got) |-> peer.got[i]]
        BY <2>2
      <3>2. \A i \in 1..Len(peer.got) : peer.got[i] = i
        BY <2>1 DEF Hearing
      <3> QED BY <3>1, <3>2 DEF SentInOrder, Prefix
    <2>4. ReleasedWereReceived
      BY <2>1 DEF Ordered, Based, ReleasedWereReceived
    <2>5. FinAfterAllData
      <3>1. peer.eof => app.asked = Len(peer.got) /\ app.pending = 0
        BY <2>1 DEF FinsLast, Asked
      <3> QED BY <2>2, <3>1 DEF FinAfterAllData
    <2> QED BY <2>3, <2>4, <2>5
  <1> QED BY <1>1, Receives, SendingOrdered, PTL
============================================================================
