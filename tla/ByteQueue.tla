----------------------------- MODULE ByteQueue -----------------------------
(***************************************************************************)
(* What one direction of a socket's buffering promises its callers: a      *)
(* bounded FIFO of bytes.  A write takes as much of the chunk as fits, a   *)
(* read removes the oldest bytes, a peek only copies them, and an advance  *)
(* drops bytes that an earlier peek copied.                                *)
(***************************************************************************)
EXTENDS Integers, Sequences

CONSTANTS
    Byte,       \* the values of a byte
    Capacity,   \* how many bytes the queue holds
    MaxLen      \* longest buffer a caller passes in

VARIABLES
    queue,      \* the bytes held, oldest first
    last        \* the last call: its count, and the bytes passed in or copied out

vars == <<queue, last>>

Chunk == UNION {[1..n -> Byte] : n \in 0..MaxLen}

Least(a, b) == IF a < b THEN a ELSE b

Init == queue = <<>> /\ last = [n |-> 0, data |-> <<>>]

Write ==
    \E data \in Chunk :
        LET n == Least(Len(data), Capacity - Len(queue)) IN
        /\ queue' = [i \in 1..(Len(queue) + n) |->
                        IF i <= Len(queue) THEN queue[i] ELSE data[i - Len(queue)]]
        /\ last' = [n |-> n, data |-> data]

Read ==
    \E want \in 0..MaxLen :
        LET n == Least(want, Len(queue)) IN
        /\ queue' = [i \in 1..(Len(queue) - n) |-> queue[i + n]]
        /\ last' = [n |-> n, data |-> [i \in 1..n |-> queue[i]]]

Peek ==
    \E want \in 0..MaxLen :
        LET n == Least(want, Len(queue)) IN
        /\ last' = [n |-> n, data |-> [i \in 1..n |-> queue[i]]]
        /\ UNCHANGED queue

Advance ==
    \E n \in 0..Len(queue) :
        /\ queue' = [i \in 1..(Len(queue) - n) |-> queue[i + n]]
        /\ last' = [n |-> 0, data |-> <<>>]

Reset == queue' = <<>> /\ last' = [n |-> 0, data |-> <<>>]

Next == Write \/ Read \/ Peek \/ Advance \/ Reset

Spec == Init /\ [][Next]_vars
=============================================================================
