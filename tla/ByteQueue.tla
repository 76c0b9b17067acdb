------------------------------ MODULE ByteQueue ------------------------------
(***************************************************************************)
(* What a byte buffer between a producer and a consumer promises: a first- *)
(* in first-out queue of at most Capacity bytes.  Nothing is said about    *)
(* where the bytes lie; CircularBuffer implements it (see BufferClient).   *)
(***************************************************************************)
EXTENDS Integers, Sequences

CONSTANTS Byte,      \* the values of a byte
          Capacity,  \* the most bytes the queue may hold
          Messages,  \* the byte strings a producer may append
          Lengths    \* the numbers of bytes a consumer may drop

VARIABLE queue

Init == queue = <<>>

Put(data) ==
    /\ Len(queue) + Len(data) <= Capacity
    /\ queue' = queue \o data

\* Dropping more bytes than there are empties the queue.
Drop(n) ==
    queue' = IF n >= Len(queue) THEN <<>> ELSE SubSeq(queue, n + 1, Len(queue))

Clear == queue' = <<>>

Next ==
    \/ \E data \in Messages : Put(data)
    \/ \E n \in Lengths : Drop(n)
    \/ Clear

Spec == Init /\ [][Next]_queue
=============================================================================
