--------------------------- MODULE CircularBuffer ---------------------------
(***************************************************************************)
(* class CircularBuffer (CircularBuffer.hpp): a "bip buffer" that keeps    *)
(* its bytes in two regions of one array.  Region A holds the older bytes, *)
(* region B, when it exists, lies before A and holds the younger ones.     *)
(*                                                                         *)
(* The object is a record with the fields of the class.  A char* is the    *)
(* offset of its target from mBuffer, so mBuffer is 0, mBufferEnd is       *)
(* mCapacity, and nullptr is an offset outside the array; the array itself *)
(* is the field mem.  A const method is an operator of the record, a       *)
(* method that changes the object is an operator that returns the new      *)
(* record.  size_t subtractions are written without their wrap-around:     *)
(* the invariants of the clients show that none of them goes below zero.   *)
(***************************************************************************)
EXTENDS Integers, Sequences

nullptr == -1

Smaller(m, n) == IF m > n THEN n ELSE m

(***************************************************************************)
(* The array of new char[capacity] holds arbitrary bytes; junk stands for  *)
(* them.  BufferReset overwrites them with the byte 0.                     *)
(***************************************************************************)
Construct(capacity, junk) ==
    [mem |-> [i \in 0 .. capacity - 1 |-> junk], mCapacity |-> capacity,
     mARegionPointer |-> 0, mARegionSize |-> 0,
     mBRegionPointer |-> nullptr, mBRegionSize |-> 0]

BufferReset(b, zero) == Construct(b.mCapacity, zero)

GetAFreeSpace(b) == b.mCapacity - b.mARegionPointer - b.mARegionSize

GetSpaceBeforeA(b) == b.mARegionPointer

GetBFreeSpace(b) ==
    IF b.mBRegionPointer = nullptr
    THEN 0
    ELSE b.mARegionPointer - b.mBRegionPointer - b.mBRegionSize

AllocateB(b) == [b EXCEPT !.mBRegionPointer = 0]

(***************************************************************************)
(* GetFreeSpaceSize is not a query: it opens region B when there is more   *)
(* room before A than behind it.  WithFreeSpace is the object it leaves,   *)
(* GetFreeSpaceSize the number it returns.                                 *)
(***************************************************************************)
WithFreeSpace(b) ==
    IF b.mBRegionPointer = nullptr /\ GetAFreeSpace(b) < GetSpaceBeforeA(b)
    THEN AllocateB(b)
    ELSE b

GetFreeSpaceSize(b) ==
    LET c == WithFreeSpace(b)
    IN  IF c.mBRegionPointer # nullptr THEN GetBFreeSpace(c) ELSE GetAFreeSpace(c)

GetStoredSize(b) == b.mARegionSize + b.mBRegionSize

\* The reader's end: where the oldest bytes start and how many lie together.
GetContiguiousBytes(b) ==
    IF b.mARegionSize > 0 THEN b.mARegionSize ELSE b.mBRegionSize

GetBufferStart(b) ==
    IF b.mARegionSize > 0 THEN b.mARegionPointer ELSE b.mBRegionPointer

\* The writer's end: where the next bytes go, and the commit of len of them.
GetBufferAtB(b) ==   \* mutant: the bytes already in region B are forgotten
    IF b.mBRegionPointer # nullptr
    THEN b.mBRegionPointer
    ELSE b.mARegionPointer + b.mARegionSize

GetBuffer(b) ==
    IF b.mBRegionPointer # nullptr
    THEN b.mBRegionPointer + b.mBRegionSize
    ELSE b.mARegionPointer + b.mARegionSize

Commit(b, len) ==
    IF b.mBRegionPointer # nullptr
    THEN [b EXCEPT !.mBRegionSize = @ + len]
    ELSE [b EXCEPT !.mARegionSize = @ + len]

(***************************************************************************)
(* Region A is drained: region B, what is left of it, is moved from offset *)
(* from to the start of the array and becomes region A.                    *)
(***************************************************************************)
PromoteBInPlace(b, from, size) ==   \* mutant: mARegionPointer keeps its value
    [b EXCEPT !.mem = [i \in 0 .. b.mCapacity - 1 |->
                          IF i < size THEN b.mem[from + i] ELSE b.mem[i]],
              !.mARegionSize = size, !.mBRegionPointer = nullptr, !.mBRegionSize = 0]

PromoteBUnmoved(b, from, size) ==   \* mutant: the bytes are not moved
    [b EXCEPT !.mARegionPointer = 0, !.mARegionSize = size,
              !.mBRegionPointer = nullptr, !.mBRegionSize = 0]

PromoteB(b, from, size) ==
    [b EXCEPT !.mem = [i \in 0 .. b.mCapacity - 1 |->
                          IF i < size THEN b.mem[from + i] ELSE b.mem[i]],
              !.mARegionPointer = 0, !.mARegionSize = size,
              !.mBRegionPointer = nullptr, !.mBRegionSize = 0]

\* Remove(len) drops the len oldest bytes, or all of them when there are fewer.
Remove(b, len) ==
    LET aRemove == Smaller(len, b.mARegionSize)
        aSize   == b.mARegionSize - aRemove
        bRemove == Smaller(len - aRemove, b.mBRegionSize)
    IN  IF aSize > 0
        THEN [b EXCEPT !.mARegionPointer = @ + aRemove, !.mARegionSize = aSize]
        ELSE PromoteB(b, b.mBRegionPointer + bRemove, b.mBRegionSize - bRemove)

-----------------------------------------------------------------------------
(***************************************************************************)
(* What the callers do with the pointers they get.                         *)
(***************************************************************************)

\* memcpy(destData, data, len) at offset dest; data is a sequence of bytes.
Memcpy(b, dest, data) ==
    [b EXCEPT !.mem = [i \in 0 .. b.mCapacity - 1 |->
                          IF i \in dest .. dest + Len(data) - 1
                          THEN data[i - dest + 1] ELSE b.mem[i]]]

\* Appending a message: the room is asked for, filled and committed.
Append_(b, data) ==
    LET c == WithFreeSpace(b)
    IN  Commit(Memcpy(c, GetBuffer(c), data), Len(data))

\* The len bytes that start at offset start, as WSASend reads them.
BytesAt(b, start, len) == [i \in 1 .. len |-> b.mem[start + i - 1]]

-----------------------------------------------------------------------------
(***************************************************************************)
(* The states of a buffer of capacity bytes, and how its regions lie in    *)
(* the states its operations reach.                                        *)
(***************************************************************************)
Buffers(Byte, capacity) ==
    [mem : [0 .. capacity - 1 -> Byte], mCapacity : {capacity},
     mARegionPointer : 0 .. capacity, mARegionSize : 0 .. capacity,
     mBRegionPointer : {nullptr, 0}, mBRegionSize : 0 .. capacity]

Apart(b) ==
    /\ b.mARegionPointer + b.mARegionSize <= b.mCapacity
    /\ b.mARegionSize = 0 => b.mARegionPointer = 0 /\ b.mBRegionPointer = nullptr
    /\ b.mBRegionPointer = nullptr => b.mBRegionSize = 0
    /\ b.mBRegionPointer # nullptr => b.mBRegionSize <= b.mARegionPointer

\* The stored bytes, oldest first.
Contents(b) ==
    [i \in 1 .. GetStoredSize(b) |->
        IF i <= b.mARegionSize
        THEN b.mem[b.mARegionPointer + i - 1]
        ELSE b.mem[b.mBRegionPointer + (i - b.mARegionSize) - 1]]

\* The addresses that hold stored bytes.
Stored(b) ==
    (b.mARegionPointer .. b.mARegionPointer + b.mARegionSize - 1)
        \cup (b.mBRegionPointer .. b.mBRegionPointer + b.mBRegionSize - 1)
=============================================================================
