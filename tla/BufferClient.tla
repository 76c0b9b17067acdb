---------------------------- MODULE BufferClient ----------------------------
(***************************************************************************)
(* A CircularBuffer under the operations its owners perform on it, each    *)
(* owner holding a lock around them (mSendBufferLock in Session.hpp,       *)
(* mMutex in ClientSession.hpp), so that each is one step: appending a     *)
(* message as Session::PostSend does, removing the bytes a completed send  *)
(* has transferred, and BufferReset.                                       *)
(***************************************************************************)
EXTENDS CircularBuffer

CONSTANTS Byte, Capacity, Messages, Lengths,
          Zero         \* the byte 0, with which the array is filled

ASSUME BufferAssumption ==
    /\ Capacity \in Nat \ {0}
    /\ Messages \subseteq Seq(Byte)
    /\ Lengths \subseteq Nat
    /\ Zero \in Byte

VARIABLE buf

Init == buf = Construct(Capacity, Zero)

\* Mutant: the free space is not checked.
PostSendUnchecked(data) == buf' = Append_(buf, data)

(***************************************************************************)
(* Session::PostSend(data, len), from its lock on: the message is copied   *)
(* behind the stored bytes and committed, or refused.  A refusal may still *)
(* have opened region B.                                                   *)
(***************************************************************************)
PostSend(data) ==
    /\ GetFreeSpaceSize(buf) >= Len(data)
    /\ buf' = Append_(buf, data)

PostSendRefused(data) ==
    /\ GetFreeSpaceSize(buf) < Len(data)
    /\ buf' = WithFreeSpace(buf)

\* SendCompletion(transferred), EchoBack: mSendBuffer.Remove(transferred)
RemoveBytes(len) == buf' = Remove(buf, len)

Reset == buf' = BufferReset(buf, Zero)

Next ==
    \/ \E data \in Messages : PostSend(data) \/ PostSendRefused(data)
    \/ \E len \in Lengths : RemoveBytes(len)
    \/ Reset

Spec == Init /\ [][Next]_buf

-----------------------------------------------------------------------------
TypeOK == buf \in Buffers(Byte, Capacity)

(***************************************************************************)
(* The regions stay inside the array and apart: A ends within it, B starts *)
(* at its beginning and ends before A, and an empty A lies at the start    *)
(* with no B.  It is why the size_t subtractions of GetAFreeSpace and      *)
(* GetBFreeSpace never wrap around, why a memcpy of GetFreeSpaceSize bytes *)
(* at GetBuffer stays within the array, and why a drained buffer offers    *)
(* its whole capacity again.                                               *)
(***************************************************************************)
RegionsApart == Apart(buf)

(***************************************************************************)
(* A step that removes nothing leaves every stored byte at its address     *)
(* with its value.  WSASend is given GetBufferStart() and reads from there *)
(* after the lock is released, so appending must never move or overwrite   *)
(* what is stored.                                                         *)
(***************************************************************************)
StoredBytesStay ==
    [][GetStoredSize(buf') >= GetStoredSize(buf) =>
          \A i \in Stored(buf) : i \in Stored(buf') /\ buf'.mem[i] = buf.mem[i]]_buf

(***************************************************************************)
(* The two regions implement a first-in first-out queue: whatever the      *)
(* wrapping, no byte is lost, duplicated or reordered.                     *)
(***************************************************************************)
Queue == INSTANCE ByteQueue WITH queue <- Contents(buf)

ImplementsQueue == Queue!Spec
=============================================================================
