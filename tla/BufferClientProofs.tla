------------------------- MODULE BufferClientProofs -------------------------
(***************************************************************************)
(* For every capacity, byte set and set of messages: the regions of a      *)
(* CircularBuffer stay apart, appending never moves a stored byte, and the *)
(* buffer implements a first-in first-out queue.                           *)
(*                                                                         *)
(* TypeOK /\ RegionsApart is inductive: the lemmas of CircularBufferProofs *)
(* say what each method does to a buffer whose regions are apart, and the  *)
(* two other theorems follow from it step by step.                         *)
(***************************************************************************)
EXTENDS BufferClient, CircularBufferProofs

IInv == TypeOK /\ RegionsApart

LEMMA IInvBuffer ==
    ASSUME IInv
    PROVE  Capacity \in Nat /\ buf \in Buffers(Byte, Capacity) /\ Apart(buf)
  BY BufferAssumption DEF IInv, TypeOK, RegionsApart

LEMMA InitOK == Init => IInv
  BY BufferAssumption, ConstructFields DEF Init, IInv, TypeOK, RegionsApart

\* What a successful PostSend has checked.
LEMMA PostSendFits ==
    ASSUME IInv, NEW data \in Messages, PostSend(data)
    PROVE  /\ data \in Seq(Byte)
           /\ Len(data) <= GetFreeSpaceSize(buf)
           /\ buf' = Append_(buf, data)
  <1> DEFINE c == WithFreeSpace(buf)
  <1>1. c = WithFreeSpace(buf)
    OBVIOUS
  <1> HIDE DEF c
  <1>2. /\ GetFreeSpaceSize(buf) =
              IF c.mBRegionPointer # nullptr
              THEN c.mARegionPointer - c.mBRegionSize
              ELSE Capacity - c.mARegionPointer - c.mARegionSize
        /\ c \in Buffers(Byte, Capacity)
    BY <1>1, IInvBuffer, WithFreeSpaceFields
  <1>3. GetFreeSpaceSize(buf) \in Int
    BY <1>2, IInvBuffer DEF Buffers
  <1>4. data \in Seq(Byte)
    BY BufferAssumption
  <1>5. Len(data) \in Int
    BY <1>4
  <1> QED BY <1>3, <1>4, <1>5 DEF PostSend

LEMMA ResetIsConstruct ==
    ASSUME IInv, Reset
    PROVE  buf' = Construct(Capacity, Zero)
  <1>1. buf.mCapacity = Capacity
    BY IInvBuffer DEF Buffers
  <1> QED BY <1>1 DEF Reset, BufferReset

LEMMA NextOK == IInv /\ [Next]_buf => IInv'
  <1> SUFFICES ASSUME IInv, [Next]_buf
               PROVE  buf' \in Buffers(Byte, Capacity) /\ Apart(buf')
    BY DEF IInv, TypeOK, RegionsApart
  <1>1. ASSUME NEW data \in Messages, PostSend(data)
        PROVE  buf' \in Buffers(Byte, Capacity) /\ Apart(buf')
    BY <1>1, IInvBuffer, PostSendFits, AppendApart
  <1>2. ASSUME NEW data \in Messages, PostSendRefused(data)
        PROVE  buf' \in Buffers(Byte, Capacity) /\ Apart(buf')
    BY <1>2, IInvBuffer, WithFreeSpaceFields DEF PostSendRefused
  <1>3. ASSUME NEW len \in Lengths, RemoveBytes(len)
        PROVE  buf' \in Buffers(Byte, Capacity) /\ Apart(buf')
    <2>1. len \in Nat
      BY BufferAssumption
    <2> QED BY <1>3, <2>1, IInvBuffer, RemoveFields DEF RemoveBytes
  <1>4. CASE Reset
    BY <1>4, IInvBuffer, ResetIsConstruct, BufferAssumption, ConstructFields
  <1>5. CASE UNCHANGED buf
    BY <1>5, IInvBuffer
  <1> QED BY <1>1, <1>2, <1>3, <1>4, <1>5 DEF Next

(***************************************************************************)
(* The fields of a CircularBuffer keep their types and its regions stay    *)
(* inside the array and apart, whatever is appended, removed and reset: no *)
(* size_t of CircularBuffer.hpp wraps around and no memcpy of a client     *)
(* leaves the array.                                                       *)
(***************************************************************************)
THEOREM RegionsStayApart == Spec => [](TypeOK /\ RegionsApart)
  <1>1. Spec => []IInv
    BY InitOK, NextOK, PTL DEF Spec
  <1> QED BY <1>1 DEF IInv

(***************************************************************************)
(* Type correctness of the buffer, its offsets and sizes in particular.    *)
(***************************************************************************)
THEOREM BufferTypes == Spec => []TypeOK
  BY RegionsStayApart, PTL

-----------------------------------------------------------------------------
LEMMA NextStays ==
    ASSUME IInv, [Next]_buf, GetStoredSize(buf') >= GetStoredSize(buf)
    PROVE  \A i \in Stored(buf) : i \in Stored(buf') /\ buf'.mem[i] = buf.mem[i]
  <1>0. /\ Len(Contents(buf)) = GetStoredSize(buf) /\ GetStoredSize(buf) \in Nat
        /\ buf.mARegionSize \in Nat /\ buf.mBRegionSize \in Nat
        /\ Contents(buf) \in Seq(Byte)
    <2>1. /\ Contents(buf) \in Seq(Byte)
          /\ Len(Contents(buf)) = buf.mARegionSize + buf.mBRegionSize
      BY IInvBuffer, ContentsType
    <2>2. buf.mARegionSize \in Nat /\ buf.mBRegionSize \in Nat
      BY IInvBuffer DEF Buffers
    <2> QED BY <2>1, <2>2 DEF GetStoredSize
  <1>1. ASSUME NEW data \in Messages, PostSend(data)
        PROVE  \A i \in Stored(buf) : i \in Stored(buf') /\ buf'.mem[i] = buf.mem[i]
    BY <1>1, IInvBuffer, PostSendFits, AppendStays
  <1>2. ASSUME NEW data \in Messages, PostSendRefused(data)
        PROVE  \A i \in Stored(buf) : i \in Stored(buf') /\ buf'.mem[i] = buf.mem[i]
    <2>1. /\ buf'.mem = buf.mem
          /\ buf'.mARegionPointer = buf.mARegionPointer
          /\ buf'.mARegionSize = buf.mARegionSize
          /\ buf'.mBRegionSize = buf.mBRegionSize
          /\ buf.mBRegionPointer # nullptr => buf'.mBRegionPointer # nullptr
          /\ buf' \in Buffers(Byte, Capacity)
      BY <1>2, IInvBuffer, WithFreeSpaceFields DEF PostSendRefused
    <2>2. CASE buf.mBRegionPointer = nullptr
      <3>1. buf.mBRegionSize = 0
        BY <2>2, IInvBuffer DEF Apart
      <3>2. buf.mBRegionPointer .. buf.mBRegionPointer + buf.mBRegionSize - 1 = {}
        BY <2>2, <3>1 DEF nullptr
      <3> QED BY <2>1, <3>2 DEF Stored
    <2>3. CASE buf.mBRegionPointer # nullptr
      <3>1. buf'.mBRegionPointer = buf.mBRegionPointer
        BY <2>1, <2>3, IInvBuffer DEF Buffers
      <3> QED BY <2>1, <3>1 DEF Stored
    <2> QED BY <2>2, <2>3
  <1>3. ASSUME NEW len \in Lengths, RemoveBytes(len)
        PROVE  \A i \in Stored(buf) : i \in Stored(buf') /\ buf'.mem[i] = buf.mem[i]
    <2>0. len \in Nat /\ buf' = Remove(buf, len)
      BY <1>3, BufferAssumption DEF RemoveBytes
    <2>1. CASE buf.mARegionSize = 0
      <3>1. buf.mARegionPointer = 0 /\ buf.mBRegionPointer = nullptr /\ buf.mBRegionSize = 0
        BY <2>1, IInvBuffer DEF Apart
      <3>2. Stored(buf) = {}
        BY <2>1, <3>1 DEF Stored, nullptr
      <3> QED BY <3>2
    <2>2. CASE buf.mARegionSize > 0 /\ len = 0
      <3>1. /\ buf'.mem = buf.mem
            /\ buf'.mARegionPointer = buf.mARegionPointer + len
            /\ buf'.mARegionSize = buf.mARegionSize - len
            /\ buf'.mBRegionPointer = buf.mBRegionPointer
            /\ buf'.mBRegionSize = buf.mBRegionSize
        BY <2>0, <2>2, IInvBuffer, RemoveFields
      <3>2. /\ buf'.mARegionPointer = buf.mARegionPointer
            /\ buf'.mARegionSize = buf.mARegionSize
        BY <2>2, <3>1, IInvBuffer DEF Buffers
      <3> QED BY <3>1, <3>2 DEF Stored
    <2>3. CASE buf.mARegionSize > 0 /\ len > 0
      <3>1. Contents(buf') = IF len >= Len(Contents(buf)) THEN <<>>
                             ELSE SubSeq(Contents(buf), len + 1, Len(Contents(buf)))
        BY <2>0, IInvBuffer, RemoveContents
      <3>2. buf' \in Buffers(Byte, Capacity) /\ Apart(buf')
        BY <2>0, IInvBuffer, RemoveFields
      <3>3. Len(Contents(buf')) = GetStoredSize(buf')
        BY <3>2, IInvBuffer, ContentsType DEF GetStoredSize
      <3>4. Len(Contents(buf)) > 0
        BY <1>0, <2>3 DEF GetStoredSize
      <3>5. Len(Contents(buf')) < Len(Contents(buf))
        BY <1>0, <2>0, <2>3, <3>1, <3>4
      <3> QED BY <1>0, <3>3, <3>5
    <2> QED BY <1>0, <2>0, <2>1, <2>2, <2>3
  <1>4. CASE Reset
    <2>1. buf' \in Buffers(Byte, Capacity) /\ Apart(buf') /\ Contents(buf') = <<>>
      BY <1>4, IInvBuffer, ResetIsConstruct, BufferAssumption, ConstructFields
    <2>2. Len(Contents(buf')) = GetStoredSize(buf')
      BY <2>1, IInvBuffer, ContentsType DEF GetStoredSize
    <2>3. GetStoredSize(buf) = 0
      BY <1>0, <2>1, <2>2
    <2>4. buf.mARegionSize = 0
      BY <1>0, <2>3 DEF GetStoredSize
    <2>5. buf.mARegionPointer = 0 /\ buf.mBRegionPointer = nullptr /\ buf.mBRegionSize = 0
      BY <2>4, IInvBuffer DEF Apart
    <2>6. Stored(buf) = {}
      BY <2>4, <2>5 DEF Stored, nullptr
    <2> QED BY <2>6
  <1>5. CASE UNCHANGED buf
    BY <1>5
  <1> QED BY <1>1, <1>2, <1>3, <1>4, <1>5 DEF Next

(***************************************************************************)
(* Whatever a WSASend that is reading the buffer may still read stays      *)
(* where it is: no append, refused append or empty removal moves or        *)
(* changes a stored byte (PostSend after FlushSend in Session.hpp).        *)
(***************************************************************************)
THEOREM InFlightBytesStay == Spec => StoredBytesStay
  <1>1. Spec => []IInv
    BY InitOK, NextOK, PTL DEF Spec
  <1>2. IInv /\ [Next]_buf =>
           [GetStoredSize(buf') >= GetStoredSize(buf) =>
               \A i \in Stored(buf) : i \in Stored(buf') /\ buf'.mem[i] = buf.mem[i]]_buf
    BY NextStays
  <1> QED BY <1>1, <1>2, PTL DEF Spec, StoredBytesStay

-----------------------------------------------------------------------------
LEMMA StepRefines ==
    ASSUME IInv, [Next]_buf
    PROVE  [Queue!Next]_(Contents(buf))
  <1>0. /\ Contents(buf) \in Seq(Byte) /\ Len(Contents(buf)) \in Nat
    BY IInvBuffer, ContentsType
  <1>1. ASSUME NEW data \in Messages, PostSend(data)
        PROVE  Queue!Put(data)
    <2>1. Contents(buf') = Contents(buf) \o data
      BY <1>1, IInvBuffer, PostSendFits, AppendContents
    <2>2. buf' \in Buffers(Byte, Capacity) /\ Apart(buf')
      BY <1>1, IInvBuffer, PostSendFits, AppendApart
    <2>3. Len(Contents(buf')) <= Capacity
      BY <2>2, IInvBuffer, ContentsType
    <2>4. data \in Seq(Byte)
      BY BufferAssumption
    <2>5. Len(Contents(buf) \o data) = Len(Contents(buf)) + Len(data)
      BY <1>0, <2>4, ConcatProperties
    <2>6. Len(Contents(buf)) + Len(data) <= Capacity
      BY <2>1, <2>3, <2>5
    <2> QED BY <2>1, <2>6 DEF Queue!Put
  <1>2. ASSUME NEW data \in Messages, PostSendRefused(data)
        PROVE  Contents(buf') = Contents(buf)
    <2>1. buf' = WithFreeSpace(buf)
      BY <1>2 DEF PostSendRefused
    <2>2. Contents(WithFreeSpace(buf)) = Contents(buf)
      BY IInvBuffer, WithFreeSpaceContents
    <2> QED BY <2>1, <2>2
  <1>3. ASSUME NEW len \in Lengths, RemoveBytes(len)
        PROVE  Queue!Drop(len)
    <2>1. len \in Nat
      BY BufferAssumption
    <2> QED BY <1>3, <2>1, IInvBuffer, RemoveContents DEF RemoveBytes, Queue!Drop
  <1>4. CASE Reset
    <2>1. Contents(buf') = <<>>
      BY <1>4, IInvBuffer, ResetIsConstruct, BufferAssumption, ConstructFields
    <2> QED BY <2>1 DEF Queue!Clear, Queue!Next
  <1>5. CASE UNCHANGED buf
    BY <1>5
  <1> QED BY <1>1, <1>2, <1>3, <1>4, <1>5 DEF Next, Queue!Next

(***************************************************************************)
(* The two regions implement a first-in first-out byte queue: whatever is  *)
(* appended comes out once, whole and in order.                            *)
(***************************************************************************)
THEOREM BufferImplementsQueue == Spec => ImplementsQueue
  <1>1. Init => Queue!Init
    BY BufferAssumption, ConstructFields DEF Init, Queue!Init
  <1>2. Spec => []IInv
    BY InitOK, NextOK, PTL DEF Spec
  <1>3. IInv /\ [Next]_buf => [Queue!Next]_(Contents(buf))
    BY StepRefines
  <1> QED BY <1>1, <1>2, <1>3, PTL DEF Spec, ImplementsQueue, Queue!Spec
=============================================================================
