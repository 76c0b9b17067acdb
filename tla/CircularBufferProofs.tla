------------------------ MODULE CircularBufferProofs ------------------------
(***************************************************************************)
(* What the operations of CircularBuffer do to an arbitrary buffer whose   *)
(* regions are apart, and what the sessions that send from it need.        *)
(***************************************************************************)
EXTENDS CircularBuffer, SequenceTheorems, TLAPS

LEMMA WithFreeSpaceFields ==
    ASSUME NEW Byte, NEW cap \in Nat, NEW b \in Buffers(Byte, cap), Apart(b),
           NEW c, c = WithFreeSpace(b)
    PROVE  /\ c \in Buffers(Byte, cap)
           /\ Apart(c)
           /\ c.mem = b.mem /\ c.mCapacity = cap
           /\ c.mARegionPointer = b.mARegionPointer
           /\ c.mARegionSize = b.mARegionSize
           /\ c.mBRegionSize = b.mBRegionSize
           /\ b.mBRegionPointer # nullptr => c.mBRegionPointer # nullptr
           /\ GetFreeSpaceSize(b) =
                 IF c.mBRegionPointer # nullptr
                 THEN c.mARegionPointer - c.mBRegionSize
                 ELSE cap - c.mARegionPointer - c.mARegionSize
  <1> DEFINE opens == b.mBRegionPointer = nullptr /\ cap - b.mARegionPointer - b.mARegionSize < b.mARegionPointer
  <1>1. c = IF opens THEN [b EXCEPT !.mBRegionPointer = 0] ELSE b
    BY DEF WithFreeSpace, AllocateB, GetAFreeSpace, GetSpaceBeforeA, Buffers
  <1>2. GetFreeSpaceSize(b) = IF c.mBRegionPointer # nullptr THEN GetBFreeSpace(c) ELSE GetAFreeSpace(c)
    BY DEF GetFreeSpaceSize
  <1>3. CASE opens
    <2>1. /\ c.mem = b.mem /\ c.mCapacity = cap
          /\ c.mARegionPointer = b.mARegionPointer /\ c.mARegionSize = b.mARegionSize
          /\ c.mBRegionPointer = 0 /\ c.mBRegionSize = b.mBRegionSize
          /\ c \in Buffers(Byte, cap)
      BY <1>1, <1>3 DEF Buffers
    <2>2. Apart(c)
      BY <1>3, <2>1 DEF Apart, Buffers, nullptr
    <2>3. GetFreeSpaceSize(b) = c.mARegionPointer - c.mBRegionSize
      BY <1>2, <2>1 DEF GetBFreeSpace, nullptr, Buffers
    <2> QED BY <1>3, <2>1, <2>2, <2>3 DEF nullptr
  <1>4. CASE ~opens
    BY <1>1, <1>2, <1>4 DEF GetAFreeSpace, GetBFreeSpace, Buffers, nullptr
  <1> QED BY <1>3, <1>4

\* The fields of the buffer after a message is appended to it.
LEMMA AppendFields ==
    ASSUME NEW Byte, NEW cap \in Nat, NEW b \in Buffers(Byte, cap), Apart(b),
           NEW data \in Seq(Byte), Len(data) <= GetFreeSpaceSize(b),
           NEW c, c = WithFreeSpace(b),
           NEW dest, dest = GetBuffer(c),
           NEW n, n = Append_(b, data)
    PROVE  /\ dest \in Nat
           /\ dest + Len(data) <= cap
           /\ n \in Buffers(Byte, cap)
           /\ \A i \in 0 .. cap - 1 :
                 n.mem[i] = IF i \in dest .. dest + Len(data) - 1
                            THEN data[i - dest + 1] ELSE b.mem[i]
           /\ n.mARegionPointer = b.mARegionPointer
           /\ n.mBRegionPointer = c.mBRegionPointer
           /\ n.mARegionSize = IF c.mBRegionPointer # nullptr
                               THEN b.mARegionSize ELSE b.mARegionSize + Len(data)
           /\ n.mBRegionSize = IF c.mBRegionPointer # nullptr
                               THEN b.mBRegionSize + Len(data) ELSE b.mBRegionSize
  <1> DEFINE mem == [i \in 0 .. cap - 1 |->
                        IF i \in dest .. dest + Len(data) - 1
                        THEN data[i - dest + 1] ELSE b.mem[i]]
             d == [c EXCEPT !.mem = mem]
  <1>1. /\ c \in Buffers(Byte, cap) /\ Apart(c)
        /\ c.mem = b.mem /\ c.mCapacity = cap
        /\ c.mARegionPointer = b.mARegionPointer /\ c.mARegionSize = b.mARegionSize
        /\ c.mBRegionSize = b.mBRegionSize
    BY WithFreeSpaceFields
  <1>2. Len(data) \in Nat
    OBVIOUS
  <1>3. dest \in Nat /\ dest + Len(data) <= cap
    <2>1. GetFreeSpaceSize(b) = IF c.mBRegionPointer # nullptr
                                THEN c.mARegionPointer - c.mBRegionSize
                                ELSE cap - c.mARegionPointer - c.mARegionSize
      BY WithFreeSpaceFields
    <2> QED BY <1>1, <1>2, <2>1 DEF GetBuffer, Buffers, Apart, nullptr
  <1>4. mem \in [0 .. cap - 1 -> Byte]
    <2>1. ASSUME NEW i \in 0 .. cap - 1, i \in dest .. dest + Len(data) - 1
          PROVE  data[i - dest + 1] \in Byte
      BY <1>2, <1>3, <2>1
    <2>2. b.mem \in [0 .. cap - 1 -> Byte]
      BY DEF Buffers
    <2> QED BY <2>1, <2>2
  <1>5. Memcpy(c, dest, data) = d
    BY <1>1 DEF Memcpy
  <1>6. n = Commit(d, Len(data))
    BY <1>5 DEF Append_
  <1> HIDE DEF mem
  <1>7. /\ d.mem = mem /\ d.mCapacity = cap
        /\ d.mARegionPointer = b.mARegionPointer /\ d.mARegionSize = b.mARegionSize
        /\ d.mBRegionPointer = c.mBRegionPointer /\ d.mBRegionSize = b.mBRegionSize
        /\ d \in Buffers(Byte, cap)
    BY <1>1, <1>4 DEF Buffers
  <1> HIDE DEF d
  <1>8. /\ n.mem = mem
        /\ n.mARegionPointer = b.mARegionPointer
        /\ n.mBRegionPointer = c.mBRegionPointer
        /\ n.mARegionSize = IF c.mBRegionPointer # nullptr
                            THEN b.mARegionSize ELSE b.mARegionSize + Len(data)
        /\ n.mBRegionSize = IF c.mBRegionPointer # nullptr
                            THEN b.mBRegionSize + Len(data) ELSE b.mBRegionSize
    BY <1>6, <1>7 DEF Commit, Buffers
  <1>9. n \in Buffers(Byte, cap)
    <2>1. CASE c.mBRegionPointer # nullptr
      <3>1. b.mBRegionSize + Len(data) \in 0 .. cap
        BY <2>1, <1>1, <1>2, <1>3 DEF Buffers, GetBuffer, nullptr
      <3> DEFINE size == b.mBRegionSize + Len(data)
      <3>2. n = [d EXCEPT !.mBRegionSize = size]
        BY <2>1, <1>6, <1>7 DEF Commit
      <3>3. size \in 0 .. cap
        BY <3>1
      <3> HIDE DEF size
      <3> QED BY <3>2, <3>3, <1>7 DEF Buffers
    <2>2. CASE c.mBRegionPointer = nullptr
      <3>1. b.mARegionSize + Len(data) \in 0 .. cap
        BY <2>2, <1>1, <1>2, <1>3 DEF Buffers, GetBuffer, nullptr
      <3> DEFINE size == b.mARegionSize + Len(data)
      <3>2. n = [d EXCEPT !.mARegionSize = size]
        BY <2>2, <1>6, <1>7 DEF Commit
      <3>3. size \in 0 .. cap
        BY <3>1
      <3> HIDE DEF size
      <3> QED BY <3>2, <3>3, <1>7 DEF Buffers
    <2> QED BY <2>1, <2>2
  <1> QED BY <1>3, <1>8, <1>9 DEF mem

LEMMA AppendApart ==
    ASSUME NEW Byte, NEW cap \in Nat, NEW b \in Buffers(Byte, cap), Apart(b),
           NEW data \in Seq(Byte), Len(data) <= GetFreeSpaceSize(b)
    PROVE  Append_(b, data) \in Buffers(Byte, cap) /\ Apart(Append_(b, data))
  <1> DEFINE c == WithFreeSpace(b)
             dest == GetBuffer(c)
             n == Append_(b, data)
  <1>0. c = WithFreeSpace(b) /\ dest = GetBuffer(c) /\ n = Append_(b, data)
    OBVIOUS
  <1> HIDE DEF c, dest, n
  <1>1. /\ c \in Buffers(Byte, cap) /\ Apart(c)
        /\ c.mARegionPointer = b.mARegionPointer /\ c.mARegionSize = b.mARegionSize
        /\ c.mBRegionSize = b.mBRegionSize
        /\ GetFreeSpaceSize(b) = IF c.mBRegionPointer # nullptr
                                 THEN c.mARegionPointer - c.mBRegionSize
                                 ELSE cap - c.mARegionPointer - c.mARegionSize
    BY <1>0, WithFreeSpaceFields
  <1>2. /\ n \in Buffers(Byte, cap)
        /\ n.mARegionPointer = b.mARegionPointer
        /\ n.mBRegionPointer = c.mBRegionPointer
        /\ n.mARegionSize = IF c.mBRegionPointer # nullptr
                            THEN b.mARegionSize ELSE b.mARegionSize + Len(data)
        /\ n.mBRegionSize = IF c.mBRegionPointer # nullptr
                            THEN b.mBRegionSize + Len(data) ELSE b.mBRegionSize
    BY <1>0, AppendFields
  <1>3. Len(data) \in Nat
    OBVIOUS
  <1>4. Apart(n)
    BY <1>1, <1>2, <1>3 DEF Apart, Buffers, nullptr
  <1> QED BY <1>2, <1>4 DEF n

\* The fields of the buffer after the len oldest bytes are removed.
LEMMA RemoveFields ==
    ASSUME NEW Byte, NEW cap \in Nat, NEW b \in Buffers(Byte, cap), Apart(b),
           NEW len \in Nat,
           NEW n, n = Remove(b, len)
    PROVE  /\ n \in Buffers(Byte, cap)
           /\ Apart(n)
           /\ len < b.mARegionSize =>
                 /\ n.mem = b.mem
                 /\ n.mARegionPointer = b.mARegionPointer + len
                 /\ n.mARegionSize = b.mARegionSize - len
                 /\ n.mBRegionPointer = b.mBRegionPointer
                 /\ n.mBRegionSize = b.mBRegionSize
           /\ len >= b.mARegionSize =>
                 /\ n.mARegionPointer = 0
                 /\ n.mARegionSize = b.mBRegionSize - Smaller(len - b.mARegionSize, b.mBRegionSize)
                 /\ n.mBRegionPointer = nullptr
                 /\ n.mBRegionSize = 0
                 /\ \A i \in 0 .. n.mARegionSize - 1 :
                       n.mem[i] = b.mem[i + Smaller(len - b.mARegionSize, b.mBRegionSize)]
  <1>0. /\ b.mem \in [0 .. cap - 1 -> Byte] /\ b.mCapacity = cap
        /\ b.mARegionPointer \in 0 .. cap /\ b.mARegionSize \in 0 .. cap
        /\ b.mBRegionPointer \in {nullptr, 0} /\ b.mBRegionSize \in 0 .. cap
    BY DEF Buffers
  <1>1. CASE len < b.mARegionSize
    <2>1. n = [b EXCEPT !.mARegionPointer = b.mARegionPointer + len,
                        !.mARegionSize = b.mARegionSize - len]
      <3>1. Smaller(len, b.mARegionSize) = len
        BY <1>0, <1>1 DEF Smaller
      <3>2. b.mARegionSize - len > 0
        BY <1>0, <1>1
      <3> QED BY <3>1, <3>2 DEF Remove
    <2>2. /\ n.mem = b.mem /\ n.mCapacity = cap
          /\ n.mARegionPointer = b.mARegionPointer + len
          /\ n.mARegionSize = b.mARegionSize - len
          /\ n.mBRegionPointer = b.mBRegionPointer /\ n.mBRegionSize = b.mBRegionSize
      BY <2>1, <1>0 DEF Buffers
    <2>3. b.mARegionPointer + len \in 0 .. cap /\ b.mARegionSize - len \in 0 .. cap
      BY <1>0, <1>1 DEF Apart
    <2>4. n \in Buffers(Byte, cap)
      BY <2>1, <2>3 DEF Buffers
    <2>5. Apart(n)
      BY <1>0, <1>1, <2>2 DEF Apart, nullptr
    <2> QED BY <1>0, <1>1, <2>2, <2>4, <2>5
  <1>2. CASE len >= b.mARegionSize
    <2> DEFINE bRemove == Smaller(len - b.mARegionSize, b.mBRegionSize)
               bSize == b.mBRegionSize - bRemove
               bStart == b.mBRegionPointer + bRemove
               mem == [i \in 0 .. cap - 1 |->
                          IF i < bSize THEN b.mem[bStart + i] ELSE b.mem[i]]
    <2>1. bRemove \in 0 .. cap /\ bSize \in 0 .. cap /\ bRemove + bSize = b.mBRegionSize
      BY <1>0, <1>2 DEF Smaller
    <2>2. bSize > 0 => bStart = bRemove
      BY <1>0, <2>1 DEF Apart, nullptr
    <2>3. \A i \in 0 .. bSize - 1 : bStart + i = i + bRemove /\ bStart + i \in 0 .. cap - 1
      <3> HIDE DEF bSize, bStart, bRemove
      <3> QED BY <1>0, <2>1, <2>2
    <2>4. mem \in [0 .. cap - 1 -> Byte]
      <3>1. ASSUME NEW i \in 0 .. cap - 1, i < bSize
            PROVE  b.mem[bStart + i] \in Byte
        <4> HIDE DEF bSize, bStart
        <4>1. i \in 0 .. bSize - 1
          BY <2>1, <3>1
        <4> QED BY <4>1, <2>3, <1>0
      <3> HIDE DEF bSize, bStart
      <3> QED BY <3>1, <1>0
    <2>5. n = [b EXCEPT !.mem = mem, !.mARegionPointer = 0, !.mARegionSize = bSize,
                        !.mBRegionPointer = nullptr, !.mBRegionSize = 0]
      <3>1. Smaller(len, b.mARegionSize) = b.mARegionSize
        BY <1>0, <1>2 DEF Smaller
      <3>2. ~(b.mARegionSize - b.mARegionSize > 0)
        BY <1>0
      <3> QED BY <1>0, <3>1, <3>2 DEF Remove, PromoteB
    <2> HIDE DEF bSize, bStart, bRemove
    <2>6. \A i \in 0 .. bSize - 1 : mem[i] = b.mem[i + bRemove]
      BY <2>1, <2>3, <1>0
    <2> HIDE DEF mem
    <2>7. /\ n.mem = mem /\ n.mCapacity = cap
          /\ n.mARegionPointer = 0 /\ n.mARegionSize = bSize
          /\ n.mBRegionPointer = nullptr /\ n.mBRegionSize = 0
      BY <2>5, <1>0 DEF Buffers
    <2>8. n \in Buffers(Byte, cap)
      <3>1. bSize \in 0 .. cap /\ 0 \in 0 .. cap
        BY <2>1
      <3> QED BY <2>5, <2>4, <3>1 DEF Buffers
    <2>9. Apart(n)
      BY <2>1, <2>7 DEF Apart, nullptr
    <2> QED BY <1>0, <1>2, <2>6, <2>7, <2>8, <2>9 DEF bSize, bRemove
  <1> QED BY <1>0, <1>1, <1>2

-----------------------------------------------------------------------------
(***************************************************************************)
(* The operations seen through Contents: the bytes a buffer stores.        *)
(***************************************************************************)
LEMMA ContentsType ==
    ASSUME NEW Byte, NEW cap \in Nat, NEW b \in Buffers(Byte, cap), Apart(b)
    PROVE  /\ Contents(b) \in Seq(Byte)
           /\ Len(Contents(b)) = b.mARegionSize + b.mBRegionSize
           /\ Len(Contents(b)) <= cap
           /\ \A i \in 1 .. b.mARegionSize + b.mBRegionSize :
                 Contents(b)[i] = IF i <= b.mARegionSize
                                  THEN b.mem[b.mARegionPointer + i - 1]
                                  ELSE b.mem[i - b.mARegionSize - 1]
  <1> DEFINE size == b.mARegionSize + b.mBRegionSize
             byte(i) == IF i <= b.mARegionSize
                        THEN b.mem[b.mARegionPointer + i - 1]
                        ELSE b.mem[b.mBRegionPointer + (i - b.mARegionSize) - 1]
  <1>0. /\ b.mem \in [0 .. cap - 1 -> Byte]
        /\ b.mARegionPointer \in 0 .. cap /\ b.mARegionSize \in 0 .. cap
        /\ b.mBRegionPointer \in {nullptr, 0} /\ b.mBRegionSize \in 0 .. cap
    BY DEF Buffers
  <1>1. /\ size \in Nat /\ size <= cap
        /\ b.mARegionPointer + b.mARegionSize <= cap
        /\ b.mBRegionSize > 0 => b.mBRegionPointer = 0
    <2>1. b.mARegionPointer + b.mARegionSize <= cap
      BY DEF Apart, Buffers
    <2>2. b.mBRegionPointer = nullptr => b.mBRegionSize = 0
      BY DEF Apart
    <2>3. b.mBRegionPointer # nullptr => b.mBRegionSize <= b.mARegionPointer
      BY DEF Apart
    <2> QED BY <1>0, <2>1, <2>2, <2>3
  <1>2. \A i \in 1 .. size :
           byte(i) \in Byte /\ byte(i) = IF i <= b.mARegionSize
                                         THEN b.mem[b.mARegionPointer + i - 1]
                                         ELSE b.mem[i - b.mARegionSize - 1]
    <2> SUFFICES ASSUME NEW i \in 1 .. size
                 PROVE  byte(i) \in Byte /\ byte(i) = IF i <= b.mARegionSize
                                         THEN b.mem[b.mARegionPointer + i - 1]
                                         ELSE b.mem[i - b.mARegionSize - 1]
      OBVIOUS
    <2>1. CASE i <= b.mARegionSize
      <3>1. b.mARegionPointer + i - 1 \in 0 .. cap - 1
        BY <1>0, <1>1, <2>1
      <3> QED BY <1>0, <2>1, <3>1
    <2>2. CASE ~(i <= b.mARegionSize)
      <3>1. i - b.mARegionSize - 1 \in 0 .. cap - 1 /\ b.mBRegionPointer = 0
        BY <1>0, <1>1, <2>2
      <3>2. b.mBRegionPointer + (i - b.mARegionSize) - 1 = i - b.mARegionSize - 1
        BY <1>0, <3>1
      <3> QED BY <1>0, <2>2, <3>1, <3>2
    <2> QED BY <2>1, <2>2
  <1>3. Contents(b) = [i \in 1 .. size |-> byte(i)]
    BY DEF Contents, GetStoredSize
  <1> HIDE DEF byte, size
  <1>4. Contents(b) \in Seq(Byte) /\ Len(Contents(b)) = size
    BY <1>1, <1>2, <1>3
  <1> QED BY <1>1, <1>2, <1>3, <1>4 DEF size

LEMMA WithFreeSpaceContents ==
    ASSUME NEW Byte, NEW cap \in Nat, NEW b \in Buffers(Byte, cap), Apart(b)
    PROVE  Contents(WithFreeSpace(b)) = Contents(b)
  <1> DEFINE c == WithFreeSpace(b)
  <1>0. c = WithFreeSpace(b)
    OBVIOUS
  <1> HIDE DEF c
  <1>1. /\ c \in Buffers(Byte, cap) /\ Apart(c) /\ c.mem = b.mem
        /\ c.mARegionPointer = b.mARegionPointer /\ c.mARegionSize = b.mARegionSize
        /\ c.mBRegionSize = b.mBRegionSize
    BY <1>0, WithFreeSpaceFields
  <1>2. Contents(c) \in Seq(Byte) /\ Contents(b) \in Seq(Byte)
    BY <1>1, ContentsType
  <1>3. /\ Len(Contents(c)) = Len(Contents(b))
        /\ \A i \in 1 .. Len(Contents(c)) : Contents(c)[i] = Contents(b)[i]
    BY <1>1, ContentsType
  <1>4. Contents(c) = Contents(b)
    BY <1>2, <1>3, SeqEqual
  <1> QED BY <1>4 DEF c

(***************************************************************************)
(* A byte sequence laid out behind region A (room = FALSE) or at the end   *)
(* of region B (room = TRUE) reads as the old bytes followed by the new.   *)
(***************************************************************************)
Laid(cap, ap, sa, sb, sl, dest, m, m2, data, od, nw, ct) ==
    /\ cap \in Nat /\ ap \in Nat /\ sa \in Nat /\ sb \in Nat /\ sl \in Nat /\ dest \in Nat
    /\ dest + sl <= cap /\ ap + sa <= cap
    /\ \A k \in 1 .. sa : od[k] = m[ap + k - 1]
    /\ \A k \in sa + 1 .. sa + sb : od[k] = m[k - sa - 1]
    /\ \A k \in 1 .. sa + sb : ct[k] = od[k]
    /\ \A k \in sa + sb + 1 .. sa + sb + sl : ct[k] = data[k - (sa + sb)]
    /\ \A k \in dest .. dest + sl - 1 : m2[k] = data[k - dest + 1]
    /\ \A k \in 0 .. cap - 1 : k < dest \/ k >= dest + sl => m2[k] = m[k]
    /\ \/ /\ sb = 0 /\ dest = ap + sa
          /\ \A k \in 1 .. sa + sl : nw[k] = m2[ap + k - 1]
       \/ /\ dest = sb /\ sb + sl <= ap
          /\ \A k \in 1 .. sa : nw[k] = m2[ap + k - 1]
          /\ \A k \in sa + 1 .. sa + sb + sl : nw[k] = m2[k - sa - 1]

LEMMA LaidOut ==
    ASSUME NEW cap, NEW ap, NEW sa, NEW sb, NEW sl, NEW dest, NEW m, NEW m2,
           NEW data, NEW od, NEW nw, NEW ct,
           Laid(cap, ap, sa, sb, sl, dest, m, m2, data, od, nw, ct)
    PROVE  \A i \in 1 .. sa + sb + sl : nw[i] = ct[i]
  <1> SUFFICES ASSUME NEW i \in 1 .. sa + sb + sl
               PROVE  nw[i] = ct[i]
    OBVIOUS
  <1> USE DEF Laid
  <1>1. CASE /\ sb = 0 /\ dest = ap + sa
             /\ \A k \in 1 .. sa + sl : nw[k] = m2[ap + k - 1]
    <2>1. CASE i <= sa
      <3>1. nw[i] = m2[ap + i - 1] /\ ct[i] = m[ap + i - 1]
        BY <1>1, <2>1
      <3>2. ap + i - 1 \in 0 .. cap - 1 /\ ap + i - 1 < dest
        BY <1>1, <2>1
      <3> QED BY <3>1, <3>2
    <2>2. CASE i > sa
      <3>1. nw[i] = m2[ap + i - 1] /\ ct[i] = data[i - (sa + sb)]
        BY <1>1, <2>2
      <3>2. ap + i - 1 \in dest .. dest + sl - 1 /\ (ap + i - 1) - dest + 1 = i - (sa + sb)
        BY <1>1, <2>2
      <3> QED BY <3>1, <3>2
    <2> QED BY <2>1, <2>2
  <1>2. CASE /\ dest = sb /\ sb + sl <= ap
             /\ \A k \in 1 .. sa : nw[k] = m2[ap + k - 1]
             /\ \A k \in sa + 1 .. sa + sb + sl : nw[k] = m2[k - sa - 1]
    <2>1. CASE i <= sa
      <3>1. nw[i] = m2[ap + i - 1] /\ ct[i] = m[ap + i - 1]
        BY <1>2, <2>1
      <3>2. ap + i - 1 \in 0 .. cap - 1 /\ ap + i - 1 >= dest + sl
        BY <1>2, <2>1
      <3> QED BY <3>1, <3>2
    <2>2. CASE sa < i /\ i <= sa + sb
      <3>1. nw[i] = m2[i - sa - 1] /\ ct[i] = m[i - sa - 1]
        BY <1>2, <2>2
      <3>2. i - sa - 1 \in 0 .. cap - 1 /\ i - sa - 1 < dest
        BY <1>2, <2>2
      <3> QED BY <3>1, <3>2
    <2>3. CASE sa + sb < i
      <3>1. nw[i] = m2[i - sa - 1] /\ ct[i] = data[i - (sa + sb)]
        BY <1>2, <2>3
      <3>2. i - sa - 1 \in dest .. dest + sl - 1 /\ (i - sa - 1) - dest + 1 = i - (sa + sb)
        BY <1>2, <2>3
      <3> QED BY <3>1, <3>2
    <2> QED BY <2>1, <2>2, <2>3
  <1> QED BY <1>1, <1>2

LEMMA AppendContents ==
    ASSUME NEW Byte, NEW cap \in Nat, NEW b \in Buffers(Byte, cap), Apart(b),
           NEW data \in Seq(Byte), Len(data) <= GetFreeSpaceSize(b)
    PROVE  Contents(Append_(b, data)) = Contents(b) \o data
  <1> DEFINE c == WithFreeSpace(b)
             dest == GetBuffer(c)
             n == Append_(b, data)
             cat == Contents(b) \o data
  <1>0. c = WithFreeSpace(b) /\ dest = GetBuffer(c) /\ n = Append_(b, data)
    OBVIOUS
  <1> HIDE DEF c, dest, n
  <1>1. /\ c \in Buffers(Byte, cap) /\ Apart(c)
        /\ c.mARegionPointer = b.mARegionPointer /\ c.mARegionSize = b.mARegionSize
        /\ c.mBRegionSize = b.mBRegionSize
    BY <1>0, WithFreeSpaceFields
  <1>2. /\ dest \in Nat /\ dest + Len(data) <= cap
        /\ \A i \in 0 .. cap - 1 :
              n.mem[i] = IF i \in dest .. dest + Len(data) - 1
                         THEN data[i - dest + 1] ELSE b.mem[i]
        /\ n.mARegionPointer = b.mARegionPointer
        /\ n.mBRegionPointer = c.mBRegionPointer
        /\ n.mARegionSize = IF c.mBRegionPointer # nullptr
                            THEN b.mARegionSize ELSE b.mARegionSize + Len(data)
        /\ n.mBRegionSize = IF c.mBRegionPointer # nullptr
                            THEN b.mBRegionSize + Len(data) ELSE b.mBRegionSize
    BY <1>0, AppendFields
  <1>3. n \in Buffers(Byte, cap) /\ Apart(n)
    BY <1>0, AppendApart
  <1>4. Len(data) \in Nat
    OBVIOUS
  <1>5. /\ Contents(n) \in Seq(Byte) /\ Contents(b) \in Seq(Byte)
        /\ Len(Contents(b)) = b.mARegionSize + b.mBRegionSize
        /\ Len(Contents(n)) = n.mARegionSize + n.mBRegionSize
    BY <1>3, ContentsType
  <1>6. /\ \A i \in 1 .. b.mARegionSize + b.mBRegionSize :
              Contents(b)[i] = IF i <= b.mARegionSize
                               THEN b.mem[b.mARegionPointer + i - 1]
                               ELSE b.mem[i - b.mARegionSize - 1]
        /\ \A i \in 1 .. n.mARegionSize + n.mBRegionSize :
              Contents(n)[i] = IF i <= n.mARegionSize
                               THEN n.mem[n.mARegionPointer + i - 1]
                               ELSE n.mem[i - n.mARegionSize - 1]
    BY <1>3, ContentsType
  <1>7. /\ b.mARegionPointer \in 0 .. cap /\ b.mARegionSize \in 0 .. cap
        /\ b.mBRegionSize \in 0 .. cap /\ c.mBRegionPointer \in {nullptr, 0}
        /\ b.mARegionPointer + b.mARegionSize <= cap
        /\ c.mBRegionPointer = nullptr => b.mBRegionSize = 0 /\ dest = b.mARegionPointer + b.mARegionSize
        /\ c.mBRegionPointer # nullptr => dest = b.mBRegionSize
                                         /\ b.mBRegionSize + Len(data) <= b.mARegionPointer
    <2>1. n.mBRegionPointer # nullptr => n.mBRegionSize <= n.mARegionPointer
      BY <1>3 DEF Apart
    <2>2. c.mBRegionPointer \in {nullptr, 0} /\ c.mBRegionSize \in Nat
      BY <1>1 DEF Buffers
    <2>3. /\ c.mBRegionPointer = nullptr => dest = b.mARegionPointer + b.mARegionSize
          /\ c.mBRegionPointer # nullptr => dest = b.mBRegionSize
      BY <1>0, <1>1, <2>2 DEF GetBuffer, nullptr
    <2>4. c.mBRegionPointer = nullptr => b.mBRegionSize = 0
      BY <1>1 DEF Apart
    <2>5. /\ b.mARegionPointer \in 0 .. cap /\ b.mARegionSize \in 0 .. cap
          /\ b.mBRegionSize \in 0 .. cap /\ b.mARegionPointer + b.mARegionSize <= cap
      BY DEF Buffers, Apart
    <2> QED BY <1>2, <2>1, <2>2, <2>3, <2>4, <2>5
  <1>8. /\ cat \in Seq(Byte)
        /\ Len(cat) = Len(Contents(b)) + Len(data)
        /\ \A i \in 1 .. Len(Contents(b)) + Len(data) :
              cat[i] = IF i <= Len(Contents(b)) THEN Contents(b)[i]
                                         ELSE data[i - Len(Contents(b))]
    BY <1>5, ConcatProperties
  <1> HIDE DEF cat
  <1>9. Len(Contents(n)) = Len(cat)
    BY <1>2, <1>4, <1>5, <1>7, <1>8, SMTT(30)
  <1>10. ASSUME NEW i \in 1 .. Len(Contents(n))
         PROVE  Contents(n)[i] = cat[i]
    <2> DEFINE ap == b.mARegionPointer
               sa == b.mARegionSize
               sb == b.mBRegionSize
               sl == Len(data)
    <2>1. /\ ap \in Nat /\ sa \in Nat /\ sb \in Nat /\ sl \in Nat
          /\ dest + sl <= cap /\ ap + sa <= cap
          /\ i \in 1 .. sa + sb + sl
      BY <1>2, <1>4, <1>5, <1>7, SMTT(30)
    <2>2. /\ \A k \in 1 .. sa : Contents(b)[k] = b.mem[ap + k - 1]
          /\ \A k \in sa + 1 .. sa + sb : Contents(b)[k] = b.mem[k - sa - 1]
      BY <1>6, <1>7, SMTT(30)
    <2>3. /\ \A k \in 1 .. sa + sb : cat[k] = Contents(b)[k]
          /\ \A k \in sa + sb + 1 .. sa + sb + sl :
                cat[k] = data[k - (sa + sb)]
      BY <1>4, <1>5, <1>7, <1>8
    <2>4. /\ \A k \in dest .. dest + sl - 1 : n.mem[k] = data[k - dest + 1]
          /\ \A k \in 0 .. cap - 1 : k < dest \/ k >= dest + sl => n.mem[k] = b.mem[k]
      BY <1>2, <1>4, SMTT(30)
    <2>5. CASE c.mBRegionPointer = nullptr
      <3>1. n.mARegionSize = sa + sl /\ n.mBRegionSize = 0 /\ n.mARegionPointer = ap
        BY <1>2, <1>7, <2>5
      <3>2. \A k \in 1 .. sa + sl : Contents(n)[k] = n.mem[ap + k - 1]
        BY <1>6, <2>1, <3>1, SMTT(30)
      <3>3. sb = 0 /\ dest = ap + sa
        BY <1>7, <2>5
      <3> HIDE DEF ap, sa, sb, sl
      <3>4. Laid(cap, ap, sa, sb, sl, dest, b.mem, n.mem, data,
                 Contents(b), Contents(n), cat)
        BY <1>2, <2>1, <2>2, <2>3, <2>4, <3>2, <3>3 DEF Laid
      <3>5. \A k \in 1 .. sa + sb + sl : Contents(n)[k] = cat[k]
        BY <3>4, LaidOut
      <3> QED BY <2>1, <3>5
    <2>6. CASE c.mBRegionPointer # nullptr
      <3>1. n.mARegionSize = sa /\ n.mBRegionSize = sb + sl /\ n.mARegionPointer = ap
        BY <1>2, <2>6
      <3>2. /\ \A k \in 1 .. sa : Contents(n)[k] = n.mem[ap + k - 1]
            /\ \A k \in sa + 1 .. sa + sb + sl : Contents(n)[k] = n.mem[k - sa - 1]
        <4>1. ASSUME NEW k \in 1 .. sa
              PROVE  Contents(n)[k] = n.mem[ap + k - 1]
          <5>1. k \in 1 .. n.mARegionSize + n.mBRegionSize /\ k <= n.mARegionSize
            BY <2>1, <3>1
          <5> QED BY <1>6, <3>1, <5>1
        <4>2. ASSUME NEW k \in sa + 1 .. sa + sb + sl
              PROVE  Contents(n)[k] = n.mem[k - sa - 1]
          <5>1. k \in 1 .. n.mARegionSize + n.mBRegionSize /\ ~(k <= n.mARegionSize)
            BY <2>1, <3>1
          <5> QED BY <1>6, <3>1, <5>1
        <4> QED BY <4>1, <4>2
      <3>3. dest = sb /\ sb + sl <= ap
        BY <1>7, <2>6
      <3> HIDE DEF ap, sa, sb, sl
      <3>4. Laid(cap, ap, sa, sb, sl, dest, b.mem, n.mem, data,
                 Contents(b), Contents(n), cat)
        BY <1>2, <2>1, <2>2, <2>3, <2>4, <3>2, <3>3 DEF Laid
      <3>5. \A k \in 1 .. sa + sb + sl : Contents(n)[k] = cat[k]
        BY <3>4, LaidOut
      <3> QED BY <2>1, <3>5
    <2> QED BY <2>5, <2>6
  <1>11. Contents(n) = cat
    BY <1>5, <1>8, <1>9, <1>10, SeqEqual
  <1> QED BY <1>11 DEF n, cat

LEMMA RemoveContents ==
    ASSUME NEW Byte, NEW cap \in Nat, NEW b \in Buffers(Byte, cap), Apart(b),
           NEW len \in Nat
    PROVE  Contents(Remove(b, len)) =
              IF len >= Len(Contents(b)) THEN <<>>
              ELSE SubSeq(Contents(b), len + 1, Len(Contents(b)))
  <1> DEFINE n == Remove(b, len)
             rest == SubSeq(Contents(b), len + 1, Len(Contents(b)))
             bRemove == Smaller(len - b.mARegionSize, b.mBRegionSize)
  <1>0. n = Remove(b, len)
    OBVIOUS
  <1> HIDE DEF n
  <1>1. n \in Buffers(Byte, cap) /\ Apart(n)
    BY <1>0, RemoveFields
  <1>2. len < b.mARegionSize =>
           /\ n.mem = b.mem
           /\ n.mARegionPointer = b.mARegionPointer + len
           /\ n.mARegionSize = b.mARegionSize - len
           /\ n.mBRegionSize = b.mBRegionSize
    BY <1>0, RemoveFields
  <1>3. len >= b.mARegionSize =>
           /\ n.mARegionPointer = 0
           /\ n.mARegionSize = b.mBRegionSize - bRemove
           /\ n.mBRegionSize = 0
           /\ \A i \in 0 .. n.mARegionSize - 1 : n.mem[i] = b.mem[i + bRemove]
    BY <1>0, RemoveFields
  <1>4. /\ b.mARegionSize \in Nat /\ b.mBRegionSize \in Nat /\ b.mARegionPointer \in Nat
        /\ n.mARegionSize \in Nat
    BY <1>1 DEF Buffers
  <1>5. /\ len >= b.mARegionSize => bRemove \in Nat
        /\ len >= b.mARegionSize /\ len < b.mARegionSize + b.mBRegionSize =>
              bRemove = len - b.mARegionSize
        /\ len >= b.mARegionSize + b.mBRegionSize => bRemove = b.mBRegionSize
    BY <1>4 DEF Smaller
  <1> HIDE DEF bRemove
  <1>6. /\ Contents(b) \in Seq(Byte) /\ Len(Contents(b)) = b.mARegionSize + b.mBRegionSize
        /\ Contents(n) \in Seq(Byte) /\ Len(Contents(n)) = n.mARegionSize + n.mBRegionSize
    BY <1>1, ContentsType
  <1>7. /\ \A i \in 1 .. b.mARegionSize + b.mBRegionSize :
              Contents(b)[i] = IF i <= b.mARegionSize
                               THEN b.mem[b.mARegionPointer + i - 1]
                               ELSE b.mem[i - b.mARegionSize - 1]
        /\ \A i \in 1 .. n.mARegionSize + n.mBRegionSize :
              Contents(n)[i] = IF i <= n.mARegionSize
                               THEN n.mem[n.mARegionPointer + i - 1]
                               ELSE n.mem[i - n.mARegionSize - 1]
    BY <1>1, ContentsType
  <1>8. CASE len >= Len(Contents(b))
    <2>1. Len(Contents(n)) = 0
      BY <1>3, <1>4, <1>5, <1>6, <1>8
    <2>2. Contents(n) = <<>>
      BY <1>6, <2>1
    <2> QED BY <1>8, <2>2 DEF n
  <1>9. CASE len < Len(Contents(b))
    <2>1. /\ rest \in Seq(Byte)
          /\ Len(rest) = Len(Contents(b)) - len
          /\ \A i \in 1 .. Len(Contents(b)) - len : rest[i] = Contents(b)[len + i]
      <3> DEFINE old == Contents(b)
      <3>1. old \in Seq(Byte) /\ Len(old) \in Nat /\ len < Len(old)
        BY <1>4, <1>6, <1>9
      <3> HIDE DEF old
      <3>2. \A i \in len + 1 .. Len(old) : old[i] \in Byte
        BY <3>1
      <3>3. /\ SubSeq(old, len + 1, Len(old)) \in Seq(Byte)
            /\ Len(SubSeq(old, len + 1, Len(old))) =
                  IF len + 1 <= Len(old) THEN Len(old) - (len + 1) + 1 ELSE 0
            /\ \A i \in 1 .. Len(old) - (len + 1) + 1 :
                  SubSeq(old, len + 1, Len(old))[i] = old[len + 1 + i - 1]
        BY <3>1, <3>2, SubSeqProperties
      <3>4. \A i \in Int : len + 1 + i - 1 = len + i
        OBVIOUS
      <3> QED BY <3>1, <3>3, <3>4 DEF old
    <2> HIDE DEF rest
    <2>2. Len(Contents(n)) = Len(rest)
      <3>1. CASE len < b.mARegionSize
        BY <1>2, <1>4, <1>6, <2>1, <3>1, SMTT(30)
      <3>2. CASE len >= b.mARegionSize
        <4>1. bRemove = len - b.mARegionSize
          BY <1>4, <1>5, <1>6, <1>9, <3>2
        <4>2. n.mARegionSize = b.mBRegionSize - bRemove /\ n.mBRegionSize = 0
          BY <1>3, <3>2
        <4> QED BY <1>4, <1>6, <2>1, <4>1, <4>2, SMTT(30)
      <3> QED BY <1>4, <3>1, <3>2
    <2>3. ASSUME NEW i \in 1 .. Len(Contents(n))
          PROVE  Contents(n)[i] = rest[i]
      <3>1. rest[i] = Contents(b)[len + i]
        BY <1>4, <1>6, <1>9, <2>1, <2>2
      <3>2. len + i \in 1 .. b.mARegionSize + b.mBRegionSize /\ i \in 1 .. n.mARegionSize + n.mBRegionSize
        BY <1>4, <1>6, <1>9, <2>1, <2>2
      <3>3. CASE len < b.mARegionSize
        <4>1. CASE len + i <= b.mARegionSize
          <5>1. i <= n.mARegionSize
            BY <1>2, <1>4, <3>3, <4>1
          <5>2. /\ Contents(n)[i] = n.mem[n.mARegionPointer + i - 1]
                /\ Contents(b)[len + i] = b.mem[b.mARegionPointer + (len + i) - 1]
            BY <1>7, <3>2, <4>1, <5>1
          <5>3. n.mARegionPointer + i - 1 = b.mARegionPointer + (len + i) - 1
            BY <1>2, <1>4, <3>3
          <5> QED BY <1>2, <3>1, <3>3, <5>2, <5>3
        <4>2. CASE ~(len + i <= b.mARegionSize)
          <5>1. ~(i <= n.mARegionSize)
            BY <1>2, <1>4, <3>3, <4>2
          <5>2. Contents(n)[i] = n.mem[i - n.mARegionSize - 1]
            BY <1>7, <3>2, <5>1
          <5>4. Contents(b)[len + i] = b.mem[(len + i) - b.mARegionSize - 1]
            <6> DEFINE j == len + i
            <6>1. j \in 1 .. b.mARegionSize + b.mBRegionSize /\ ~(j <= b.mARegionSize)
              BY <3>2, <4>2
            <6> HIDE DEF j
            <6>2. Contents(b)[j] = b.mem[j - b.mARegionSize - 1]
              BY <1>7, <6>1
            <6> QED BY <6>2 DEF j
          <5>3. i - n.mARegionSize - 1 = (len + i) - b.mARegionSize - 1
            <6>1. n.mARegionSize = b.mARegionSize - len /\ i \in Int
              BY <1>2, <3>3
            <6> QED BY <1>4, <6>1
          <5> QED BY <1>2, <3>1, <3>3, <5>2, <5>3, <5>4
        <4> QED BY <4>1, <4>2
      <3>4. CASE len >= b.mARegionSize
        <4>1. /\ i - 1 \in 0 .. n.mARegionSize - 1 /\ i <= n.mARegionSize
              /\ ~(len + i <= b.mARegionSize)
          BY <1>3, <1>4, <3>2, <3>4
        <4>2. /\ Contents(n)[i] = n.mem[n.mARegionPointer + i - 1]
              /\ Contents(b)[len + i] = b.mem[(len + i) - b.mARegionSize - 1]
          BY <1>7, <3>2, <4>1
        <4>3. n.mARegionPointer + i - 1 = i - 1
          BY <1>3, <3>4
        <4>4. n.mem[i - 1] = b.mem[(i - 1) + bRemove]
          BY <1>3, <3>4, <4>1
        <4>5. (i - 1) + bRemove = (len + i) - b.mARegionSize - 1
          BY <1>4, <1>5, <1>6, <1>9, <3>4
        <4> QED BY <3>1, <4>2, <4>3, <4>4, <4>5
      <3> QED BY <1>4, <3>3, <3>4
    <2>4. Contents(n) = rest
      BY <1>6, <2>1, <2>2, <2>3, SeqEqual
    <2>5. ~(len >= Len(Contents(b)))
      BY <1>4, <1>6, <1>9
    <2> QED BY <2>4, <2>5, Zenon DEF n, rest
  <1> QED BY <1>4, <1>6, <1>8, <1>9

LEMMA ConstructFields ==
    ASSUME NEW Byte, NEW cap \in Nat, NEW junk \in Byte
    PROVE  /\ Construct(cap, junk) \in Buffers(Byte, cap)
           /\ Apart(Construct(cap, junk))
           /\ Contents(Construct(cap, junk)) = <<>>
  <1> DEFINE c == Construct(cap, junk)
  <1>1. c \in Buffers(Byte, cap)
    BY DEF Construct, Buffers
  <1>2. /\ c.mCapacity = cap /\ c.mARegionPointer = 0 /\ c.mARegionSize = 0
        /\ c.mBRegionPointer = nullptr /\ c.mBRegionSize = 0
    BY DEF Construct
  <1> HIDE DEF c
  <1>3. Apart(c)
    BY <1>2 DEF Apart
  <1>4. Contents(c) \in Seq(Byte) /\ Len(Contents(c)) = 0
    BY <1>1, <1>2, <1>3, ContentsType
  <1>5. Contents(c) = <<>>
    BY <1>4
  <1> QED BY <1>1, <1>3, <1>5 DEF c

-----------------------------------------------------------------------------
\* Appending neither moves nor overwrites a stored byte.
LEMMA AppendStays ==
    ASSUME NEW Byte, NEW cap \in Nat, NEW b \in Buffers(Byte, cap), Apart(b),
           NEW data \in Seq(Byte), Len(data) <= GetFreeSpaceSize(b),
           NEW n, n = Append_(b, data)
    PROVE  \A i \in Stored(b) : i \in Stored(n) /\ n.mem[i] = b.mem[i]
  <1> DEFINE c == WithFreeSpace(b)
             dest == GetBuffer(c)
  <1>0. c = WithFreeSpace(b) /\ dest = GetBuffer(c)
    OBVIOUS
  <1> HIDE DEF c, dest
  <1>1. /\ c \in Buffers(Byte, cap) /\ Apart(c)
        /\ c.mARegionPointer = b.mARegionPointer /\ c.mARegionSize = b.mARegionSize
        /\ c.mBRegionSize = b.mBRegionSize
    BY <1>0, WithFreeSpaceFields
  <1>2. /\ \A i \in 0 .. cap - 1 :
              n.mem[i] = IF i \in dest .. dest + Len(data) - 1
                         THEN data[i - dest + 1] ELSE b.mem[i]
        /\ n.mARegionPointer = b.mARegionPointer
        /\ n.mBRegionPointer = c.mBRegionPointer
        /\ n.mARegionSize = IF c.mBRegionPointer # nullptr
                            THEN b.mARegionSize ELSE b.mARegionSize + Len(data)
        /\ n.mBRegionSize = IF c.mBRegionPointer # nullptr
                            THEN b.mBRegionSize + Len(data) ELSE b.mBRegionSize
    BY <1>0, AppendFields
  <1>3. n \in Buffers(Byte, cap) /\ Apart(n)
    BY AppendApart
  <1>4. Len(data) \in Nat
    OBVIOUS
  <1>5. /\ b.mARegionPointer \in Nat /\ b.mARegionSize \in Nat
        /\ b.mBRegionPointer \in {nullptr, 0} /\ b.mBRegionSize \in Nat
        /\ c.mBRegionPointer \in {nullptr, 0}
        /\ b.mARegionPointer + b.mARegionSize <= cap
        /\ b.mBRegionPointer = nullptr => b.mBRegionSize = 0
        /\ b.mBRegionPointer # nullptr => b.mBRegionSize <= b.mARegionPointer
    BY <1>1 DEF Buffers, Apart
  <1>6. /\ c.mBRegionPointer = nullptr => b.mBRegionSize = 0 /\ dest = b.mARegionPointer + b.mARegionSize
        /\ c.mBRegionPointer # nullptr =>
              dest = b.mBRegionSize /\ b.mBRegionSize + Len(data) <= b.mARegionPointer
    <2>1. n.mBRegionPointer # nullptr => n.mBRegionSize <= n.mARegionPointer
      BY <1>3 DEF Apart
    <2>2. c.mBRegionPointer = nullptr => c.mBRegionSize = 0
      BY <1>1 DEF Apart
    <2>3. dest = IF c.mBRegionPointer # nullptr THEN c.mBRegionPointer + c.mBRegionSize
                 ELSE c.mARegionPointer + c.mARegionSize
      BY <1>0 DEF GetBuffer
    <2>4. CASE c.mBRegionPointer = nullptr
      BY <1>1, <2>2, <2>3, <2>4
    <2>5. CASE c.mBRegionPointer # nullptr
      BY <1>1, <1>2, <1>5, <2>1, <2>3, <2>5
    <2> QED BY <2>4, <2>5
  <1>7. ASSUME NEW i \in b.mARegionPointer .. b.mARegionPointer + b.mARegionSize - 1
        PROVE  i \in Stored(n) /\ n.mem[i] = b.mem[i]
    <2>1. i \in 0 .. cap - 1 /\ ~(i \in dest .. dest + Len(data) - 1)
      BY <1>4, <1>5, <1>6
    <2>2. i \in n.mARegionPointer .. n.mARegionPointer + n.mARegionSize - 1
      BY <1>2, <1>4, <1>5
    <2>3. i \in Stored(n)
      BY <2>2 DEF Stored
    <2> QED BY <1>2, <2>1, <2>3
  <1>8. ASSUME NEW i \in b.mBRegionPointer .. b.mBRegionPointer + b.mBRegionSize - 1
        PROVE  i \in Stored(n) /\ n.mem[i] = b.mem[i]
    <2>1. b.mBRegionPointer = 0 /\ b.mBRegionSize > 0 /\ c.mBRegionPointer = 0
      BY <1>5, <1>6 DEF nullptr
    <2>2. i \in 0 .. b.mBRegionSize - 1
      BY <1>5, <2>1
    <2>3. i \in 0 .. cap - 1 /\ ~(i \in dest .. dest + Len(data) - 1)
      BY <1>4, <1>5, <1>6, <2>1, <2>2 DEF nullptr
    <2>4. i \in n.mBRegionPointer .. n.mBRegionPointer + n.mBRegionSize - 1
      BY <1>2, <1>4, <1>5, <2>1, <2>2 DEF nullptr
    <2>5. i \in Stored(n)
      BY <2>4 DEF Stored
    <2> QED BY <1>2, <2>3, <2>5
  <1> QED BY <1>7, <1>8 DEF Stored

-----------------------------------------------------------------------------
(***************************************************************************)
(* The oldest bytes of a buffer: where WSASend finds them.                 *)
(***************************************************************************)
LEMMA OldestBytes ==
    ASSUME NEW Byte, NEW cap \in Nat, NEW b \in Buffers(Byte, cap), Apart(b),
           GetContiguiousBytes(b) > 0
    PROVE  /\ b.mARegionSize > 0 /\ GetContiguiousBytes(b) = b.mARegionSize
           /\ GetBufferStart(b) = b.mARegionPointer
  BY DEF GetContiguiousBytes, GetBufferStart, Apart, Buffers

LEMMA ContiguousBound ==
    ASSUME NEW Byte, NEW cap \in Nat, NEW b \in Buffers(Byte, cap), Apart(b)
    PROVE  /\ GetContiguiousBytes(b) \in 0 .. cap /\ GetContiguiousBytes(b) <= Len(Contents(b))
           /\ GetContiguiousBytes(b) > 0 => GetBufferStart(b) \in 0 .. cap
  <1>1. Len(Contents(b)) = b.mARegionSize + b.mBRegionSize
    BY ContentsType
  <1>2. b.mARegionSize \in 0 .. cap /\ b.mBRegionSize \in 0 .. cap /\ b.mARegionPointer \in 0 .. cap
    BY DEF Buffers
  <1> QED BY <1>1, <1>2, OldestBytes DEF GetContiguiousBytes

\* WSASend transfers the first bytes of the contents.
LEMMA BytesTransferred ==
    ASSUME NEW Byte, NEW cap \in Nat, NEW b \in Buffers(Byte, cap), Apart(b),
           NEW n \in 0 .. GetContiguiousBytes(b)
    PROVE  BytesAt(b, GetBufferStart(b), n) = SubSeq(Contents(b), 1, n)
  <1> DEFINE s == Contents(b)
             r == SubSeq(s, 1, n)
             q == BytesAt(b, GetBufferStart(b), n)
  <1>1. /\ s \in Seq(Byte) /\ Len(s) = b.mARegionSize + b.mBRegionSize
        /\ \A i \in 1 .. b.mARegionSize + b.mBRegionSize :
              s[i] = IF i <= b.mARegionSize
                     THEN b.mem[b.mARegionPointer + i - 1]
                     ELSE b.mem[i - b.mARegionSize - 1]
    BY ContentsType
  <1>2. /\ b.mARegionSize \in 0 .. cap /\ b.mBRegionSize \in 0 .. cap
        /\ GetContiguiousBytes(b) \in Nat /\ n \in Nat
        /\ n > 0 => n <= b.mARegionSize /\ GetBufferStart(b) = b.mARegionPointer
    <2>1. b.mARegionSize \in 0 .. cap /\ b.mBRegionSize \in 0 .. cap
      BY DEF Buffers
    <2>2. GetContiguiousBytes(b) \in 0 .. cap
      BY ContiguousBound
    <2> QED BY <2>1, <2>2, OldestBytes
  <1> HIDE DEF s
  <1>3. \A i \in 1 .. n : s[i] \in Byte
    <2>1. \A i \in 1 .. n : i \in 1 .. Len(s)
      BY <1>1, <1>2
    <2> QED BY <1>1, <2>1, ElementOfSeq
  <1>4. /\ r \in Seq(Byte) /\ Len(r) = n /\ \A i \in 1 .. n : r[i] = s[i]
    BY <1>2, <1>3, SubSeqProperties
  <1>5. q = [i \in 1 .. n |-> b.mem[GetBufferStart(b) + i - 1]]
    BY DEF BytesAt
  <1>6. \A i \in 1 .. n : b.mem[GetBufferStart(b) + i - 1] = s[i]
    BY <1>1, <1>2
  <1>7. q = [i \in 1 .. n |-> s[i]]
    BY <1>5, <1>6
  <1> HIDE DEF q, r
  <1>8. DOMAIN r = 1 .. n /\ r = [i \in 1 .. n |-> r[i]]
    BY <1>2, <1>4
  <1>9. q = r
    BY <1>4, <1>7, <1>8
  <1> QED BY <1>9 DEF q, r, s

\* What is left of the contents when the first n bytes are not looked at.
LEMMA RestSplit ==
    ASSUME NEW Byte, NEW s \in Seq(Byte), NEW n \in 0 .. Len(s)
    PROVE  /\ SubSeq(s, 1, n) \in Seq(Byte) /\ SubSeq(s, n + 1, Len(s)) \in Seq(Byte)
           /\ SubSeq(s, 1, n) \o SubSeq(s, n + 1, Len(s)) = s
           /\ Len(SubSeq(s, n + 1, Len(s))) = Len(s) - n
  <1>0. Len(s) \in Nat
    BY LenProperties
  <1>1. SubSeq(s, 1, n) \in Seq(Byte)
    BY <1>0, ElementOfSeq, SubSeqProperties
  <1>2. SubSeq(s, n + 1, Len(s)) \in Seq(Byte) /\ Len(SubSeq(s, n + 1, Len(s))) = Len(s) - n
    <2>1. \A i \in n + 1 .. Len(s) : s[i] \in Byte
      BY <1>0, ElementOfSeq
    <2>2. /\ SubSeq(s, n + 1, Len(s)) \in Seq(Byte)
          /\ Len(SubSeq(s, n + 1, Len(s))) = IF n + 1 <= Len(s) THEN Len(s) - (n + 1) + 1 ELSE 0
      BY <1>0, <2>1, SubSeqProperties
    <2> QED BY <1>0, <2>2
  <1>3. SubSeq(s, 1, n) \o SubSeq(s, n + 1, Len(s)) = SubSeq(s, 1, Len(s))
    <2>1. 1 \in 1 .. Len(s) + 1 /\ n \in 1 - 1 .. Len(s) /\ Len(s) \in n .. Len(s)
      BY <1>0
    <2> QED BY <2>1, ConcatAdjacentSubSeq
  <1>4. SubSeq(s, 1, Len(s)) = s
    BY SubSeqFull
  <1> QED BY <1>1, <1>2, <1>3, <1>4

\* Bytes that are appended are appended to the rest.
LEMMA RestAppended ==
    ASSUME NEW Byte, NEW s \in Seq(Byte), NEW data \in Seq(Byte), NEW n \in 0 .. Len(s)
    PROVE  SubSeq(s \o data, n + 1, Len(s \o data)) = SubSeq(s, n + 1, Len(s)) \o data
  <1> DEFINE r == SubSeq(s, n + 1, Len(s))
             m == SubSeq(s \o data, n + 1, Len(s \o data))
  <1>0. Len(s) \in Nat /\ Len(data) \in Nat
    BY LenProperties
  <1>1. /\ s \o data \in Seq(Byte) /\ Len(s \o data) = Len(s) + Len(data)
        /\ \A i \in 1 .. Len(s) + Len(data) :
              (s \o data)[i] = IF i <= Len(s) THEN s[i] ELSE data[i - Len(s)]
    BY ConcatProperties
  <1>2. /\ r \in Seq(Byte) /\ Len(r) = Len(s) - n
        /\ \A i \in 1 .. Len(s) - n : r[i] = s[n + i]
    <2>1. \A i \in n + 1 .. Len(s) : s[i] \in Byte
      BY <1>0, ElementOfSeq
    <2>2. \A i \in 1 .. Len(s) - (n + 1) + 1 : r[i] = s[(n + 1) + i - 1]
      BY <1>0, <2>1, SubSeqProperties
    <2> QED BY <1>0, <2>2, RestSplit
  <1>3. /\ m \in Seq(Byte) /\ Len(m) = Len(s) + Len(data) - n
        /\ \A i \in 1 .. Len(s) + Len(data) - n : m[i] = (s \o data)[n + i]
    <2>0. n \in 0 .. Len(s \o data) /\ n \in Int /\ Len(s \o data) \in Int
      BY <1>0, <1>1
    <2>1. \A i \in n + 1 .. Len(s \o data) : (s \o data)[i] \in Byte
      <3>1. \A i \in n + 1 .. Len(s \o data) : i \in 1 .. Len(s \o data)
        BY <1>0, <1>1
      <3> QED BY <3>1, <1>1, ElementOfSeq
    <2>2. \A i \in 1 .. Len(s \o data) - (n + 1) + 1 : m[i] = (s \o data)[(n + 1) + i - 1]
      BY <2>0, <2>1, SubSeqProperties
    <2>3. m \in Seq(Byte) /\ Len(m) = Len(s \o data) - n
      BY <1>1, <2>0, RestSplit
    <2>4. \A i \in 1 .. Len(s) + Len(data) - n :
             i \in 1 .. Len(s \o data) - (n + 1) + 1 /\ (n + 1) + i - 1 = n + i
      BY <1>0, <1>1
    <2>5. Len(s \o data) - n = Len(s) + Len(data) - n
      BY <1>1
    <2> HIDE DEF m
    <2>6. ASSUME NEW i \in 1 .. Len(s) + Len(data) - n PROVE m[i] = (s \o data)[n + i]
      BY <2>2, <2>4
    <2> QED BY <2>3, <2>5, <2>6
  <1>4. /\ r \o data \in Seq(Byte) /\ Len(r \o data) = Len(r) + Len(data)
        /\ \A i \in 1 .. Len(r) + Len(data) :
              (r \o data)[i] = IF i <= Len(r) THEN r[i] ELSE data[i - Len(r)]
    BY <1>2, ConcatProperties
  <1> HIDE DEF m, r
  <1>5. Len(m) = Len(r \o data)
    BY <1>0, <1>2, <1>3, <1>4
  <1>6. ASSUME NEW i \in 1 .. Len(m) PROVE m[i] = (r \o data)[i]
    <2>1. m[i] = (s \o data)[n + i] /\ n + i \in 1 .. Len(s) + Len(data)
      BY <1>0, <1>3
    <2>2. CASE i <= Len(s) - n
      <3>1. m[i] = s[n + i]
        BY <1>0, <1>1, <2>1, <2>2
      <3>2. (r \o data)[i] = r[i]
        BY <1>0, <1>2, <1>4, <1>3, <2>2
      <3>3. r[i] = s[n + i]
        BY <1>0, <1>2, <1>3, <2>2
      <3> QED BY <3>1, <3>2, <3>3
    <2>3. CASE i > Len(s) - n
      <3>1. m[i] = data[(n + i) - Len(s)]
        BY <1>0, <1>1, <2>1, <2>3
      <3>2. (r \o data)[i] = data[i - (Len(s) - n)]
        BY <1>0, <1>2, <1>4, <1>3, <2>3
      <3>3. (n + i) - Len(s) = i - (Len(s) - n)
        BY <1>0
      <3> QED BY <3>1, <3>2, <3>3
    <2>4. i <= Len(s) - n \/ i > Len(s) - n
      <3>1. i \in Int /\ Len(s) - n \in Int
        BY <1>0, <1>3
      <3> QED BY <3>1
    <2> QED BY <2>2, <2>3, <2>4
  <1>7. m = r \o data
    BY <1>3, <1>4, <1>5, <1>6, SeqEqual
  <1> QED BY <1>7 DEF m, r

(***************************************************************************)
(* The stream of numbered bytes that a session puts through a buffer.      *)
(***************************************************************************)
Numbered(n) == [k \in 1 .. n |-> k]

Joined(a, b, c) == a \o b = c

LEMMA StreamGrows ==
    ASSUME NEW S, NEW sent \in Seq(S), NEW rest \in Seq(S), NEW data \in Seq(S)
    PROVE  \A old, new : Joined(sent, rest, old) /\ Joined(old, data, new)
                            => Joined(sent, rest \o data, new)
  <1>1. (sent \o rest) \o data = sent \o (rest \o data)
    BY ConcatAssociative
  <1> DEFINE l == (sent \o rest) \o data
             r == sent \o (rest \o data)
  <1>2. \A old, new : sent \o rest = old /\ old \o data = new => l = new
    BY Zenon
  <1>3. l = r
    BY <1>1
  <1> HIDE DEF l, r
  <1>4. \A old, new : sent \o rest = old /\ old \o data = new => r = new
    BY <1>2, <1>3
  <1> QED BY <1>4 DEF r, Joined

\* The numbered bytes, and the ones that follow them.
LEMMA NumberedGrows ==
    ASSUME NEW m \in Nat, NEW n \in Nat, NEW data, data = [i \in 1 .. n |-> m + i]
    PROVE  /\ Numbered(m) \in Seq(Nat) /\ data \in Seq(1 .. m + n) /\ Len(data) = n
           /\ Numbered(m) \o data = Numbered(m + n)
  <1>1. Numbered(m) \in Seq(Nat) /\ Len(Numbered(m)) = m
    BY DEF Numbered
  <1>2. Numbered(m + n) \in Seq(Nat) /\ Len(Numbered(m + n)) = m + n
    BY DEF Numbered
  <1>3. data \in Seq(Nat) /\ Len(data) = n /\ data \in Seq(1 .. m + n)
    OBVIOUS
  <1> DEFINE a == Numbered(m)
             z == Numbered(m + n)
  <1>4. \A i \in 1 .. m + n : z[i] = i
    BY DEF Numbered
  <1>5. (\A i \in 1 .. m : a[i] = i) /\ \A i \in 1 .. n : data[i] = m + i
    BY DEF Numbered
  <1> HIDE DEF a, z
  <1>6. /\ a \o data \in Seq(Nat) /\ Len(a \o data) = Len(a) + Len(data)
        /\ \A i \in 1 .. Len(a) + Len(data) : (a \o data)[i] =
              IF i <= Len(a) THEN a[i] ELSE data[i - Len(a)]
    BY <1>1, <1>3, ConcatProperties DEF a
  <1>7. Len(a \o data) = m + n
    BY <1>1, <1>3, <1>6 DEF a
  <1>8. ASSUME NEW i \in 1 .. m + n PROVE (a \o data)[i] = i
    <2>1. (a \o data)[i] = IF i <= m THEN a[i] ELSE data[i - m]
      BY <1>1, <1>3, <1>6 DEF a
    <2>2. CASE i <= m
      <3>1. i \in 1 .. m
        BY <2>2
      <3> QED BY <1>5, <2>1, <2>2, <3>1
    <2>3. CASE ~(i <= m)
      <3>1. i - m \in 1 .. n /\ m + (i - m) = i
        BY <2>3
      <3> QED BY <1>5, <2>1, <2>3, <3>1
    <2> QED BY <2>2, <2>3
  <1>9. a \o data = z
    <2>1. z \in Seq(Nat) /\ Len(a \o data) = Len(z)
      BY <1>2, <1>7 DEF z
    <2>2. \A i \in 1 .. Len(a \o data) : (a \o data)[i] = z[i]
      BY <1>4, <1>7, <1>8
    <2> QED BY <1>6, <2>1, <2>2, SeqEqual
  <1> QED BY <1>1, <1>3, <1>9 DEF a, z

-----------------------------------------------------------------------------
(***************************************************************************)
(* A receive into the buffer, in the steps of a session: the room is asked *)
(* for, the network fills it, and the bytes are committed.                 *)
(***************************************************************************)
LEMMA RoomMade ==
    ASSUME NEW Byte, NEW cap \in Nat, NEW b \in Buffers(Byte, cap), Apart(b),
           NEW c, c = WithFreeSpace(b)
    PROVE  /\ WithFreeSpace(c) = c /\ GetFreeSpaceSize(c) = GetFreeSpaceSize(b)
           /\ GetFreeSpaceSize(b) \in 0 .. cap
           /\ GetBuffer(c) \in 0 .. cap /\ GetBuffer(c) + GetFreeSpaceSize(b) <= cap
  <1>1. /\ c \in Buffers(Byte, cap) /\ Apart(c)
        /\ GetFreeSpaceSize(b) = IF c.mBRegionPointer # nullptr
                                 THEN c.mARegionPointer - c.mBRegionSize
                                 ELSE cap - c.mARegionPointer - c.mARegionSize
    BY WithFreeSpaceFields
  <1>2. WithFreeSpace(c) = c
    BY DEF WithFreeSpace, AllocateB, GetAFreeSpace, GetSpaceBeforeA, Buffers, nullptr
  <1>3. GetFreeSpaceSize(c) = IF c.mBRegionPointer # nullptr
                              THEN c.mARegionPointer - c.mBRegionSize
                              ELSE cap - c.mARegionPointer - c.mARegionSize
    BY <1>1, <1>2, WithFreeSpaceFields
  <1>4. GetFreeSpaceSize(b) \in 0 .. cap /\ GetBuffer(c) \in 0 .. cap
        /\ GetBuffer(c) + GetFreeSpaceSize(b) <= cap
    BY <1>1 DEF Buffers, Apart, GetBuffer, nullptr
  <1> QED BY <1>1, <1>2, <1>3, <1>4

LEMMA RoomFilled ==
    ASSUME NEW Byte, NEW cap \in Nat, NEW b \in Buffers(Byte, cap), Apart(b), WithFreeSpace(b) = b,
           NEW data \in Seq(Byte), Len(data) <= GetFreeSpaceSize(b),
           NEW n, n = Memcpy(b, GetBuffer(b), data)
    PROVE  /\ n \in Buffers(Byte, cap) /\ Apart(n) /\ WithFreeSpace(n) = n
           /\ GetFreeSpaceSize(n) = GetFreeSpaceSize(b) /\ GetBuffer(n) = GetBuffer(b)
           /\ Contents(n) = Contents(b)
           /\ BytesAt(n, GetBuffer(n), Len(data)) = data
  <1>1. PICK dest : dest = GetBuffer(b)
    OBVIOUS
  <1>2. Len(data) \in Nat /\ dest \in 0 .. cap /\ dest + Len(data) <= cap
    <2>1. Len(data) \in Nat
      OBVIOUS
    <2>2. GetFreeSpaceSize(b) \in 0 .. cap /\ dest \in 0 .. cap /\ dest + GetFreeSpaceSize(b) <= cap
      BY <1>1, RoomMade
    <2> QED BY <2>1, <2>2
  <1>3. PICK mem : mem = [i \in 0 .. cap - 1 |-> IF i \in dest .. dest + Len(data) - 1
                                                 THEN data[i - dest + 1] ELSE b.mem[i]]
    OBVIOUS
  <1>4. mem \in [0 .. cap - 1 -> Byte]
    <2>1. ASSUME NEW i \in 0 .. cap - 1, i \in dest .. dest + Len(data) - 1
          PROVE  data[i - dest + 1] \in Byte
      BY <1>2, <2>1
    <2>2. b.mem \in [0 .. cap - 1 -> Byte]
      BY DEF Buffers
    <2> QED BY <1>3, <2>1, <2>2
  <1>5. n = [b EXCEPT !.mem = mem]
    BY <1>1, <1>3 DEF Memcpy, Buffers
  <1>6. /\ n \in Buffers(Byte, cap) /\ n.mem = mem /\ n.mCapacity = b.mCapacity
        /\ n.mARegionPointer = b.mARegionPointer /\ n.mARegionSize = b.mARegionSize
        /\ n.mBRegionPointer = b.mBRegionPointer /\ n.mBRegionSize = b.mBRegionSize
    BY <1>4, <1>5 DEF Buffers
  <1>7. Apart(n) /\ GetBuffer(n) = dest
    BY <1>1, <1>6 DEF Apart, GetBuffer
  <1>8. WithFreeSpace(n) = n
    <2>1. ~(b.mBRegionPointer = nullptr /\ GetAFreeSpace(b) < GetSpaceBeforeA(b))
      <3>1. SUFFICES ASSUME b.mBRegionPointer = nullptr /\ GetAFreeSpace(b) < GetSpaceBeforeA(b) PROVE FALSE
        OBVIOUS
      <3>2. b = [b EXCEPT !.mBRegionPointer = 0]
        BY <3>1 DEF WithFreeSpace, AllocateB
      <3>3. b.mBRegionPointer = 0
        BY <3>2 DEF Buffers
      <3> QED BY <3>1, <3>3 DEF nullptr
    <2> QED BY <1>6, <2>1 DEF WithFreeSpace, GetAFreeSpace, GetSpaceBeforeA
  <1>9. GetFreeSpaceSize(n) = GetFreeSpaceSize(b)
    BY <1>6, <1>8 DEF GetFreeSpaceSize, GetBFreeSpace, GetAFreeSpace
  <1>10. Contents(n) = Contents(b)
    <2>1. \A i \in Stored(b) : mem[i] = b.mem[i]
      <3>1. b.mARegionPointer \in 0 .. cap /\ b.mARegionSize \in 0 .. cap /\ b.mCapacity = cap
            /\ b.mBRegionSize \in 0 .. cap /\ b.mBRegionPointer \in {nullptr, 0}
        BY DEF Buffers
      <3>2. /\ b.mBRegionPointer = nullptr => b.mBRegionSize = 0 /\ dest = b.mARegionPointer + b.mARegionSize
            /\ b.mBRegionPointer # nullptr =>
                  dest = b.mBRegionSize /\ b.mBRegionSize + Len(data) <= b.mARegionPointer
        <4>1. GetFreeSpaceSize(b) = IF b.mBRegionPointer # nullptr
                                    THEN b.mARegionPointer - b.mBRegionSize
                                    ELSE cap - b.mARegionPointer - b.mARegionSize
          BY WithFreeSpaceFields
        <4> QED BY <1>1, <1>2, <3>1, <4>1 DEF Apart, GetBuffer, nullptr
      <3>3. ASSUME NEW i \in Stored(b) PROVE i \in 0 .. cap - 1 /\ ~(i \in dest .. dest + Len(data) - 1)
        <4>1. /\ b.mARegionPointer + b.mARegionSize <= cap
              /\ b.mBRegionPointer # nullptr => b.mBRegionSize <= b.mARegionPointer
          BY <3>1 DEF Apart
        <4>2. CASE i \in b.mARegionPointer .. b.mARegionPointer + b.mARegionSize - 1
          <5>1. i \in 0 .. cap - 1
            BY <3>1, <4>1, <4>2
          <5>2. CASE b.mBRegionPointer = nullptr
            <6>1. i < dest
              BY <3>1, <3>2, <4>2, <5>2
            <6> QED BY <1>2, <5>1, <6>1
          <5>3. CASE b.mBRegionPointer # nullptr
            <6>1. dest + Len(data) <= b.mARegionPointer /\ b.mARegionPointer <= i
              BY <3>1, <3>2, <4>2, <5>3
            <6> QED BY <1>2, <3>1, <5>1, <6>1
          <5> QED BY <5>2, <5>3
        <4>3. CASE i \in b.mBRegionPointer .. b.mBRegionPointer + b.mBRegionSize - 1
          <5>1. b.mBRegionPointer = 0
            BY <3>1, <3>2, <4>3 DEF nullptr
          <5>2. b.mBRegionPointer # nullptr
            BY <5>1 DEF nullptr
          <5> QED BY <1>2, <3>1, <3>2, <4>1, <4>3, <5>1, <5>2
        <4> QED BY <4>2, <4>3 DEF Stored
      <3> QED BY <1>3, <3>3
    <2>2. /\ Contents(n) \in Seq(Byte) /\ Contents(b) \in Seq(Byte)
          /\ Len(Contents(n)) = b.mARegionSize + b.mBRegionSize
          /\ Len(Contents(b)) = b.mARegionSize + b.mBRegionSize
      BY <1>6, <1>7, ContentsType
    <2>3. ASSUME NEW i \in 1 .. b.mARegionSize + b.mBRegionSize PROVE Contents(n)[i] = Contents(b)[i]
      <3>1. /\ Contents(n)[i] = IF i <= b.mARegionSize THEN mem[b.mARegionPointer + i - 1]
                                                       ELSE mem[i - b.mARegionSize - 1]
            /\ Contents(b)[i] = IF i <= b.mARegionSize THEN b.mem[b.mARegionPointer + i - 1]
                                                       ELSE b.mem[i - b.mARegionSize - 1]
        BY <1>6, <1>7, ContentsType
      <3>2. b.mARegionPointer \in Nat /\ b.mARegionSize \in Nat /\ b.mBRegionSize \in Nat
            /\ b.mBRegionPointer \in {nullptr, 0} /\ (b.mBRegionPointer = nullptr => b.mBRegionSize = 0)
        BY DEF Buffers, Apart
      <3>3. CASE i <= b.mARegionSize
        <4>1. b.mARegionPointer + i - 1 \in Stored(b)
          BY <3>2, <3>3 DEF Stored
        <4> QED BY <2>1, <3>1, <3>3, <4>1
      <3>4. CASE ~(i <= b.mARegionSize)
        <4>1. b.mBRegionPointer = 0
          BY <3>2, <3>4
        <4>2. i - b.mARegionSize - 1 \in b.mBRegionPointer .. b.mBRegionPointer + b.mBRegionSize - 1
          BY <3>2, <3>4, <4>1
        <4>3. i - b.mARegionSize - 1 \in Stored(b)
          BY <4>2 DEF Stored
        <4> QED BY <2>1, <3>1, <3>4, <4>3
      <3> QED BY <3>3, <3>4
    <2> QED BY <2>2, <2>3, SeqEqual
  <1>11. BytesAt(n, GetBuffer(n), Len(data)) = data
    <2>1. BytesAt(n, GetBuffer(n), Len(data)) = [i \in 1 .. Len(data) |-> mem[dest + i - 1]]
      BY <1>6, <1>7 DEF BytesAt
    <2>2. \A i \in 1 .. Len(data) : mem[dest + i - 1] = data[i]
      <3> SUFFICES ASSUME NEW i \in 1 .. Len(data) PROVE mem[dest + i - 1] = data[i]
        OBVIOUS
      <3>1. dest + i - 1 \in 0 .. cap - 1 /\ dest + i - 1 \in dest .. dest + Len(data) - 1
            /\ (dest + i - 1) - dest + 1 = i
        BY <1>2
      <3> QED BY <1>3, <3>1
    <2>3. data = [i \in 1 .. Len(data) |-> data[i]]
      BY LenProperties
    <2> QED BY <2>1, <2>2, <2>3
  <1> QED BY <1>1, <1>6, <1>7, <1>8, <1>9, <1>10, <1>11

LEMMA RoomCommitted ==
    ASSUME NEW Byte, NEW cap \in Nat, NEW b \in Buffers(Byte, cap), Apart(b), WithFreeSpace(b) = b,
           NEW data \in Seq(Byte), Len(data) <= GetFreeSpaceSize(b),
           BytesAt(b, GetBuffer(b), Len(data)) = data
    PROVE  /\ Commit(b, Len(data)) \in Buffers(Byte, cap) /\ Apart(Commit(b, Len(data)))
           /\ Contents(Commit(b, Len(data))) = Contents(b) \o data
  <1>1. PICK dest : dest = GetBuffer(b)
    OBVIOUS
  <1>2. Len(data) \in Nat /\ dest \in 0 .. cap /\ dest + Len(data) <= cap
    <2>1. Len(data) \in Nat
      OBVIOUS
    <2>2. GetFreeSpaceSize(b) \in 0 .. cap /\ dest \in 0 .. cap /\ dest + GetFreeSpaceSize(b) <= cap
      BY <1>1, RoomMade
    <2> QED BY <2>1, <2>2
  <1>3. \A i \in 1 .. Len(data) : data[i] = b.mem[dest + i - 1]
    BY <1>1 DEF BytesAt
  <1>4. Memcpy(b, dest, data) = b
    <2>1. PICK mem : mem = [i \in 0 .. cap - 1 |-> IF i \in dest .. dest + Len(data) - 1
                                                   THEN data[i - dest + 1] ELSE b.mem[i]]
      OBVIOUS
    <2>2. ASSUME NEW i \in 0 .. cap - 1, i \in dest .. dest + Len(data) - 1
          PROVE  data[i - dest + 1] = b.mem[i]
      <3>1. i - dest + 1 \in 1 .. Len(data) /\ dest + (i - dest + 1) - 1 = i
        BY <1>2, <2>2
      <3> QED BY <1>3, <3>1
    <2>3. b.mem = [i \in 0 .. cap - 1 |-> b.mem[i]]
      BY DEF Buffers
    <2>4. mem = b.mem
      BY <2>1, <2>2, <2>3
    <2>5. Memcpy(b, dest, data) = [b EXCEPT !.mem = mem]
      BY <2>1 DEF Memcpy, Buffers
    <2> QED BY <2>4, <2>5 DEF Buffers
  <1>5. Append_(b, data) = Commit(b, Len(data))
    BY <1>1, <1>4 DEF Append_
  <1> QED BY <1>5, AppendApart, AppendContents

\* To write no bytes changes nothing.
LEMMA NothingWritten ==
    ASSUME NEW Byte, NEW cap \in Nat, NEW b \in Buffers(Byte, cap), NEW dest \in Int,
           NEW data, Len(data) = 0
    PROVE  Memcpy(b, dest, data) = b
  <1>1. PICK mem : mem = [i \in 0 .. cap - 1 |-> IF i \in dest .. dest + Len(data) - 1
                                                 THEN data[i - dest + 1] ELSE b.mem[i]]
    OBVIOUS
  <1>2. \A i \in 0 .. cap - 1 : ~(i \in dest .. dest + Len(data) - 1)
    OBVIOUS
  <1>3. b.mem = [i \in 0 .. cap - 1 |-> b.mem[i]]
    BY DEF Buffers
  <1>4. mem = b.mem
    BY <1>1, <1>2, <1>3
  <1>5. Memcpy(b, dest, data) = [b EXCEPT !.mem = mem]
    BY <1>1 DEF Memcpy, Buffers
  <1> QED BY <1>4, <1>5 DEF Buffers

\* Bytes written anywhere leave the regions where they are.
LEMMA MemcpyType ==
    ASSUME NEW Byte, NEW cap \in Nat, NEW b \in Buffers(Byte, cap), Apart(b),
           NEW dest \in Int, NEW data \in Seq(Byte)
    PROVE  Memcpy(b, dest, data) \in Buffers(Byte, cap) /\ Apart(Memcpy(b, dest, data))
  <1>1. PICK m : m = [i \in 0 .. b.mCapacity - 1 |-> IF i \in dest .. dest + Len(data) - 1
                                                      THEN data[i - dest + 1] ELSE b.mem[i]]
    OBVIOUS
  <1>2. Memcpy(b, dest, data) = [b EXCEPT !.mem = m]
    BY <1>1 DEF Memcpy
  <1>3. b.mCapacity = cap /\ b.mem \in [0 .. cap - 1 -> Byte]
    BY DEF Buffers
  <1>4. Len(data) \in Nat /\ \A k \in 1 .. Len(data) : data[k] \in Byte
    BY LenProperties
  <1>5. m \in [0 .. cap - 1 -> Byte]
    <2>1. \A i \in 0 .. cap - 1 : i \in dest .. dest + Len(data) - 1 => i - dest + 1 \in 1 .. Len(data)
      BY <1>4
    <2> QED BY <1>1, <1>3, <1>4, <2>1
  <1>6. [b EXCEPT !.mem = m] \in Buffers(Byte, cap)
    BY <1>5 DEF Buffers
  <1>7. Apart([b EXCEPT !.mem = m])
    BY DEF Apart, Buffers
  <1> QED BY <1>2, <1>6, <1>7

\* A commit that stays within the room of its region.
LEMMA CommitType ==
    ASSUME NEW Byte, NEW cap \in Nat, NEW b \in Buffers(Byte, cap), Apart(b), NEW n \in Nat,
           n <= IF b.mBRegionPointer # nullptr THEN GetBFreeSpace(b) ELSE GetAFreeSpace(b)
    PROVE  Commit(b, n) \in Buffers(Byte, cap) /\ Apart(Commit(b, n))
  <1>1. /\ b.mCapacity = cap /\ b.mARegionPointer \in 0 .. cap /\ b.mARegionSize \in 0 .. cap
        /\ b.mBRegionPointer \in {nullptr, 0} /\ b.mBRegionSize \in 0 .. cap
    BY DEF Buffers
  <1>2. CASE b.mBRegionPointer # nullptr
    <2>1. b.mBRegionPointer = 0 /\ n <= b.mARegionPointer - b.mBRegionSize
      BY <1>1, <1>2 DEF GetBFreeSpace, nullptr
    <2>2. b.mBRegionSize + n \in 0 .. cap /\ b.mBRegionSize + n <= b.mARegionPointer
      BY <1>1, <2>1
    <2>3. Commit(b, n) = [b EXCEPT !.mBRegionSize = b.mBRegionSize + n]
      BY <1>2 DEF Commit
    <2>4. [b EXCEPT !.mBRegionSize = b.mBRegionSize + n] \in Buffers(Byte, cap)
      BY <2>2 DEF Buffers
    <2>5. Apart([b EXCEPT !.mBRegionSize = b.mBRegionSize + n])
      BY <1>1, <1>2, <2>2 DEF Apart, Buffers
    <2> QED BY <2>3, <2>4, <2>5
  <1>3. CASE b.mBRegionPointer = nullptr
    <2>1. n <= cap - b.mARegionPointer - b.mARegionSize
      BY <1>1, <1>3 DEF GetAFreeSpace
    <2>2. /\ b.mARegionSize + n \in 0 .. cap /\ b.mARegionPointer + (b.mARegionSize + n) <= cap
          /\ b.mARegionSize + n = 0 => b.mARegionSize = 0
      BY <1>1, <2>1
    <2>3. Commit(b, n) = [b EXCEPT !.mARegionSize = b.mARegionSize + n]
      BY <1>3 DEF Commit
    <2>4. [b EXCEPT !.mARegionSize = b.mARegionSize + n] \in Buffers(Byte, cap)
      BY <2>2 DEF Buffers
    <2>5. Apart([b EXCEPT !.mARegionSize = b.mARegionSize + n])
      BY <1>1, <1>3, <2>2 DEF Apart, Buffers
    <2> QED BY <2>3, <2>4, <2>5
  <1> QED BY <1>2, <1>3

\* Bytes read inside the array are bytes.
LEMMA BytesAtType ==
    ASSUME NEW Byte, NEW cap \in Nat, NEW b \in Buffers(Byte, cap),
           NEW start \in Nat, NEW n \in Nat, start + n <= cap
    PROVE  BytesAt(b, start, n) \in Seq(Byte)
  <1>1. b.mem \in [0 .. cap - 1 -> Byte]
    BY DEF Buffers
  <1>2. \A i \in 1 .. n : start + i - 1 \in 0 .. cap - 1
    OBVIOUS
  <1> QED BY <1>1, <1>2 DEF BytesAt
=============================================================================
