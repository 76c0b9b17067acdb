-------------------------- MODULE ObjectPoolProofs --------------------------
(***************************************************************************)
(* The pool for every size of a chunk and every number of chunks: its list *)
(* is a chain of distinct blocks, those that are not in use.               *)
(***************************************************************************)
EXTENDS ObjectPool, FiniteSetTheorems, WellFoundedInduction, TLAPS

Capacity == ALLOC_COUNT * MAX_CHUNKS

Ends == {nullptr, Wild}

(***************************************************************************)
(* The list has the k blocks f[1], ..., f[k], linked in this order, and    *)
(* they are the blocks the pool has got and that hold no object.           *)
(***************************************************************************)
Chain(k, f) ==
    /\ k \in Nat /\ f \in [1 .. k -> Block]
    /\ \A i, j \in 1 .. k : f[i] = f[j] => i = j
    /\ k = 0 => mFreeList \in Ends
    /\ k # 0 => mFreeList = f[1] /\ link[f[k]] \in Ends
    /\ \A i \in 1 .. k - 1 : link[f[i]] = f[i + 1]
    /\ \A b \in Block : (\E i \in 1 .. k : f[i] = b) <=> b <= mTotalAllocCount /\ b \notin objects

Types ==
    /\ link \in [Block -> Block \cup Ends]
    /\ \E m \in 0 .. MAX_CHUNKS : mTotalAllocCount = ALLOC_COUNT * m
    /\ objects \subseteq 1 .. mTotalAllocCount
    /\ IsFiniteSet(objects) /\ mCurrentUseCount = Cardinality(objects)
    /\ lost \in BOOLEAN

Linked == \E f : Chain(mTotalAllocCount - mCurrentUseCount, f)

IInv == Types /\ Linked /\ (lost => mFreeList = Wild)

-----------------------------------------------------------------------------
(***************************************************************************)
(* Chunks and blocks.                                                      *)
(***************************************************************************)
LEMMA BlockFacts ==
    /\ Capacity \in Nat /\ Block = 1 .. Capacity
    /\ nullptr \notin Block /\ Wild \notin Block /\ nullptr # Wild
  <1>1. Capacity \in Nat
    BY PoolAssumption DEF Capacity
  <1>2. Block = 1 .. Capacity
    BY DEF Block, Capacity
  <1> QED BY <1>1, <1>2, PoolAssumption

\* A pool of m chunks is full or has room for one more.
LEMMA ChunkFits ==
    ASSUME NEW m \in 0 .. MAX_CHUNKS
    PROVE  /\ ALLOC_COUNT * m \in 0 .. Capacity
           /\ ALLOC_COUNT * m < Capacity =>
                 /\ m + 1 \in 0 .. MAX_CHUNKS /\ ALLOC_COUNT * (m + 1) = ALLOC_COUNT * m + ALLOC_COUNT
                 /\ ALLOC_COUNT * m + ALLOC_COUNT <= Capacity
  <1>0. ALLOC_COUNT \in Nat /\ ALLOC_COUNT # 0 /\ MAX_CHUNKS \in Nat /\ m \in Nat /\ m <= MAX_CHUNKS
    BY PoolAssumption
  <1>1. \A a, i, j \in Nat : i <= j => a * i <= a * j
    OBVIOUS
  <1>2. ALLOC_COUNT * m \in 0 .. Capacity
    BY <1>0, <1>1 DEF Capacity
  <1>3. ASSUME ALLOC_COUNT * m < Capacity
        PROVE  /\ m + 1 \in 0 .. MAX_CHUNKS /\ ALLOC_COUNT * (m + 1) = ALLOC_COUNT * m + ALLOC_COUNT
               /\ ALLOC_COUNT * m + ALLOC_COUNT <= Capacity
    <2>1. m # MAX_CHUNKS
      BY <1>0, <1>3 DEF Capacity
    <2>2. m + 1 \in Nat /\ m + 1 <= MAX_CHUNKS
      BY <1>0, <2>1
    <2>3. ALLOC_COUNT * (m + 1) = ALLOC_COUNT * m + ALLOC_COUNT
      BY <1>0
    <2>4. ALLOC_COUNT * (m + 1) <= Capacity
      BY <1>0, <1>1, <2>2 DEF Capacity
    <2> QED BY <1>0, <2>2, <2>3, <2>4
  <1> QED BY <1>2, <1>3

LEMMA CountFacts ==
    ASSUME Types
    PROVE  /\ mTotalAllocCount \in 0 .. Capacity /\ objects \subseteq Block
           /\ mCurrentUseCount \in Nat
           /\ objects # {} => mCurrentUseCount > 0
  <1>1. mTotalAllocCount \in 0 .. Capacity
    BY ChunkFits DEF Types
  <1>2. objects \subseteq Block
    BY <1>1, BlockFacts DEF Types
  <1>3. mCurrentUseCount \in Nat /\ (mCurrentUseCount = 0 <=> objects = {})
    BY FS_CardinalityType, FS_EmptySet DEF Types
  <1> QED BY <1>1, <1>2, <1>3

LEMMA InitOK == Init => IInv
  <1> SUFFICES ASSUME Init PROVE IInv
    OBVIOUS
  <1>1. /\ mFreeList = nullptr /\ link = [b \in Block |-> Wild] /\ mTotalAllocCount = 0
        /\ mCurrentUseCount = 0 /\ objects = {} /\ lost = FALSE
    BY DEF Init
  <1>2. Types
    <2>1. 0 \in 0 .. MAX_CHUNKS /\ ALLOC_COUNT * 0 = 0
      BY PoolAssumption
    <2>2. IsFiniteSet(objects) /\ Cardinality(objects) = 0
      BY <1>1, FS_EmptySet
    <2>3. link \in [Block -> Block \cup Ends]
      BY <1>1 DEF Ends
    <2>4. lost \in BOOLEAN
      BY <1>1, Zenon
    <2> QED BY <1>1, <2>1, <2>2, <2>3, <2>4 DEF Types
  <1>3. Chain(0, <<>>)
    <2>1. <<>> \in [1 .. 0 -> Block]
      OBVIOUS
    <2>2. \A b \in Block : ~(b <= mTotalAllocCount)
      BY <1>1, BlockFacts
    <2>3. 1 .. 0 = {}
      OBVIOUS
    <2> QED BY <1>1, <2>1, <2>2, <2>3 DEF Chain, Ends
  <1>4. Linked
    BY <1>1, <1>3 DEF Linked
  <1> QED BY <1>1, <1>2, <1>4 DEF IInv

\* The head of the list is taken: the chain loses its first block.
LEMMA OperatorNewOK ==
    ASSUME IInv, OperatorNew
    PROVE  IInv'
  <1>1. Types /\ Linked
    BY DEF IInv
  <1>2. PICK k, f : k = mTotalAllocCount - mCurrentUseCount /\ Chain(k, f)
    BY <1>1 DEF Linked
  <1>3. PICK l \in Block : l = mFreeList
    BY DEF OperatorNew
  <1>4. /\ mFreeList' = link[l] /\ link' = [link EXCEPT ![l] = Wild]
        /\ mCurrentUseCount' = mCurrentUseCount + 1 /\ objects' = objects \cup {l}
        /\ UNCHANGED <<mTotalAllocCount, lost>> /\ ~lost
    BY <1>3 DEF OperatorNew, Take
  <1>5. /\ mTotalAllocCount \in Nat /\ mCurrentUseCount \in Nat /\ objects \subseteq Block
        /\ Block = 1 .. Capacity /\ Capacity \in Nat
    BY <1>1, CountFacts, BlockFacts
  <1>6. k \in Nat /\ k # 0 /\ k >= 1
    BY <1>2, <1>3, BlockFacts DEF Chain, Ends
  <1>7. l = f[1] /\ l <= mTotalAllocCount /\ l \notin objects
    BY <1>2, <1>3, <1>6 DEF Chain
  <1>8. Types'
    <2>1. IsFiniteSet(objects') /\ Cardinality(objects') = mCurrentUseCount + 1
      BY <1>1, <1>4, <1>7, FS_AddElement DEF Types
    <2>2. link' \in [Block -> Block \cup Ends]
      BY <1>1, <1>4 DEF Types, Ends
    <2>3. objects' \subseteq 1 .. mTotalAllocCount'
      <3>1. l \in 1 .. mTotalAllocCount
        BY <1>3, <1>5, <1>7
      <3>2. objects \subseteq 1 .. mTotalAllocCount
        BY <1>1 DEF Types
      <3> QED BY <1>4, <3>1, <3>2
    <2> QED BY <1>1, <1>4, <2>1, <2>2, <2>3 DEF Types
  <1>9. PICK j, g : j = k - 1 /\ g = [i \in 1 .. k - 1 |-> f[i + 1]]
    OBVIOUS
  <1>10. Chain(j, g)'
    <2>0. /\ f \in [1 .. k -> Block] /\ \A i, h \in 1 .. k : f[i] = f[h] => i = h
          /\ link[f[k]] \in Ends /\ \A i \in 1 .. k - 1 : link[f[i]] = f[i + 1]
      BY <1>2, <1>6 DEF Chain
    <2>1. \A i \in 1 .. j : i + 1 \in 1 .. k /\ i + 1 # 1 /\ g[i] = f[i + 1] /\ g[i] # l
      <3>1. \A i \in 1 .. j : i + 1 \in 1 .. k /\ i + 1 # 1 /\ 1 \in 1 .. k
        BY <1>6, <1>9
      <3>2. \A i \in 1 .. j : g[i] = f[i + 1]
        BY <1>9
      <3> QED BY <1>7, <2>0, <3>1, <3>2
    <2>2. j \in Nat /\ g \in [1 .. j -> Block]
      BY <1>6, <1>9, <2>0, <2>1
    <2>3. \A i, h \in 1 .. j : g[i] = g[h] => i = h
      <3> SUFFICES ASSUME NEW i \in 1 .. j, NEW h \in 1 .. j, g[i] = g[h] PROVE i = h
        OBVIOUS
      <3>1. i + 1 = h + 1
        BY <2>0, <2>1
      <3> QED BY <3>1
    <2>4. \A b \in Block : b # l => link'[b] = link[b]
      BY <1>1, <1>4 DEF Types
    <2>5. j = 0 => mFreeList' \in Ends
      BY <1>4, <1>6, <1>7, <1>9, <2>0
    <2>6. j # 0 => mFreeList' = g[1] /\ link'[g[j]] \in Ends
      <3> SUFFICES ASSUME j # 0 PROVE mFreeList' = g[1] /\ link'[g[j]] \in Ends
        OBVIOUS
      <3>1. 1 \in 1 .. j /\ j \in 1 .. j /\ 1 \in 1 .. k - 1 /\ j + 1 = k
        BY <1>6, <1>9
      <3>2. mFreeList' = g[1]
        BY <1>4, <1>7, <2>0, <2>1, <3>1
      <3>3. g[j] = f[k] /\ g[j] # l /\ g[j] \in Block
        BY <2>1, <2>2, <3>1
      <3> QED BY <2>0, <2>4, <3>2, <3>3
    <2>7. \A i \in 1 .. j - 1 : link'[g[i]] = g[i + 1]
      <3> SUFFICES ASSUME NEW i \in 1 .. j - 1 PROVE link'[g[i]] = g[i + 1]
        OBVIOUS
      <3>1. i \in 1 .. j /\ i + 1 \in 1 .. j /\ i + 1 \in 1 .. k - 1
        BY <1>6, <1>9
      <3>2. g[i] = f[i + 1] /\ g[i + 1] = f[(i + 1) + 1] /\ g[i] # l /\ g[i] \in Block
        BY <2>1, <2>2, <3>1
      <3> QED BY <2>0, <2>4, <3>1, <3>2
    <2>8. ASSUME NEW b \in Block
          PROVE  (\E i \in 1 .. j : g[i] = b) <=> b <= mTotalAllocCount' /\ b \notin objects'
      <3>1. (\E i \in 1 .. k : f[i] = b) <=> b <= mTotalAllocCount /\ b \notin objects
        BY <1>2 DEF Chain
      <3>2. (\E i \in 1 .. j : g[i] = b) <=> b # l /\ \E i \in 1 .. k : f[i] = b
        <4>1. ASSUME NEW i \in 1 .. k, f[i] = b, b # l PROVE \E h \in 1 .. j : g[h] = b
          <5>1. i - 1 \in 1 .. j /\ (i - 1) + 1 = i
            <6>1. i # 1
              BY <1>7, <4>1
            <6> QED BY <1>6, <1>9, <6>1
          <5> QED BY <2>1, <4>1, <5>1
        <4> QED BY <2>1, <4>1
      <3> QED BY <1>4, <3>1, <3>2
    <2> QED BY <2>2, <2>3, <2>5, <2>6, <2>7, <2>8 DEF Chain
  <1>11. mTotalAllocCount' - mCurrentUseCount' = j
    BY <1>2, <1>4, <1>5, <1>9
  <1>12. Linked'
    BY <1>10, <1>11 DEF Linked
  <1> QED BY <1>4, <1>8, <1>12 DEF IInv

\* A block is given back: it becomes the first of the chain.
LEMMA OperatorDeleteOK ==
    ASSUME IInv, NEW obj \in objects, OperatorDelete(obj)
    PROVE  IInv'
  <1>1. Types /\ Linked
    BY DEF IInv
  <1>2. PICK k, f : k = mTotalAllocCount - mCurrentUseCount /\ Chain(k, f)
    BY <1>1 DEF Linked
  <1>4. /\ mFreeList' = obj /\ link' = [link EXCEPT ![obj] = mFreeList]
        /\ mCurrentUseCount' = mCurrentUseCount - 1 /\ objects' = objects \ {obj}
        /\ UNCHANGED <<mTotalAllocCount, lost>> /\ ~lost
    BY DEF OperatorDelete
  <1>5. /\ mTotalAllocCount \in Nat /\ mCurrentUseCount \in Nat /\ objects \subseteq Block
        /\ Block = 1 .. Capacity /\ Capacity \in Nat /\ obj \in Block /\ obj <= mTotalAllocCount
    BY <1>1, CountFacts, BlockFacts DEF Types
  <1>6. k \in Nat /\ mFreeList \in Block \cup Ends
    <2>1. k \in Nat /\ f \in [1 .. k -> Block] /\ (k = 0 => mFreeList \in Ends)
          /\ (k # 0 => mFreeList = f[1])
      BY <1>2 DEF Chain
    <2>2. k # 0 => 1 \in 1 .. k
      BY <2>1
    <2> QED BY <2>1, <2>2
  <1>8. Types'
    <2>1. IsFiniteSet(objects') /\ Cardinality(objects') = mCurrentUseCount - 1
      BY <1>1, <1>4, FS_RemoveElement DEF Types
    <2>2. link' \in [Block -> Block \cup Ends]
      BY <1>1, <1>4, <1>6 DEF Types
    <2> QED BY <1>1, <1>4, <2>1, <2>2 DEF Types
  <1>9. PICK j, g : j = k + 1 /\ g = [i \in 1 .. k + 1 |-> IF i = 1 THEN obj ELSE f[i - 1]]
    OBVIOUS
  <1>10. Chain(j, g)'
    <2>0. /\ f \in [1 .. k -> Block] /\ \A i, h \in 1 .. k : f[i] = f[h] => i = h
          /\ k = 0 => mFreeList \in Ends
          /\ k # 0 => mFreeList = f[1] /\ link[f[k]] \in Ends
          /\ \A i \in 1 .. k - 1 : link[f[i]] = f[i + 1]
      BY <1>2 DEF Chain
    <2>1. \A i \in 1 .. k : f[i] # obj
      BY <1>2, <1>5 DEF Chain
    <2>2. g[1] = obj /\ \A i \in 2 .. j : i - 1 \in 1 .. k /\ g[i] = f[i - 1] /\ g[i] # obj
      <3>1. 1 \in 1 .. k + 1 /\ \A i \in 2 .. j : i \in 1 .. k + 1 /\ i # 1 /\ i - 1 \in 1 .. k
        BY <1>6, <1>9
      <3> QED BY <1>9, <2>1, <3>1
    <2>3. j \in Nat /\ g \in [1 .. j -> Block] /\ j # 0 /\ \A i \in 1 .. j : i = 1 \/ i \in 2 .. j
      <3>1. j \in Nat /\ j # 0 /\ \A i \in 1 .. j : i = 1 \/ i \in 2 .. j
        BY <1>6, <1>9
      <3>2. \A i \in 1 .. k + 1 : (IF i = 1 THEN obj ELSE f[i - 1]) \in Block
        <4>1. \A i \in 1 .. k + 1 : i # 1 => i - 1 \in 1 .. k
          BY <1>6
        <4> QED BY <1>5, <2>0, <4>1
      <3> QED BY <1>9, <3>1, <3>2
    <2>4. \A i, h \in 1 .. j : g[i] = g[h] => i = h
      <3> SUFFICES ASSUME NEW i \in 1 .. j, NEW h \in 1 .. j, g[i] = g[h] PROVE i = h
        OBVIOUS
      <3>1. CASE i = 1 \/ h = 1
        BY <2>2, <2>3, <3>1
      <3>2. CASE i \in 2 .. j /\ h \in 2 .. j
        <4>1. i - 1 = h - 1
          BY <2>0, <2>2, <3>2
        <4> QED BY <4>1
      <3> QED BY <2>3, <3>1, <3>2
    <2>5. link'[obj] = mFreeList /\ \A b \in Block : b # obj => link'[b] = link[b]
      BY <1>1, <1>4, <1>5 DEF Types
    <2>6. mFreeList' = g[1] /\ link'[g[j]] \in Ends
      <3>1. CASE k = 0
        BY <1>4, <1>9, <2>0, <2>2, <2>5, <3>1
      <3>2. CASE k # 0
        <4>1. j \in 2 .. j /\ j - 1 = k /\ k \in 1 .. k
          BY <1>6, <1>9, <3>2
        <4>2. g[j] = f[k] /\ g[j] # obj /\ f[k] \in Block
          BY <2>0, <2>2, <4>1
        <4> QED BY <1>4, <2>0, <2>2, <2>5, <3>2, <4>2
      <3> QED BY <3>1, <3>2
    <2>7. \A i \in 1 .. j - 1 : link'[g[i]] = g[i + 1]
      <3> SUFFICES ASSUME NEW i \in 1 .. j - 1 PROVE link'[g[i]] = g[i + 1]
        OBVIOUS
      <3>1. i + 1 \in 2 .. j /\ (i + 1) - 1 = i /\ k # 0
        BY <1>6, <1>9
      <3>2. g[i + 1] = f[i]
        BY <2>2, <3>1
      <3>3. CASE i = 1
        BY <2>0, <2>2, <2>5, <3>1, <3>2, <3>3
      <3>4. CASE i # 1
        <4>1. i \in 2 .. j /\ i - 1 \in 1 .. k - 1 /\ (i - 1) + 1 = i
          BY <1>6, <1>9, <3>4
        <4>2. g[i] = f[i - 1] /\ g[i] # obj /\ link[f[i - 1]] = f[i] /\ f[i - 1] \in Block
          BY <2>0, <2>2, <4>1
        <4> QED BY <2>5, <3>2, <4>2
      <3> QED BY <3>3, <3>4
    <2>8. ASSUME NEW b \in Block
          PROVE  (\E i \in 1 .. j : g[i] = b) <=> b <= mTotalAllocCount' /\ b \notin objects'
      <3>1. (\E i \in 1 .. k : f[i] = b) <=> b <= mTotalAllocCount /\ b \notin objects
        BY <1>2 DEF Chain
      <3>2. (\E i \in 1 .. j : g[i] = b) <=> b = obj \/ \E i \in 1 .. k : f[i] = b
        <4>1. 1 \in 1 .. j
          BY <1>6, <1>9
        <4>2. ASSUME NEW i \in 1 .. k, f[i] = b PROVE \E h \in 1 .. j : g[h] = b
          <5>1. i + 1 \in 2 .. j /\ i + 1 \in 1 .. j /\ (i + 1) - 1 = i
            BY <1>6, <1>9
          <5> QED BY <2>2, <4>2, <5>1
        <4> QED BY <2>2, <2>3, <4>1, <4>2
      <3> QED BY <1>4, <1>5, <3>1, <3>2
    <2> QED BY <2>3, <2>4, <2>6, <2>7, <2>8 DEF Chain
  <1>11. mTotalAllocCount' - mCurrentUseCount' = j
    BY <1>2, <1>4, <1>5, <1>9
  <1>12. Linked'
    BY <1>10, <1>11 DEF Linked
  <1> QED BY <1>4, <1>8, <1>12 DEF IInv

\* A new chunk: the list was empty, and becomes the chunk without its first block.
LEMMA OperatorNewGrowsOK ==
    ASSUME IInv, OperatorNewGrows
    PROVE  IInv'
  <1>1. Types /\ Linked
    BY DEF IInv
  <1>2. PICK k, f : k = mTotalAllocCount - mCurrentUseCount /\ Chain(k, f)
    BY <1>1 DEF Linked
  <1>3. PICK l, t : t = mTotalAllocCount /\ l = t + 1
    OBVIOUS
  <1>4. PICK garbage \in Ends : Take(l, Chunk(l, garbage))
    BY <1>3 DEF OperatorNewGrows, Ends
  <1>5. PICK ch : ch = Chunk(l, garbage)
    OBVIOUS
  <1>6. /\ mFreeList' = ch[l] /\ link' = [ch EXCEPT ![l] = Wild]
        /\ mCurrentUseCount' = mCurrentUseCount + 1 /\ objects' = objects \cup {l}
        /\ mTotalAllocCount' = t + ALLOC_COUNT /\ lost' = lost /\ ~lost
    BY <1>3, <1>4, <1>5 DEF OperatorNewGrows, Take
  <1>7. /\ t \in Nat /\ mCurrentUseCount \in Nat /\ objects \subseteq 1 .. t
        /\ Block = 1 .. Capacity /\ Capacity \in Nat /\ ALLOC_COUNT \in Nat /\ ALLOC_COUNT >= 1
    BY <1>1, <1>3, CountFacts, BlockFacts, PoolAssumption DEF Types
  <1>8. PICK m \in 0 .. MAX_CHUNKS :
           /\ t = ALLOC_COUNT * m /\ m + 1 \in 0 .. MAX_CHUNKS
           /\ t + ALLOC_COUNT = ALLOC_COUNT * (m + 1) /\ t + ALLOC_COUNT <= Capacity
    <2>1. PICK m \in 0 .. MAX_CHUNKS : t = ALLOC_COUNT * m
      BY <1>1, <1>3 DEF Types
    <2>2. t < Capacity
      BY <1>3 DEF OperatorNewGrows, Capacity
    <2> QED BY <2>1, <2>2, ChunkFits
  <1>9. k = 0 /\ mCurrentUseCount = t
    <2>1. k \in Nat /\ f \in [1 .. k -> Block] /\ (k # 0 => mFreeList = f[1])
      BY <1>2 DEF Chain
    <2>2. k # 0 => 1 \in 1 .. k
      BY <2>1
    <2>3. k = 0
      BY <2>1, <2>2, BlockFacts DEF OperatorNewGrows
    <2> QED BY <1>2, <1>3, <1>7, <2>3
  <1>10. \A b \in Block : b <= t => b \in objects
    <2>1. 1 .. k = {}
      BY <1>9
    <2> QED BY <1>2, <1>3, <2>1 DEF Chain
  <1>11. /\ \A c \in t + 1 .. t + ALLOC_COUNT - 1 : c \in Block /\ ch[c] = c + 1
         /\ t + ALLOC_COUNT \in Block /\ ch[t + ALLOC_COUNT] = garbage
         /\ ch \in [Block -> Block \cup Ends]
    <2>1. \A c \in t + 1 .. t + ALLOC_COUNT - 1 : c \in Block /\ c + 1 \in Block
      BY <1>7, <1>8
    <2>2. t + ALLOC_COUNT \in Block
      BY <1>7, <1>8
    <2>3. l + ALLOC_COUNT - 2 = t + ALLOC_COUNT - 1 /\ l + ALLOC_COUNT - 1 = t + ALLOC_COUNT
      BY <1>3, <1>7
    <2>4. ch = [c \in Block |-> CASE c \in t + 1 .. t + ALLOC_COUNT - 1 -> c + 1
                                  [] c = t + ALLOC_COUNT                -> garbage
                                  [] OTHER                              -> link[c]]
      BY <1>3, <1>5, <2>3 DEF Chunk
    <2>5. t + ALLOC_COUNT \notin t + 1 .. t + ALLOC_COUNT - 1
      BY <1>7
    <2>6. link \in [Block -> Block \cup Ends]
      BY <1>1 DEF Types
    <2>7. \A c \in t + 1 .. t + ALLOC_COUNT - 1 : ch[c] = c + 1
      <3> SUFFICES ASSUME NEW c \in t + 1 .. t + ALLOC_COUNT - 1 PROVE ch[c] = c + 1
        OBVIOUS
      <3>1. c \in Block /\ c # t + ALLOC_COUNT
        BY <2>1, <2>5
      <3> QED BY <2>4, <3>1
    <2>8. ch[t + ALLOC_COUNT] = garbage
      BY <2>2, <2>4, <2>5
    <2>9. \A c \in Block : ch[c] \in Block \cup Ends
      <3> SUFFICES ASSUME NEW c \in Block PROVE ch[c] \in Block \cup Ends
        OBVIOUS
      <3>1. CASE c \in t + 1 .. t + ALLOC_COUNT - 1
        BY <2>1, <2>7, <3>1
      <3>2. CASE c = t + ALLOC_COUNT
        BY <1>4, <2>8, <3>2
      <3>3. CASE c \notin t + 1 .. t + ALLOC_COUNT - 1 /\ c # t + ALLOC_COUNT
        <4>1. ch[c] = link[c]
          BY <2>4, <3>3
        <4> QED BY <2>6, <4>1
      <3> QED BY <3>1, <3>2, <3>3
    <2>10. ch \in [Block -> Block \cup Ends]
      BY <2>4, <2>9
    <2> QED BY <2>1, <2>2, <2>7, <2>8, <2>10
  <1>12. l \in Block /\ l \notin objects
    BY <1>3, <1>7, <1>8
  <1>13. Types'
    <2>1. IsFiniteSet(objects') /\ Cardinality(objects') = mCurrentUseCount + 1
      BY <1>1, <1>6, <1>12, FS_AddElement DEF Types
    <2>2. link' \in [Block -> Block \cup Ends]
      BY <1>6, <1>11 DEF Ends
    <2>3. objects' \subseteq 1 .. mTotalAllocCount'
      <3>1. l \in 1 .. t + ALLOC_COUNT /\ 1 .. t \subseteq 1 .. t + ALLOC_COUNT
        BY <1>3, <1>7
      <3> QED BY <1>6, <1>7, <3>1
    <2>4. \E i \in 0 .. MAX_CHUNKS : mTotalAllocCount' = ALLOC_COUNT * i
      BY <1>6, <1>8
    <2> QED BY <1>1, <1>6, <2>1, <2>2, <2>3, <2>4 DEF Types
  <1>14. PICK j, g : j = ALLOC_COUNT - 1 /\ g = [i \in 1 .. ALLOC_COUNT - 1 |-> t + 1 + i]
    OBVIOUS
  <1>15. Chain(j, g)'
    <2>1. j \in Nat /\ \A i \in 1 .. j : g[i] = t + 1 + i /\ t + 1 + i \in Block /\ t + 1 + i # l
      BY <1>3, <1>7, <1>8, <1>14
    <2>2. g \in [1 .. j -> Block]
      BY <1>14, <2>1
    <2>3. \A i, h \in 1 .. j : g[i] = g[h] => i = h
      <3> SUFFICES ASSUME NEW i \in 1 .. j, NEW h \in 1 .. j, g[i] = g[h] PROVE i = h
        OBVIOUS
      <3>1. t + 1 + i = t + 1 + h
        BY <2>1
      <3> QED BY <1>7, <3>1
    <2>4. \A b \in Block : b # l => link'[b] = ch[b]
      BY <1>6, <1>11
    <2>5. j = 0 => mFreeList' \in Ends
      <3>1. j = 0 => l = t + ALLOC_COUNT
        BY <1>3, <1>7, <1>14
      <3> QED BY <1>4, <1>6, <1>11, <3>1
    <2>6. j # 0 => mFreeList' = g[1] /\ link'[g[j]] \in Ends
      <3> SUFFICES ASSUME j # 0 PROVE mFreeList' = g[1] /\ link'[g[j]] \in Ends
        OBVIOUS
      <3>1. 1 \in 1 .. j /\ j \in 1 .. j /\ t + 1 + j = t + ALLOC_COUNT /\ t + 1 \in t + 1 .. t + ALLOC_COUNT - 1
        BY <1>7, <1>14, <2>1
      <3>2. mFreeList' = (t + 1) + 1 /\ g[1] = t + 1 + 1
        BY <1>3, <1>6, <1>11, <2>1, <3>1
      <3>3. g[j] = t + ALLOC_COUNT /\ g[j] # l /\ g[j] \in Block
        BY <2>1, <3>1
      <3> QED BY <1>4, <1>11, <2>4, <3>2, <3>3
    <2>7. \A i \in 1 .. j - 1 : link'[g[i]] = g[i + 1]
      <3> SUFFICES ASSUME NEW i \in 1 .. j - 1 PROVE link'[g[i]] = g[i + 1]
        OBVIOUS
      <3>1. /\ i \in 1 .. j /\ i + 1 \in 1 .. j /\ t + 1 + i \in t + 1 .. t + ALLOC_COUNT - 1
            /\ (t + 1 + i) + 1 = t + 1 + (i + 1)
        BY <1>7, <1>14, <2>1
      <3>2. g[i] = t + 1 + i /\ g[i + 1] = t + 1 + (i + 1) /\ g[i] # l /\ g[i] \in Block
        BY <2>1, <3>1
      <3> QED BY <1>11, <2>4, <3>1, <3>2
    <2>8. ASSUME NEW b \in Block
          PROVE  (\E i \in 1 .. j : g[i] = b) <=> b <= mTotalAllocCount' /\ b \notin objects'
      <3>1. ASSUME NEW i \in 1 .. j, g[i] = b PROVE b <= t + ALLOC_COUNT /\ b \notin objects'
        <4>1. b = t + 1 + i /\ b # l /\ b <= t + ALLOC_COUNT /\ ~(b <= t)
          <5>1. b = t + 1 + i /\ b # l
            BY <2>1, <3>1
          <5>2. i <= ALLOC_COUNT - 1 /\ i >= 1 /\ i \in Int
            BY <1>7, <1>14
          <5> QED BY <1>7, <5>1, <5>2
        <4>2. b \notin 1 .. t
          BY <1>7, <4>1
        <4> QED BY <1>6, <1>7, <4>1, <4>2
      <3>2. ASSUME b <= t + ALLOC_COUNT, b \notin objects' PROVE \E i \in 1 .. j : g[i] = b
        <4>1. b # l /\ ~(b <= t)
          BY <1>6, <1>10, <3>2
        <4>2. b - (t + 1) \in 1 .. j /\ t + 1 + (b - (t + 1)) = b
          BY <1>3, <1>7, <1>14, <3>2, <4>1
        <4> QED BY <2>1, <4>2
      <3> QED BY <1>6, <3>1, <3>2
    <2> QED BY <2>1, <2>2, <2>3, <2>5, <2>6, <2>7, <2>8 DEF Chain
  <1>16. mTotalAllocCount' - mCurrentUseCount' = j
    BY <1>6, <1>7, <1>9, <1>14
  <1>17. Linked'
    BY <1>15, <1>16 DEF Linked
  <1> QED BY <1>6, <1>13, <1>17 DEF IInv

LEMMA Inductive == IInv /\ [Next]_vars => IInv'
  <1> SUFFICES ASSUME IInv, [Next]_vars PROVE IInv'
    OBVIOUS
  <1>1. CASE OperatorNew
    BY <1>1, OperatorNewOK
  <1>2. CASE OperatorNewGrows
    BY <1>2, OperatorNewGrowsOK
  <1>3. CASE OperatorNewUndefined
    <2>1. /\ UNCHANGED <<mFreeList, link, mTotalAllocCount, mCurrentUseCount, objects>>
          /\ lost' \in BOOLEAN /\ mFreeList = Wild
      BY <1>3, Zenon DEF OperatorNewUndefined
    <2>2. Types'
      BY <2>1 DEF IInv, Types
    <2>3. Linked'
      BY <2>1 DEF IInv, Linked, Chain
    <2> QED BY <2>1, <2>2, <2>3 DEF IInv
  <1>4. CASE \E obj \in objects : OperatorDelete(obj)
    BY <1>4, OperatorDeleteOK
  <1>5. CASE UNCHANGED vars
    <2>1. UNCHANGED <<mFreeList, link, mTotalAllocCount, mCurrentUseCount, objects, lost>>
      BY <1>5 DEF vars
    <2>2. Types'
      BY <2>1 DEF IInv, Types
    <2>3. Linked'
      BY <2>1 DEF IInv, Linked, Chain
    <2> QED BY <2>1, <2>2, <2>3 DEF IInv
  <1> QED BY <1>1, <1>2, <1>3, <1>4, <1>5 DEF Next

-----------------------------------------------------------------------------
(***************************************************************************)
(* The walk along the list meets the blocks of the chain, in their order,  *)
(* and then stays at the address behind the last.                          *)
(***************************************************************************)
\* A set of numbers that is not empty has a least one: this stands for an induction.
LEMMA Least ==
    ASSUME NEW T \in SUBSET Nat, T # {}
    PROVE  \E x \in T : \A y \in T : x <= y
  <1>1. IsWellFoundedOn(OpToRel(<, Nat), Nat)
    BY NatLessThanWellFounded
  <1>2. PICK x \in T : \A y \in T : ~(<<y, x>> \in OpToRel(<, Nat))
    BY <1>1, WFMin
  <1>3. ASSUME NEW y \in T PROVE x <= y
    <2>1. x \in Nat /\ y \in Nat /\ ~(y < x)
      BY <1>2 DEF OpToRel
    <2> QED BY <2>1
  <1> QED BY <1>3

\* If a function solves the equation that defines Walk, then Walk does.
LEMMA WalkIs ==
    ASSUME NEW g,
           g = [n \in 0 .. ALLOC_COUNT * MAX_CHUNKS |->
                  IF n = 0 THEN mFreeList
                  ELSE IF g[n - 1] \in Block THEN link[g[n - 1]] ELSE g[n - 1]]
    PROVE  Walk = [n \in 0 .. ALLOC_COUNT * MAX_CHUNKS |->
                     IF n = 0 THEN mFreeList
                     ELSE IF Walk[n - 1] \in Block THEN link[Walk[n - 1]] ELSE Walk[n - 1]]
  BY DEF Walk

LEMMA WalkMeetsChain ==
    ASSUME NEW k, NEW f, Chain(k, f)
    PROVE  \E e \in Ends : \A n \in 0 .. Capacity :
              Walk[n] = IF n < k THEN f[n + 1] ELSE e
  <1>1. PICK e : e = IF k = 0 THEN mFreeList ELSE link[f[k]]
    OBVIOUS
  <1>2. /\ k \in Nat /\ f \in [1 .. k -> Block] /\ e \in Ends /\ e \notin Block
        /\ k = 0 => mFreeList = e
        /\ k # 0 => mFreeList = f[1] /\ link[f[k]] = e
        /\ \A i \in 1 .. k - 1 : link[f[i]] = f[i + 1]
    BY <1>1, BlockFacts DEF Chain, Ends
  <1>3. PICK g : g = [n \in 0 .. Capacity |-> IF n < k THEN f[n + 1] ELSE e]
    OBVIOUS
  <1>4. ASSUME NEW n \in 0 .. Capacity
        PROVE  g[n] = IF n = 0 THEN mFreeList
                      ELSE IF g[n - 1] \in Block THEN link[g[n - 1]] ELSE g[n - 1]
    <2>1. g[n] = IF n < k THEN f[n + 1] ELSE e
      BY <1>3
    <2>2. CASE n = 0
      BY <1>2, <2>1, <2>2
    <2>3. CASE n # 0
      <3>1. n - 1 \in 0 .. Capacity /\ (n - 1) + 1 = n
        BY <2>3, BlockFacts
      <3>2. g[n - 1] = IF n - 1 < k THEN f[n] ELSE e
        BY <1>3, <3>1
      <3>3. CASE n <= k
        <4>1. n \in 1 .. k /\ n - 1 < k
          BY <1>2, <2>3, <3>3
        <4>2. g[n - 1] = f[n] /\ f[n] \in Block
          BY <1>2, <3>2, <4>1
        <4>3. link[f[n]] = g[n]
          <5>1. CASE n = k
            BY <1>2, <2>1, <2>3, <5>1
          <5>2. CASE n # k
            <6>1. n \in 1 .. k - 1 /\ n < k
              BY <1>2, <4>1, <5>2
            <6> QED BY <1>2, <2>1, <6>1
          <5> QED BY <5>1, <5>2
        <4> QED BY <2>3, <4>2, <4>3
      <3>4. CASE ~(n <= k)
        <4>1. ~(n - 1 < k) /\ ~(n < k)
          BY <1>2, <3>4
        <4> QED BY <1>2, <2>1, <2>3, <3>2, <4>1
      <3> QED BY <3>3, <3>4
    <2> QED BY <2>2, <2>3
  <1>5. /\ Walk = [n \in 0 .. Capacity |->
                     IF n = 0 THEN mFreeList
                     ELSE IF Walk[n - 1] \in Block THEN link[Walk[n - 1]] ELSE Walk[n - 1]]
    <2>1. g = [n \in 0 .. Capacity |->
                 IF n = 0 THEN mFreeList
                 ELSE IF g[n - 1] \in Block THEN link[g[n - 1]] ELSE g[n - 1]]
      BY <1>3, <1>4
    <2> QED BY <2>1, WalkIs DEF Capacity
  <1>6. ASSUME NEW n \in 0 .. Capacity
        PROVE  Walk[n] = IF n = 0 THEN mFreeList
                         ELSE IF Walk[n - 1] \in Block THEN link[Walk[n - 1]] ELSE Walk[n - 1]
    BY <1>5
  <1>7. \A n \in 0 .. Capacity : Walk[n] = g[n]
    <2> SUFFICES ASSUME {n \in 0 .. Capacity : Walk[n] # g[n]} # {} PROVE FALSE
      OBVIOUS
    <2>1. PICK x \in 0 .. Capacity :
             Walk[x] # g[x] /\ \A y \in 0 .. Capacity : Walk[y] # g[y] => x <= y
      <3>1. {n \in 0 .. Capacity : Walk[n] # g[n]} \in SUBSET Nat
        BY BlockFacts
      <3> QED BY <3>1, Least
    <2>2. CASE x = 0
      BY <1>4, <1>6, <2>1, <2>2
    <2>3. CASE x # 0
      <3>1. x - 1 \in 0 .. Capacity /\ ~(x <= x - 1)
        BY <2>3, BlockFacts
      <3>2. Walk[x - 1] = g[x - 1]
        BY <2>1, <3>1
      <3> QED BY <1>4, <1>6, <2>1, <2>3, <3>2
    <2> QED BY <2>2, <2>3
  <1> QED BY <1>2, <1>3, <1>7

LEMMA TypesHold == IInv => TypeOK
  <1> SUFFICES ASSUME IInv PROVE TypeOK
    OBVIOUS
  <1>1. Types /\ Linked
    BY DEF IInv
  <1>2. PICK k, f : k = mTotalAllocCount - mCurrentUseCount /\ Chain(k, f)
    BY <1>1 DEF Linked
  <1>3. k \in Nat /\ mFreeList \in Block \cup Ends
    <2>1. /\ k \in Nat /\ f \in [1 .. k -> Block] /\ (k = 0 => mFreeList \in Ends)
          /\ (k # 0 => mFreeList = f[1])
      BY <1>2 DEF Chain
    <2>2. k # 0 => 1 \in 1 .. k
      BY <2>1
    <2> QED BY <2>1, <2>2
  <1>4. mTotalAllocCount \in 0 .. Capacity /\ objects \subseteq Block /\ mCurrentUseCount \in Nat
    BY <1>1, CountFacts
  <1>5. mCurrentUseCount \in 0 .. Capacity
    BY <1>2, <1>3, <1>4, BlockFacts
  <1> QED BY <1>1, <1>3, <1>4, <1>5 DEF TypeOK, Types, Ends, Capacity

LEMMA FreeHolds == IInv => FreeOrInUse
  <1> SUFFICES ASSUME IInv PROVE FreeOrInUse
    OBVIOUS
  <1>1. Types /\ Linked
    BY DEF IInv
  <1>2. PICK k, f : k = mTotalAllocCount - mCurrentUseCount /\ Chain(k, f)
    BY <1>1 DEF Linked
  <1>3. PICK e \in Ends : \A n \in 0 .. Capacity : Walk[n] = IF n < k THEN f[n + 1] ELSE e
    BY <1>2, WalkMeetsChain
  <1>4. /\ mTotalAllocCount \in 0 .. Capacity /\ mCurrentUseCount \in Nat
        /\ objects \subseteq 1 .. mTotalAllocCount /\ Capacity \in Nat /\ Block = 1 .. Capacity
        /\ k \in Nat /\ e \notin Block
    BY <1>1, <1>2, CountFacts, BlockFacts DEF Types, Chain, Ends
  <1>5. k <= Capacity
    BY <1>2, <1>4
  <1>6. f \in [1 .. k -> Block]
        /\ \A b \in Block : (\E i \in 1 .. k : f[i] = b) <=> b <= mTotalAllocCount /\ b \notin objects
    BY <1>2 DEF Chain
  <1>7. ASSUME NEW b PROVE b \in Free <=> b \in Block /\ \E i \in 1 .. k : f[i] = b
    <2>1. b \in Free <=> b \in Block /\ \E n \in 0 .. Capacity : Walk[n] = b
      BY DEF Free, Capacity
    <2>2. ASSUME b \in Block, NEW n \in 0 .. Capacity, Walk[n] = b
          PROVE  \E i \in 1 .. k : f[i] = b
      <3>1. n < k /\ f[n + 1] = b
        BY <1>3, <1>4, <2>2
      <3>2. n + 1 \in 1 .. k
        BY <1>4, <3>1
      <3> QED BY <3>1, <3>2
    <2>3. ASSUME NEW i \in 1 .. k, f[i] = b
          PROVE  \E n \in 0 .. Capacity : Walk[n] = b
      <3>1. i - 1 \in 0 .. Capacity /\ i - 1 < k /\ (i - 1) + 1 = i
        BY <1>4, <1>5
      <3> QED BY <1>3, <2>3, <3>1
    <2> QED BY <2>1, <2>2, <2>3
  <1>8. ASSUME NEW b PROVE b \in Free <=> b \in (1 .. mTotalAllocCount) \ objects
    <2>1. b \in 1 .. mTotalAllocCount <=> b \in Block /\ b <= mTotalAllocCount
      BY <1>4
    <2> QED BY <1>6, <1>7, <2>1
  <1>9. Walk[Capacity] \notin Block
    <2>1. Capacity \in 0 .. Capacity /\ ~(Capacity < k)
      BY <1>4, <1>5
    <2> QED BY <1>3, <1>4, <2>1
  <1> QED BY <1>4, <1>8, <1>9 DEF FreeOrInUse, Capacity

LEMMA SafeHolds == IInv => SafeBelowCapacity
  <1> SUFFICES ASSUME IInv PROVE SafeBelowCapacity
    OBVIOUS
  <1>1. Types /\ Linked /\ (lost => mFreeList = Wild)
    BY DEF IInv
  <1>2. PICK k, f : k = mTotalAllocCount - mCurrentUseCount /\ Chain(k, f)
    BY <1>1 DEF Linked
  <1>3. /\ mTotalAllocCount \in 0 .. Capacity /\ mCurrentUseCount \in Nat
        /\ objects # {} => mCurrentUseCount > 0
    BY <1>1, CountFacts
  <1>4. ASSUME mCurrentUseCount < mTotalAllocCount
        PROVE  mFreeList \in Block /\ ~lost
    <2>1. k \in Nat /\ k # 0 /\ 1 \in 1 .. k
      BY <1>2, <1>3, <1>4
    <2>2. mFreeList = f[1] /\ f[1] \in Block
      BY <1>2, <2>1 DEF Chain
    <2> QED BY <1>1, <2>2, BlockFacts
  <1> QED BY <1>3, <1>4 DEF SafeBelowCapacity

-----------------------------------------------------------------------------
LEMMA Invariant == Spec => []IInv
  BY InitOK, Inductive, PTL DEF Spec

(***************************************************************************)
(* The list head, the links, the counters and the objects have their       *)
(* types: operator new and operator delete never link to or count what is  *)
(* not there.                                                              *)
(***************************************************************************)
THEOREM ObjectPoolTypes == Spec => []TypeOK
  BY Invariant, TypesHold, PTL

(***************************************************************************)
(* No sequence of operator new and operator delete hands a block out twice *)
(* or forgets one, for every ALLOC_COUNT and number of chunks.             *)
(***************************************************************************)
THEOREM BlocksAreFreeOrInUse == Spec => []FreeOrInUse
  BY Invariant, FreeHolds, PTL

(***************************************************************************)
(* Operator new leaves the pool through a link it never set only when all  *)
(* blocks are in use at once, and the CRASH_ASSERT of operator delete      *)
(* (ObjectPool.hpp:62) never fails.                                        *)
(***************************************************************************)
THEOREM PoolIsSafeBelowCapacity == Spec => []SafeBelowCapacity
  BY Invariant, SafeHolds, PTL
=============================================================================
