----------------------------- MODULE MemoryPool -----------------------------
(***************************************************************************)
(* class MemoryPool (MemoryPool.hpp): a table of SmallSizeMemoryPools, one *)
(* per size class, each with a lock-free list (SLIST) of blocks to reuse,  *)
(* and the heap for larger requests.  xnew and xdelete call Allocate and   *)
(* Deallocate from any thread, and any thread may delete what another one  *)
(* made.  There is no lock: one action per interlocked operation.          *)
(*                                                                         *)
(* A pool is named by the size of its blocks, nullptr in the table is 0.   *)
(* A thread's at names the statement it is about to run:                   *)
(*   counting     InterlockedIncrement(&mAllocCount) of Pop                *)
(*   attaching    AttachMemAllocInfo of Allocate                           *)
(*   pushing      Push of Deallocate                                       *)
(*   uncounting   InterlockedDecrement(&mAllocCount) of Push               *)
(*   fault        a call through a null table entry: the thread is stopped *)
(***************************************************************************)
EXTENDS Integers, Sequences, FiniteSets, FiniteSetsExt

CONSTANTS Threads,
          Block,          \* bound: the addresses the heap can give
          Sizes,          \* the sizes asked of Allocate
          Bands,          \* the loops of the constructor, in order
          HEADER,         \* sizeof(MemAllocInfo)
          MAX_ALLOC_SIZE

\* A band is the loop for (int i = from; i < to; i += step).
ASSUME MemoryPoolAssumption ==
    /\ IsFiniteSet(Threads) /\ IsFiniteSet(Block)
    /\ HEADER \in Nat \ {0} /\ MAX_ALLOC_SIZE \in Nat
    /\ Sizes \subseteq Nat
    /\ Bands \in Seq([from : Nat, to : 0 .. MAX_ALLOC_SIZE, step : Nat \ {0}])

-----------------------------------------------------------------------------
(***************************************************************************)
(* The constructor: every loop makes a pool for each of its values of i    *)
(* and points the entries from the last one made up to i at it, so that an *)
(* entry leads to the smallest pool whose blocks are large enough.         *)
(***************************************************************************)
LoopValues(band) ==
    {band.from + k * band.step : k \in 0 .. (band.to - 1 - band.from) \div band.step}

Pools == UNION {LoopValues(Bands[n]) : n \in DOMAIN Bands}

mSmallSizeMemoryPoolTable ==
    [size \in 0 .. MAX_ALLOC_SIZE |->
        LET fit == {p \in Pools : p >= size}
        IN  IF size = 0 \/ fit = {} THEN 0 ELSE Min(fit)]

VARIABLES mFreeList,    \* pool -> the blocks of its SLIST, top first
          mAllocCount,  \* pool -> its counter
          capacity,     \* block -> the size it was got from the heap with, or 0
          mAllocSize,   \* block -> the field of its header
          live,         \* the blocks the program has a pointer to
          thread        \* thread -> what it is about to do, and with which block

vars == <<mFreeList, mAllocCount, capacity, mAllocSize, live, thread>>

Idle == [at |-> "idle"]

Init ==
    /\ mFreeList = [p \in Pools |-> <<>>]
    /\ mAllocCount = [p \in Pools |-> 0]
    /\ capacity = [b \in Block |-> 0]
    /\ mAllocSize = [b \in Block |-> 0]
    /\ live = {}
    /\ thread = [t \in Threads |-> Idle]

Becomes(t, what) == thread' = [thread EXCEPT ![t] = what]

\* _aligned_malloc(size, ...) returns an address that is not in use.
AlignedMalloc(b, size) == capacity[b] = 0 /\ capacity' = [capacity EXCEPT ![b] = size]

-----------------------------------------------------------------------------
\* Allocate(size) of more than MAX_ALLOC_SIZE bytes
AllocateLarge(t, size) ==
    /\ thread[t] = Idle
    /\ size + HEADER > MAX_ALLOC_SIZE
    /\ \E b \in Block :
          /\ AlignedMalloc(b, size + HEADER)
          /\ Becomes(t, [at |-> "attaching", block |-> b, real |-> size + HEADER])
    /\ UNCHANGED <<mFreeList, mAllocCount, mAllocSize, live>>

PopAndKeep(t, size) ==   \* mutant: the entry is read but not taken off the list
    LET real == size + HEADER
        pool == mSmallSizeMemoryPoolTable[real]
    IN  /\ thread[t] = Idle
        /\ real <= MAX_ALLOC_SIZE /\ pool # 0 /\ mFreeList[pool] # <<>>
        /\ Becomes(t, [at |-> "counting", block |-> Head(mFreeList[pool]),
                       real |-> real, pool |-> pool])
        /\ UNCHANGED <<mFreeList, mAllocCount, capacity, mAllocSize, live>>

(***************************************************************************)
(* Allocate of a small block: Pop takes the top of the list, or asks the   *)
(* heap for a block when the list is empty.                                *)
(***************************************************************************)
Pop(t, size) ==
    LET real == size + HEADER
        pool == mSmallSizeMemoryPoolTable[real]
    IN  /\ thread[t] = Idle
        /\ real <= MAX_ALLOC_SIZE /\ pool # 0 /\ mFreeList[pool] # <<>>
        /\ mFreeList' = [mFreeList EXCEPT ![pool] = Tail(@)]
        /\ Becomes(t, [at |-> "counting", block |-> Head(mFreeList[pool]),
                       real |-> real, pool |-> pool])
        /\ UNCHANGED <<mAllocCount, capacity, mAllocSize, live>>

PopEmpty(t, size) ==
    LET real == size + HEADER
        pool == mSmallSizeMemoryPoolTable[real]
    IN  /\ thread[t] = Idle
        /\ real <= MAX_ALLOC_SIZE /\ pool # 0 /\ mFreeList[pool] = <<>>
        /\ \E b \in Block :
              /\ AlignedMalloc(b, pool)
              /\ Becomes(t, [at |-> "counting", block |-> b, real |-> real, pool |-> pool])
        /\ UNCHANGED <<mFreeList, mAllocCount, mAllocSize, live>>

AllocateFault(t, size) ==
    /\ thread[t] = Idle
    /\ size + HEADER <= MAX_ALLOC_SIZE
    /\ mSmallSizeMemoryPoolTable[size + HEADER] = 0
    /\ Becomes(t, [at |-> "fault"])
    /\ UNCHANGED <<mFreeList, mAllocCount, capacity, mAllocSize, live>>

CountAllocDown(t) ==   \* mutant: InterlockedDecrement for InterlockedIncrement
    /\ thread[t].at = "counting"
    /\ mAllocCount' = [mAllocCount EXCEPT ![thread[t].pool] = @ - 1]
    /\ Becomes(t, [at |-> "attaching", block |-> thread[t].block, real |-> thread[t].real])
    /\ UNCHANGED <<mFreeList, capacity, mAllocSize, live>>

CountAlloc(t) ==
    /\ thread[t].at = "counting"
    /\ mAllocCount' = [mAllocCount EXCEPT ![thread[t].pool] = @ + 1]
    /\ Becomes(t, [at |-> "attaching", block |-> thread[t].block, real |-> thread[t].real])
    /\ UNCHANGED <<mFreeList, capacity, mAllocSize, live>>

AttachMemAllocInfoBare(t) ==   \* mutant: the size without its header is stored
    /\ thread[t].at = "attaching"
    /\ mAllocSize' = [mAllocSize EXCEPT ![thread[t].block] = thread[t].real - HEADER]
    /\ live' = live \cup {thread[t].block}
    /\ Becomes(t, Idle)
    /\ UNCHANGED <<mFreeList, mAllocCount, capacity>>

AttachMemAllocInfo(t) ==
    /\ thread[t].at = "attaching"
    /\ mAllocSize' = [mAllocSize EXCEPT ![thread[t].block] = thread[t].real]
    /\ live' = live \cup {thread[t].block}
    /\ Becomes(t, Idle)
    /\ UNCHANGED <<mFreeList, mAllocCount, capacity>>

-----------------------------------------------------------------------------
\* Deallocate(ptr): DetachMemAllocInfo and the exchange of the size for 0
DeallocateUnmarked(t, b) ==   \* mutant: the size is read, not exchanged for 0
    /\ thread[t] = Idle /\ b \in live
    /\ live' = live \ {b}
    /\ IF mAllocSize[b] > MAX_ALLOC_SIZE
       THEN /\ capacity' = [capacity EXCEPT ![b] = 0]
            /\ UNCHANGED thread
       ELSE /\ Becomes(t, [at |-> "pushing", block |-> b,
                           pool |-> mSmallSizeMemoryPoolTable[mAllocSize[b]]])
            /\ UNCHANGED capacity
    /\ UNCHANGED <<mFreeList, mAllocCount, mAllocSize>>

Deallocate(t, b) ==
    /\ thread[t] = Idle /\ b \in live
    /\ live' = live \ {b}
    /\ mAllocSize' = [mAllocSize EXCEPT ![b] = 0]
    /\ IF mAllocSize[b] > MAX_ALLOC_SIZE
       THEN /\ capacity' = [capacity EXCEPT ![b] = 0]      \* _aligned_free(header)
            /\ UNCHANGED thread
       ELSE /\ Becomes(t, [at |-> "pushing", block |-> b,
                           pool |-> mSmallSizeMemoryPoolTable[mAllocSize[b]]])
            /\ UNCHANGED capacity
    /\ UNCHANGED <<mFreeList, mAllocCount>>

PushUncounted(t) ==   \* mutant: mAllocCount is not decremented
    /\ thread[t].at = "pushing"
    /\ mFreeList' = [mFreeList EXCEPT ![thread[t].pool] = <<thread[t].block>> \o @]
    /\ Becomes(t, Idle)
    /\ UNCHANGED <<mAllocCount, capacity, mAllocSize, live>>

Push(t) ==
    /\ thread[t].at = "pushing"
    /\ mFreeList' = [mFreeList EXCEPT ![thread[t].pool] = <<thread[t].block>> \o @]
    /\ Becomes(t, [at |-> "uncounting", pool |-> thread[t].pool])
    /\ UNCHANGED <<mAllocCount, capacity, mAllocSize, live>>

UncountAlloc(t) ==
    /\ thread[t].at = "uncounting"
    /\ mAllocCount' = [mAllocCount EXCEPT ![thread[t].pool] = @ - 1]
    /\ Becomes(t, Idle)
    /\ UNCHANGED <<mFreeList, capacity, mAllocSize, live>>

Step(t) ==
    \/ \E size \in Sizes :
          AllocateLarge(t, size) \/ Pop(t, size) \/ PopEmpty(t, size) \/ AllocateFault(t, size)
    \/ CountAlloc(t) \/ AttachMemAllocInfo(t)
    \/ \E b \in live : Deallocate(t, b)
    \/ Push(t) \/ UncountAlloc(t)

Next == \E t \in Threads : Step(t)

Spec == Init /\ [][Next]_vars

-----------------------------------------------------------------------------
TypeOK ==
    /\ mFreeList \in [Pools -> Seq(Block)]
    /\ mAllocCount \in [Pools -> 0 .. Cardinality(Block) + Cardinality(Threads)]
    /\ capacity \in [Block -> Nat]
    /\ mAllocSize \in [Block -> Nat]
    /\ live \subseteq Block
    /\ \A t \in Threads : "block" \in DOMAIN thread[t] => thread[t].block \in Block

\* The places of block b on the lists: a pool and a position.
Spots(b) == {s \in Pools \X (1 .. Cardinality(Block)) :
                s[2] <= Len(mFreeList[s[1]]) /\ mFreeList[s[1]][s[2]] = b}

\* The threads that hold block b inside Allocate or Deallocate.
Holders(b) == {t \in Threads : "block" \in DOMAIN thread[t] /\ thread[t].block = b}

(***************************************************************************)
(* Each block got from the heap is in exactly one place: on one list once, *)
(* with the program, or inside one call of Allocate or Deallocate.  No     *)
(* interleaving of pops, pushes and frees gives it to two owners or loses  *)
(* it.                                                                     *)
(***************************************************************************)
OnePlace ==
    \A b \in Block :
        Cardinality(Spots(b)) + (IF b \in live THEN 1 ELSE 0) + Cardinality(Holders(b))
        = IF capacity[b] = 0 THEN 0 ELSE 1

(***************************************************************************)
(* The asserts hold: a block on a list has size 0, as Pop requires, and a  *)
(* block with the program has a positive one, as Deallocate requires.      *)
(***************************************************************************)
SizesMarkFree ==
    /\ \A p \in Pools : \A n \in DOMAIN mFreeList[p] : mAllocSize[mFreeList[p][n]] = 0
    /\ \A b \in live : mAllocSize[b] > 0

(***************************************************************************)
(* A block returns to the pool it came from, and it is never handed out    *)
(* for more bytes than it has.                                             *)
(***************************************************************************)
BlocksFit ==
    /\ \A p \in Pools : \A n \in DOMAIN mFreeList[p] : capacity[mFreeList[p][n]] = p
    /\ \A b \in live : mAllocSize[b] <= capacity[b]
    /\ \A t \in Threads : thread[t].at = "pushing" => capacity[thread[t].block] = thread[t].pool

(***************************************************************************)
(* The counters settle: whenever no thread is inside a call, mAllocCount   *)
(* of a pool is the number of its blocks the program holds.                *)
(***************************************************************************)
CountsSettle ==
    (\A t \in Threads : thread[t].at \in {"idle", "fault"}) =>
        \A p \in Pools : mAllocCount[p] = Cardinality({b \in live : capacity[b] = p})

\* Every size up to MAX_ALLOC_SIZE has a pool to serve it.
NeverFaults == \A t \in Threads : thread[t].at # "fault"
=============================================================================
