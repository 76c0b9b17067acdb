----------------------------- MODULE ObjectPool -----------------------------
(***************************************************************************)
(* template ObjectPool<Container, ALLOC_COUNT> (ObjectPool.hpp): operator  *)
(* new and operator delete of the classes that inherit from it, one static *)
(* free list per class.  Both run under the static mMutex from their first *)
(* line to their last, so each is one step, whichever thread calls it.     *)
(*                                                                         *)
(* A block is a number; chunk k of the heap holds the ALLOC_COUNT blocks   *)
(* behind those of the chunks before it.  The list is threaded through the *)
(* first word of its blocks (link), which an object overwrites while it    *)
(* lives.  The loop of operator new links a new chunk's blocks except the  *)
(* last, whose link is whatever new uint8_t[] found there: by chance       *)
(* nullptr, else an address outside the pool.  To take the head of a list  *)
(* that is such an address is undefined behaviour; the pool is then lost.  *)
(***************************************************************************)
EXTENDS Integers, FiniteSets

CONSTANTS ALLOC_COUNT,
          MAX_CHUNKS,   \* bound: the chunks the heap can give
          nullptr, Wild

ASSUME PoolAssumption ==
    /\ ALLOC_COUNT \in Nat \ {0}
    /\ MAX_CHUNKS \in Nat
    /\ nullptr # Wild
    /\ {nullptr, Wild} \cap Nat = {}

Block == 1 .. ALLOC_COUNT * MAX_CHUNKS

VARIABLES mFreeList, link, mTotalAllocCount, mCurrentUseCount,
          objects,      \* the blocks that hold a live object
          lost          \* the head of the list was followed outside the pool

vars == <<mFreeList, link, mTotalAllocCount, mCurrentUseCount, objects, lost>>

Init ==
    /\ mFreeList = nullptr
    /\ link = [b \in Block |-> Wild]
    /\ mTotalAllocCount = 0 /\ mCurrentUseCount = 0
    /\ objects = {}
    /\ lost = FALSE

TakeAndKeep(l, f) ==   \* mutant: the head stays in the list
    /\ mFreeList' = l
    /\ link' = f
    /\ mCurrentUseCount' = mCurrentUseCount + 1
    /\ objects' = objects \cup {l}
    /\ UNCHANGED lost

\* The head of list l with links f is handed out; the object overwrites its link.
Take(l, f) ==
    /\ mFreeList' = f[l]
    /\ link' = [f EXCEPT ![l] = Wild]
    /\ mCurrentUseCount' = mCurrentUseCount + 1
    /\ objects' = objects \cup {l}
    /\ UNCHANGED lost

\* The links of a new chunk whose first block is b and last link is garbage.
Chunk(b, garbage) ==
    [c \in Block |-> CASE c \in b .. b + ALLOC_COUNT - 2 -> c + 1
                       [] c = b + ALLOC_COUNT - 1        -> garbage
                       [] OTHER                          -> link[c]]

OperatorNew ==
    /\ ~lost
    /\ mFreeList \in Block
    /\ Take(mFreeList, link)
    /\ UNCHANGED mTotalAllocCount

OperatorNewGrows ==
    /\ ~lost
    /\ mFreeList = nullptr
    /\ mTotalAllocCount < ALLOC_COUNT * MAX_CHUNKS
    /\ \E garbage \in {nullptr, Wild} :
          Take(mTotalAllocCount + 1, Chunk(mTotalAllocCount + 1, garbage))
    /\ mTotalAllocCount' = mTotalAllocCount + ALLOC_COUNT

OperatorNewUndefined ==
    /\ ~lost
    /\ mFreeList = Wild
    /\ lost' = TRUE
    /\ UNCHANGED <<mFreeList, link, mTotalAllocCount, mCurrentUseCount, objects>>

OperatorDeleteUnlinked(obj) ==   \* mutant: the list behind obj is forgotten
    /\ ~lost
    /\ obj \in objects
    /\ mCurrentUseCount' = mCurrentUseCount - 1
    /\ mFreeList' = obj
    /\ objects' = objects \ {obj}
    /\ UNCHANGED <<link, mTotalAllocCount, lost>>

OperatorDeleteUncounted(obj) ==   \* mutant: mCurrentUseCount is not decremented
    /\ ~lost
    /\ obj \in objects
    /\ link' = [link EXCEPT ![obj] = mFreeList]
    /\ mFreeList' = obj
    /\ objects' = objects \ {obj}
    /\ UNCHANGED <<mTotalAllocCount, mCurrentUseCount, lost>>

OperatorDelete(obj) ==
    /\ ~lost
    /\ obj \in objects
    /\ mCurrentUseCount' = mCurrentUseCount - 1
    /\ link' = [link EXCEPT ![obj] = mFreeList]
    /\ mFreeList' = obj
    /\ objects' = objects \ {obj}
    /\ UNCHANGED <<mTotalAllocCount, lost>>

Next ==
    \/ OperatorNew \/ OperatorNewGrows \/ OperatorNewUndefined
    \/ \E obj \in objects : OperatorDelete(obj)

Spec == Init /\ [][Next]_vars

-----------------------------------------------------------------------------
TypeOK ==
    /\ mFreeList \in Block \cup {nullptr, Wild}
    /\ link \in [Block -> Block \cup {nullptr, Wild}]
    /\ mTotalAllocCount \in 0 .. ALLOC_COUNT * MAX_CHUNKS
    /\ mCurrentUseCount \in 0 .. ALLOC_COUNT * MAX_CHUNKS
    /\ objects \subseteq Block
    /\ lost \in BOOLEAN

\* The nth address met on the way along the free list.
Walk[n \in 0 .. ALLOC_COUNT * MAX_CHUNKS] ==
    IF n = 0 THEN mFreeList
    ELSE IF Walk[n - 1] \in Block THEN link[Walk[n - 1]] ELSE Walk[n - 1]

Free == {Walk[n] : n \in 0 .. ALLOC_COUNT * MAX_CHUNKS} \cap Block

(***************************************************************************)
(* A block the pool got from the heap is either in use or on the free list *)
(* and never both, and the list ends: no sequence of new and delete hands  *)
(* the same block out twice or forgets one.                                *)
(***************************************************************************)
FreeOrInUse ==
    /\ Free = (1 .. mTotalAllocCount) \ objects
    /\ objects \subseteq 1 .. mTotalAllocCount
    /\ Walk[ALLOC_COUNT * MAX_CHUNKS] \notin Block

(***************************************************************************)
(* The counters say how far the list can be followed: below                *)
(* mTotalAllocCount objects in use its head is a block, so that operator   *)
(* new leaves the pool only when every block of it is in use at once, and  *)
(* the CRASH_ASSERT of operator delete never fails.                        *)
(***************************************************************************)
SafeBelowCapacity ==
    /\ mCurrentUseCount < mTotalAllocCount => mFreeList \in Block /\ ~lost
    /\ objects # {} => mCurrentUseCount > 0
=============================================================================
