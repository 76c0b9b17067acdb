---------------------------- MODULE FastSpinlock ----------------------------
(***************************************************************************)
(* class FastSpinlock (FastSpinLock.hpp), one action per atomic access to  *)
(* mLockFlag, for any number of threads that take the lock through         *)
(* FastSpinlockGuard, ClassTypeLock::LockGuard or directly.                *)
(*                                                                         *)
(* mLockFlag is a 32-bit word of two counters: readers in its low 20 bits  *)
(* (LF_READ_MASK) and writers above them.  LF_WRITE_MASK leaves the top    *)
(* bit out, so a test of the mask sees the writers modulo WRITE_SLOTS      *)
(* (2^11 in the code) while the additions count modulo twice that.         *)
(*                                                                         *)
(* A thread's pc names the access it is about to make:                     *)
(*   w_gate, w_add, w_drain, w_undo   EnterWriteLock, lines 58, 64, 67, 75 *)
(*   cs                               it has returned: the lock is held    *)
(*   r_gate, r_check                  EnterReadLock, lines 101 and 108     *)
(*   r_cs                             EnterReadLock would have returned    *)
(*                                                                         *)
(* EnterLock and LeaveLock, which nothing calls, are left out: EnterLock   *)
(* stores 1 over the whole word and has no way out of its loop.            *)
(***************************************************************************)
EXTENDS Integers, FiniteSets

CONSTANTS Threads,
          WRITE_SLOTS,  \* 1 + the writers that LF_WRITE_MASK can count
          None          \* no thread: the owner of a free lock

(***************************************************************************)
(* Fewer threads than the mask can count: with more, a mask of zero would  *)
(* not mean that there is no writer.                                       *)
(***************************************************************************)
ASSUME ThreadsAssumption ==
    /\ IsFiniteSet(Threads)
    /\ WRITE_SLOTS \in Nat
    /\ Cardinality(Threads) < WRITE_SLOTS
    /\ None \notin Threads

VARIABLES mLockFlag, pc

vars == <<mLockFlag, pc>>

Init ==
    /\ mLockFlag = [writers |-> 0, readers |-> 0]
    /\ pc = [t \in Threads |-> "idle"]

Goto(t, from, to) == pc[t] = from /\ pc' = [pc EXCEPT ![t] = to]

Masked(flag) == flag.writers % WRITE_SLOTS      \* flag & LF_WRITE_MASK

\* InterlockedAdd(&mLockFlag, n * LF_WRITE_FLAG): the new value of the word
Added(n) == [mLockFlag EXCEPT !.writers = (@ + n) % (2 * WRITE_SLOTS)]

-----------------------------------------------------------------------------
\* EnterWriteLock: wait for the writers' bits to be clear, then count oneself in.
EnterWriteLock(t) == Goto(t, "idle", "w_gate") /\ UNCHANGED mLockFlag

WriteGate(t) ==
    /\ Masked(mLockFlag) = 0
    /\ Goto(t, "w_gate", "w_add")
    /\ UNCHANGED mLockFlag

\* Mutant: the result of the addition is not compared with LF_WRITE_FLAG.
WriteAddUntested(t) == mLockFlag' = Added(1) /\ Goto(t, "w_add", "w_drain")

\* Mutant: the flag is tested before the addition instead of by it.
WriteAddStale(t) ==
    /\ mLockFlag' = Added(1)
    /\ Goto(t, "w_add", IF Masked(mLockFlag) <= 1 THEN "w_drain" ELSE "w_undo")

\* Only the writer that counts itself in first goes on; the others undo it.
WriteAdd(t) ==
    /\ mLockFlag' = Added(1)
    /\ Goto(t, "w_add", IF Masked(mLockFlag') = 1 THEN "w_drain" ELSE "w_undo")

WriteDrain(t) ==
    /\ mLockFlag.readers = 0
    /\ Goto(t, "w_drain", "cs")
    /\ UNCHANGED mLockFlag

\* Mutant: the loser of the race does not count itself out.
WriteUndoNothing(t) == Goto(t, "w_undo", "w_gate") /\ UNCHANGED mLockFlag

WriteUndo(t) ==
    /\ mLockFlag' = Added(-1)
    /\ Goto(t, "w_undo", "w_gate")

\* Mutants: 1 is subtracted instead of LF_WRITE_FLAG; nothing is.
LeaveWriteLockByOne(t) ==
    Goto(t, "cs", "idle") /\ mLockFlag' = [mLockFlag EXCEPT !.readers = @ - 1]

LeaveWriteLockForgets(t) == Goto(t, "cs", "idle") /\ UNCHANGED mLockFlag

LeaveWriteLock(t) ==
    /\ mLockFlag' = Added(-1)
    /\ Goto(t, "cs", "idle")

-----------------------------------------------------------------------------
(***************************************************************************)
(* EnterReadLock: the loop has no way out (its entry is a TODO), so no     *)
(* step leads to r_cs and LeaveReadLock, which changes nothing, is not     *)
(* reached.                                                                *)
(***************************************************************************)
EnterReadLock(t) == Goto(t, "idle", "r_gate") /\ UNCHANGED mLockFlag

ReadGate(t) ==
    /\ Masked(mLockFlag) = 0
    /\ Goto(t, "r_gate", "r_check")
    /\ UNCHANGED mLockFlag

ReadCheck(t) == Goto(t, "r_check", "r_gate") /\ UNCHANGED mLockFlag

-----------------------------------------------------------------------------
\* The steps of a thread that has entered; each is taken without outside help.
Step(t) ==
    \/ WriteGate(t) \/ WriteAdd(t) \/ WriteDrain(t) \/ WriteUndo(t) \/ LeaveWriteLock(t)
    \/ ReadGate(t) \/ ReadCheck(t)

Next == \E t \in Threads : EnterWriteLock(t) \/ EnterReadLock(t) \/ Step(t)

Spec == Init /\ [][Next]_vars

\* The operating system keeps running every thread, and no thread keeps the lock.
FairSpec == Spec /\ \A t \in Threads : WF_vars(Step(t))

-----------------------------------------------------------------------------
TypeOK ==
    /\ mLockFlag \in [writers : 0 .. 2 * WRITE_SLOTS - 1, readers : 0 .. 1]
    /\ pc \in [Threads -> {"idle", "w_gate", "w_add", "w_drain", "w_undo", "cs",
                           "r_gate", "r_check", "r_cs"}]

\* At most one thread is between EnterWriteLock and LeaveWriteLock.
MutualExclusion ==
    \A t, u \in Threads : pc[t] = "cs" /\ pc[u] = "cs" => t = u

Registered == {t \in Threads : pc[t] \in {"w_drain", "w_undo", "cs"}}

(***************************************************************************)
(* The writers' bits count exactly the threads that have counted           *)
(* themselves in and not yet out, the losers of a race included, and only  *)
(* one of these is a winner.  So a late undo never releases a lock that    *)
(* another thread holds, and a lock nobody wants reads 0 again.            *)
(***************************************************************************)
FlagCountsWriters ==
    /\ mLockFlag.writers = Cardinality(Registered)
    /\ mLockFlag.readers = 0
    /\ \A t, u \in Threads :
          pc[t] \in {"w_drain", "cs"} /\ pc[u] \in {"w_drain", "cs"} => t = u

(***************************************************************************)
(* The lock implements Mutex: the owner is the thread in its critical      *)
(* section, the waiting ones are those inside EnterWriteLock.              *)
(***************************************************************************)
Owner ==
    IF \E t \in Threads : pc[t] = "cs" THEN CHOOSE t \in Threads : pc[t] = "cs" ELSE None

Waiting == {t \in Threads : pc[t] \in {"w_gate", "w_add", "w_drain", "w_undo"}}

Mutex == INSTANCE Mutex WITH owner <- Owner, waiting <- Waiting

ImplementsMutex == Mutex!Spec

(***************************************************************************)
(* A lock that stays free while threads are inside EnterWriteLock is given *)
(* to one of them: although each backs off when it meets another, and may  *)
(* do so again and again, they cannot all do so for ever.                  *)
(***************************************************************************)
LockIsHandedOn == Mutex!Fairness

\* EnterReadLock gives a reader its shared access.
ReadersEnter == \A t \in Threads : pc[t] = "r_gate" ~> pc[t] = "r_cs"
=============================================================================
