------------------------ MODULE PlayerManagerProofs ------------------------
(***************************************************************************)
(* FastSpinlock, and the registry of the players that stands on it, for    *)
(* every finite set of threads, every set of players and every bound on    *)
(* the numbers.                                                            *)
(***************************************************************************)
EXTENDS PlayerManager, FiniteSetTheorems, TLAPS

(***************************************************************************)
(* The lock by itself (FastSpinlock!Spec), for every finite set of threads *)
(* that LF_WRITE_MASK can count: the writers' bits of mLockFlag count the  *)
(* registered threads, at most one of them holds the lock, and the lock    *)
(* implements Mutex.  FlagCountsWriters is the inductive part: the test    *)
(* that a thread makes in WriteAdd (the count became 1) tells it that      *)
(* nobody else was registered.                                             *)
(***************************************************************************)
LockInv == TypeOK /\ FlagCountsWriters

LEMMA RegisteredBound ==
    ASSUME TypeOK
    PROVE  /\ IsFiniteSet(Registered)
           /\ Cardinality(Registered) \in Nat
           /\ Cardinality(Registered) < WRITE_SLOTS
  <1>1. Registered \subseteq Threads
    BY DEF Registered
  <1>2. /\ IsFiniteSet(Registered)
        /\ Cardinality(Registered) <= Cardinality(Threads)
    BY <1>1, FS_Subset, ThreadsAssumption
  <1>3. Cardinality(Registered) \in Nat /\ Cardinality(Threads) \in Nat
    BY <1>2, FS_CardinalityType, ThreadsAssumption
  <1> QED BY <1>2, <1>3, ThreadsAssumption

\* A count that fits the mask is not changed by it.
LEMMA SmallModulo ==
    ASSUME NEW n \in Nat, NEW m \in Nat, n < m
    PROVE  n % m = n
  OBVIOUS

LEMMA LockInitOK == Init => LockInv
  <1> SUFFICES ASSUME Init PROVE LockInv
    OBVIOUS
  <1>0. Cardinality(Threads) \in Nat
    BY FS_CardinalityType, ThreadsAssumption
  <1>1. TypeOK
    BY <1>0, ThreadsAssumption DEF Init, TypeOK
  <1>2. Registered = {}
    BY DEF Init, Registered
  <1>3. Cardinality(Registered) = 0
    BY <1>2, FS_EmptySet
  <1> QED BY <1>1, <1>3 DEF Init, LockInv, FlagCountsWriters

\* A thread that joins the registered ones raises the count by one.
LEMMA Joins ==
    ASSUME TypeOK, NEW t \in Threads, t \notin Registered, Registered' = Registered \cup {t}
    PROVE  Cardinality(Registered') = Cardinality(Registered) + 1
  BY RegisteredBound, FS_AddElement

LEMMA Leaves ==
    ASSUME TypeOK, NEW t \in Threads, t \in Registered, Registered' = Registered \ {t}
    PROVE  Cardinality(Registered') = Cardinality(Registered) - 1 /\ Cardinality(Registered) > 0
  <1>1. IsFiniteSet(Registered) /\ Cardinality(Registered) \in Nat
    BY RegisteredBound
  <1>2. Cardinality(Registered) # 0
    BY <1>1, FS_EmptySet
  <1> QED BY <1>1, <1>2, FS_RemoveElement

\* The count out of LeaveWriteLock and of the undo in EnterWriteLock.
LEMMA CountedOut ==
    ASSUME LockInv, NEW t \in Threads, NEW to \in {"w_gate", "idle"},
           pc[t] \in {"w_undo", "cs"}, pc' = [pc EXCEPT ![t] = to], mLockFlag' = Added(-1)
    PROVE  LockInv'
  <1>1. Registered' = Registered \ {t} /\ t \in Registered
    BY DEF Registered, LockInv, TypeOK
  <1>2. Cardinality(Registered') = Cardinality(Registered) - 1 /\ Cardinality(Registered) > 0
    BY <1>1, Leaves DEF LockInv
  <1>3. Cardinality(Registered) \in Nat /\ Cardinality(Registered) < WRITE_SLOTS
    BY RegisteredBound DEF LockInv
  <1> DEFINE n == Cardinality(Registered)
  <1> HIDE DEF n
  <1>4. n \in Nat /\ n > 0 /\ n < WRITE_SLOTS /\ mLockFlag.writers = n /\ WRITE_SLOTS \in Nat
    BY <1>2, <1>3, ThreadsAssumption DEF n, LockInv, FlagCountsWriters
  <1>5. (n + -1) % (2 * WRITE_SLOTS) = n - 1
    BY <1>4, SmallModulo
  <1>6. mLockFlag' = [mLockFlag EXCEPT !.writers = n - 1]
    BY <1>4, <1>5 DEF Added
  <1>7. TypeOK'
    BY <1>4, <1>6 DEF LockInv, TypeOK
  <1>8. mLockFlag'.writers = n - 1 /\ mLockFlag'.readers = 0
    BY <1>6 DEF LockInv, TypeOK, FlagCountsWriters
  <1>9. \A v, u \in Threads :
           pc'[v] \in {"w_drain", "cs"} /\ pc'[u] \in {"w_drain", "cs"} => v = u
    BY DEF LockInv, TypeOK, FlagCountsWriters
  <1> QED BY <1>2, <1>7, <1>8, <1>9 DEF n, LockInv, FlagCountsWriters

LEMMA CountedIn ==
    ASSUME LockInv, NEW t \in Threads, WriteAdd(t)
    PROVE  LockInv'
  <1> DEFINE n == Cardinality(Registered)
             to == IF Masked(mLockFlag') = 1 THEN "w_drain" ELSE "w_undo"
  <1>0. pc[t] = "w_add" /\ pc' = [pc EXCEPT ![t] = to] /\ to \in {"w_drain", "w_undo"}
    BY DEF WriteAdd, Goto
  <1>1. Registered' = Registered \cup {t} /\ t \notin Registered
    <2> HIDE DEF to
    <2> QED BY <1>0 DEF Registered, LockInv, TypeOK
  <1>2. Cardinality(Registered') = n + 1
    BY <1>1, Joins DEF LockInv
  <1>3. n \in Nat /\ n < WRITE_SLOTS
    BY RegisteredBound DEF LockInv
  <1>4. n + 1 <= Cardinality(Threads)
    <2>1. Registered' \subseteq Threads
      BY DEF Registered
    <2> QED BY <1>2, <2>1, FS_Subset, ThreadsAssumption
  <1>5. n + 1 < WRITE_SLOTS /\ WRITE_SLOTS \in Nat /\ mLockFlag.writers = n
    <2>1. Cardinality(Threads) \in Nat
      BY FS_CardinalityType, ThreadsAssumption
    <2> QED BY <1>3, <1>4, <2>1, ThreadsAssumption DEF LockInv, FlagCountsWriters
  <1> HIDE DEF n
  <1>6. (n + 1) % (2 * WRITE_SLOTS) = n + 1 /\ (n + 1) % WRITE_SLOTS = n + 1
    <2>1. n + 1 \in Nat /\ n + 1 < 2 * WRITE_SLOTS /\ 2 * WRITE_SLOTS \in Nat
      BY <1>3, <1>5
    <2>2. (n + 1) % (2 * WRITE_SLOTS) = n + 1
      BY <2>1, SmallModulo
    <2>3. (n + 1) % WRITE_SLOTS = n + 1
      BY <2>1, <1>5, SmallModulo
    <2> QED BY <2>2, <2>3
  <1>7. mLockFlag' = [mLockFlag EXCEPT !.writers = n + 1]
    BY <1>5, <1>6 DEF WriteAdd, Added
  <1>8. mLockFlag'.writers = n + 1 /\ mLockFlag'.readers = 0
    BY <1>7 DEF LockInv, TypeOK, FlagCountsWriters
  <1>9. TypeOK'
    <2>1. mLockFlag' \in [writers : 0 .. 2 * WRITE_SLOTS - 1, readers : 0 .. 1]
      BY <1>3, <1>5, <1>7 DEF LockInv, TypeOK
    <2> HIDE DEF to
    <2> QED BY <1>0, <2>1 DEF LockInv, TypeOK
  <1>10. \A v, u \in Threads :
            pc'[v] \in {"w_drain", "cs"} /\ pc'[u] \in {"w_drain", "cs"} => v = u
    <2>1. CASE n = 0
      <3>1. Registered = {}
        BY <2>1, RegisteredBound, FS_EmptySet DEF n, LockInv
      <3>2. \A u \in Threads : u # t => pc'[u] \notin {"w_drain", "cs"}
        BY <1>0, <3>1 DEF Registered, LockInv, TypeOK
      <3> QED BY <3>2
    <2>2. CASE n # 0
      <3>1. Masked(mLockFlag') # 1
        BY <1>3, <1>6, <1>8, <2>2 DEF Masked
      <3>2. pc' = [pc EXCEPT ![t] = "w_undo"]
        BY <1>0, <3>1
      <3> QED BY <3>2 DEF LockInv, TypeOK, FlagCountsWriters
    <2> QED BY <2>1, <2>2
  <1> QED BY <1>2, <1>8, <1>9, <1>10 DEF n, LockInv, FlagCountsWriters

\* A step that leaves mLockFlag alone and joins or leaves no registered thread.
LEMMA Moves ==
    ASSUME LockInv, NEW t \in Threads, NEW to \in {"w_gate", "w_add", "r_gate", "r_check"},
           pc[t] \in {"idle", "w_gate", "r_gate", "r_check"},
           pc' = [pc EXCEPT ![t] = to], mLockFlag' = mLockFlag
    PROVE  LockInv'
  <1>1. Registered' = Registered
    BY DEF Registered, LockInv, TypeOK
  <1>2. TypeOK'
    BY DEF LockInv, TypeOK
  <1>3. \A v, u \in Threads :
           pc'[v] \in {"w_drain", "cs"} /\ pc'[u] \in {"w_drain", "cs"} => v = u
    BY DEF LockInv, TypeOK, FlagCountsWriters
  <1> QED BY <1>1, <1>2, <1>3 DEF LockInv, FlagCountsWriters

LEMMA LockNextOK == LockInv /\ [Next]_vars => LockInv'
  <1> SUFFICES ASSUME LockInv, [Next]_vars PROVE LockInv'
    OBVIOUS
  <1>1. ASSUME NEW t \in Threads, EnterWriteLock(t) PROVE LockInv'
    BY <1>1, Moves DEF EnterWriteLock, Goto
  <1>2. ASSUME NEW t \in Threads, EnterReadLock(t) PROVE LockInv'
    BY <1>2, Moves DEF EnterReadLock, Goto
  <1>3. ASSUME NEW t \in Threads, WriteGate(t) PROVE LockInv'
    BY <1>3, Moves DEF WriteGate, Goto
  <1>4. ASSUME NEW t \in Threads, WriteAdd(t) PROVE LockInv'
    BY <1>4, CountedIn
  <1>5. ASSUME NEW t \in Threads, WriteDrain(t) PROVE LockInv'
    <2>1. pc[t] = "w_drain" /\ pc' = [pc EXCEPT ![t] = "cs"] /\ mLockFlag' = mLockFlag
      BY <1>5 DEF WriteDrain, Goto
    <2>2. Registered' = Registered
      BY <2>1 DEF Registered, LockInv, TypeOK
    <2>3. TypeOK'
      BY <2>1 DEF LockInv, TypeOK
    <2>4. \A v, u \in Threads :
             pc'[v] \in {"w_drain", "cs"} /\ pc'[u] \in {"w_drain", "cs"} => v = u
      BY <2>1 DEF LockInv, TypeOK, FlagCountsWriters
    <2> QED BY <2>1, <2>2, <2>3, <2>4 DEF LockInv, FlagCountsWriters
  <1>6. ASSUME NEW t \in Threads, WriteUndo(t) PROVE LockInv'
    BY <1>6, CountedOut DEF WriteUndo, Goto
  <1>7. ASSUME NEW t \in Threads, LeaveWriteLock(t) PROVE LockInv'
    BY <1>7, CountedOut DEF LeaveWriteLock, Goto
  <1>8. ASSUME NEW t \in Threads, ReadGate(t) PROVE LockInv'
    BY <1>8, Moves DEF ReadGate, Goto
  <1>9. ASSUME NEW t \in Threads, ReadCheck(t) PROVE LockInv'
    BY <1>9, Moves DEF ReadCheck, Goto
  <1>10. CASE UNCHANGED vars
    <2>1. mLockFlag' = mLockFlag /\ pc' = pc
      BY <1>10 DEF vars
    <2>2. Registered' = Registered
      BY <2>1 DEF Registered
    <2> QED BY <2>1, <2>2 DEF LockInv, TypeOK, FlagCountsWriters
  <1> QED BY <1>1, <1>2, <1>3, <1>4, <1>5, <1>6, <1>7, <1>8, <1>9, <1>10 DEF Next, Step

(***************************************************************************)
(* The writers' bits of mLockFlag count exactly the threads registered by  *)
(* EnterWriteLock, whatever the interleaving of their additions and undos. *)
(***************************************************************************)
THEOREM FlagIsExact == Spec => []FlagCountsWriters
  <1>1. Spec => []LockInv
    BY LockInitOK, LockNextOK, PTL DEF Spec
  <1>2. LockInv => FlagCountsWriters
    BY DEF LockInv
  <1> QED BY <1>1, <1>2, PTL

(***************************************************************************)
(* Type correctness: no addition carries out of the writers' bits and none *)
(* borrows from the readers'.                                              *)
(***************************************************************************)
THEOREM LockTypes == Spec => []TypeOK
  <1>1. Spec => []LockInv
    BY LockInitOK, LockNextOK, PTL DEF Spec
  <1>2. LockInv => TypeOK
    BY DEF LockInv
  <1> QED BY <1>1, <1>2, PTL

(***************************************************************************)
(* EnterWriteLock excludes: no two threads have returned from it without   *)
(* LeaveWriteLock between them, for fewer threads than the mask can count. *)
(***************************************************************************)
THEOREM WriteLockExcludes == Spec => []MutualExclusion
  <1>1. FlagCountsWriters => MutualExclusion
    BY DEF FlagCountsWriters, MutualExclusion
  <1> QED BY <1>1, FlagIsExact, PTL

-----------------------------------------------------------------------------
LEMMA OwnerIs ==
    ASSUME LockInv, NEW t \in Threads, pc[t] = "cs"
    PROVE  Owner = t
  <1>1. \A u \in Threads : pc[u] = "cs" => u = t
    BY DEF LockInv, FlagCountsWriters
  <1> QED BY <1>1 DEF Owner

LEMMA OwnerNone ==
    ASSUME \A t \in Threads : pc[t] # "cs"
    PROVE  Owner = None
  BY DEF Owner

\* A step between two places outside the critical section keeps the owner.
LEMMA OwnerKept ==
    ASSUME LockInv, LockInv', NEW t \in Threads, NEW to, pc' = [pc EXCEPT ![t] = to],
           pc[t] # "cs", to # "cs"
    PROVE  Owner' = Owner
  <1>1. \A u \in Threads : pc'[u] = "cs" <=> pc[u] = "cs"
    BY DEF LockInv, TypeOK
  <1>2. CASE \E u \in Threads : pc[u] = "cs"
    <2>1. PICK u \in Threads : pc[u] = "cs"
      BY <1>2
    <2>2. pc'[u] = "cs"
      BY <1>1, <2>1
    <2>3. \A v \in Threads : pc'[v] = "cs" => v = u
      BY <2>2 DEF LockInv, FlagCountsWriters
    <2>4. Owner' = u
      BY <2>2, <2>3 DEF Owner
    <2> QED BY <2>1, <2>4, OwnerIs
  <1>3. CASE \A u \in Threads : pc[u] # "cs"
    <2>1. Owner' = None
      BY <1>1, <1>3 DEF Owner
    <2> QED BY <1>3, <2>1, OwnerNone
  <1> QED BY <1>2, <1>3

LEMMA StepRefines ==
    ASSUME LockInv, [Next]_vars, LockInv'
    PROVE  [Mutex!Next]_<<Owner, Waiting>>
  <1> DEFINE Kept == Owner' = Owner /\ Waiting' = Waiting
  <1>1. ASSUME NEW t \in Threads, EnterWriteLock(t) PROVE Mutex!Request(t)
    <2>1. pc[t] = "idle" /\ pc' = [pc EXCEPT ![t] = "w_gate"]
      BY <1>1 DEF EnterWriteLock, Goto
    <2>2. Owner' = Owner
      BY <2>1, OwnerKept
    <2>3. t \notin Waiting /\ Waiting' = Waiting \cup {t}
      BY <2>1 DEF Waiting, LockInv, TypeOK
    <2>4. Owner # t
      <3>1. CASE \E u \in Threads : pc[u] = "cs"
        BY <2>1, <3>1, OwnerIs
      <3>2. CASE \A u \in Threads : pc[u] # "cs"
        BY <3>2, OwnerNone, ThreadsAssumption
      <3> QED BY <3>1, <3>2
    <2> QED BY <2>2, <2>3, <2>4 DEF Mutex!Request
  <1>2. ASSUME NEW t \in Threads, WriteDrain(t) PROVE Mutex!Acquire(t)
    <2>1. pc[t] = "w_drain" /\ pc' = [pc EXCEPT ![t] = "cs"]
      BY <1>2 DEF WriteDrain, Goto
    <2>2. \A u \in Threads : pc[u] # "cs"
      BY <2>1 DEF LockInv, FlagCountsWriters
    <2>3. Owner = None
      BY <2>2, OwnerNone
    <2>4. pc'[t] = "cs" /\ \A u \in Threads : pc'[u] = "cs" => u = t
      BY <2>1, <2>2 DEF LockInv, TypeOK
    <2>5. Owner' = t
      BY <2>4 DEF Owner
    <2>6. t \in Waiting /\ Waiting' = Waiting \ {t}
      BY <2>1 DEF Waiting, LockInv, TypeOK
    <2> QED BY <2>3, <2>5, <2>6 DEF Mutex!Acquire
  <1>3. ASSUME NEW t \in Threads, LeaveWriteLock(t) PROVE Mutex!Release(t)
    <2>1. pc[t] = "cs" /\ pc' = [pc EXCEPT ![t] = "idle"]
      BY <1>3 DEF LeaveWriteLock, Goto
    <2>2. Owner = t
      BY <2>1, OwnerIs
    <2>3. \A u \in Threads : pc'[u] # "cs"
      BY <2>1 DEF LockInv, TypeOK, FlagCountsWriters
    <2>4. Owner' = None
      BY <2>3 DEF Owner
    <2>5. Waiting' = Waiting
      BY <2>1 DEF Waiting, LockInv, TypeOK
    <2> QED BY <2>2, <2>4, <2>5 DEF Mutex!Release
  <1>4. ASSUME NEW t \in Threads,
               WriteGate(t) \/ WriteAdd(t) \/ WriteUndo(t)
        PROVE  Kept
    <2>1. PICK to \in {"w_add", "w_drain", "w_undo", "w_gate"} :
             pc[t] \in {"w_gate", "w_add", "w_undo"} /\ pc' = [pc EXCEPT ![t] = to]
      BY <1>4 DEF WriteGate, WriteAdd, WriteUndo, Goto
    <2>2. Owner' = Owner
      BY <2>1, OwnerKept
    <2>3. Waiting' = Waiting
      BY <2>1 DEF Waiting, LockInv, TypeOK
    <2> QED BY <2>2, <2>3
  <1>5. ASSUME NEW t \in Threads,
               EnterReadLock(t) \/ ReadGate(t) \/ ReadCheck(t)
        PROVE  Kept
    <2>1. PICK to \in {"r_gate", "r_check"} :
             pc[t] \in {"idle", "r_gate", "r_check"} /\ pc' = [pc EXCEPT ![t] = to]
      BY <1>5 DEF EnterReadLock, ReadGate, ReadCheck, Goto
    <2>2. Owner' = Owner
      BY <2>1, OwnerKept
    <2>3. Waiting' = Waiting
      BY <2>1 DEF Waiting, LockInv, TypeOK
    <2> QED BY <2>2, <2>3
  <1>6. CASE UNCHANGED vars
    BY <1>6 DEF vars, Owner, Waiting
  <1> QED BY <1>1, <1>2, <1>3, <1>4, <1>5, <1>6 DEF Next, Step, Mutex!Next

(***************************************************************************)
(* EnterWriteLock and LeaveWriteLock implement Mutex, so that what a       *)
(* thread does under a FastSpinlockGuard may be taken as one step.         *)
(***************************************************************************)
THEOREM SpinlockImplementsMutex == Spec => ImplementsMutex
  <1>1. Init => Mutex!Init
    BY DEF Init, Mutex!Init, Owner, Waiting
  <1>2. Spec => []LockInv
    BY LockInitOK, LockNextOK, PTL DEF Spec
  <1>3. LockInv /\ LockInv' /\ [Next]_vars => [Mutex!Next]_<<Owner, Waiting>>
    BY StepRefines
  <1> QED BY <1>1, <1>2, <1>3, PTL DEF Spec, ImplementsMutex, Mutex!Spec, Mutex!vars

-----------------------------------------------------------------------------
(***************************************************************************)
(* The registry.  What is proved of the lock alone holds here, and mutual  *)
(* exclusion makes the increment and the store of RegisterPlayer one step  *)
(* for the others.                                                         *)
(***************************************************************************)
\* Where a thread is in the lock follows from where it is in its call.
CallControl(t) ==
    /\ call[t].at = "none" => call[t] = NoCall /\ pc[t] = "idle"
    /\ call[t].at \in {"register", "erase"} => pc[t] \in {"w_gate", "w_add", "w_drain", "w_undo", "cs"}
    /\ call[t].at \in {"store", "registered", "erased"} => pc[t] = "cs"
    /\ call[t].at = "store" => mCurrentIssueId # 0
    /\ call[t].at \in {"assign", "reset"} => pc[t] = "idle"
    /\ call[t].at = "reading" => call[t].player = None /\ pc[t] \in {"r_gate", "r_check"}
    /\ call[t].at \notin {"none", "reading"} => call[t].player \in made

Control == \A t \in Threads : CallControl(t)

\* What is done to one player is in turn.
InTurn ==
    \A t, u \in Threads : call[t].player # None /\ call[t].player = call[u].player => t = u

Registering == {t \in Threads : call[t].at = "register"}

Room == mCurrentIssueId + Cardinality(Registering) <= MAX_ISSUE

\* The numbers under which a player has been stored: the last one counted is not, yet.
GivenOut ==
    {n \in Numbers : /\ n <= mCurrentIssueId
                     /\ n = mCurrentIssueId => \A t \in Threads : call[t].at # "store"}

\* n has been given to p and p has not been told to give it back.
Owns(p, n) ==
    \/ AtRest(p) /\ mIsAlive[p] /\ mPlayerId[p] = n
    \/ \E t \in Threads : /\ call[t].at \in {"registered", "assign"}
                          /\ call[t].player = p /\ call[t].id = n

Entries(p) == {n \in Numbers : mPlayerMap[n] = p}

MapWithin ==
    /\ wiped \subseteq GivenOut
    /\ \A n \in Numbers : mPlayerMap[n] # None => n \in GivenOut

OwnersExact ==
    /\ \A p \in Players : \A n \in Numbers \cup {-1} :
          Owns(p, n) => n \in GivenOut /\ Entries(p) = {n} \ wiped
    /\ \A p, q \in Players : \A n \in Numbers : Owns(p, n) /\ Owns(q, n) => p = q

\* What is in the map for the player of a call that owns no number.
CallAbsent(t) ==
    /\ call[t].at \in {"register", "store", "registered", "assign"} => mIsAlive[call[t].player]
    /\ call[t].at \in {"register", "store", "erased", "reset"} => Entries(call[t].player) = {}
    /\ call[t].at = "erase" => Entries(call[t].player) \subseteq {call[t].id}

OthersAbsent ==
    /\ \A p \in Players : p \notin made => ~mIsAlive[p]
    /\ \A p \in Players : AtRest(p) /\ ~mIsAlive[p] => Entries(p) = {} /\ mPlayerId[p] = -1
    /\ \A t \in Threads : CallAbsent(t)

RInv ==
    /\ LockInv /\ RegistryTypeOK /\ Control /\ InTurn /\ Room
    /\ MapWithin /\ OwnersExact /\ OthersAbsent

-----------------------------------------------------------------------------
(***************************************************************************)
(* Every step of the registry is a step of the lock or leaves it alone.    *)
(***************************************************************************)
LEMMA LockStep == [RegistryNext]_<<vars, registry>> => [Next]_vars
  <1> SUFFICES ASSUME [RegistryNext]_<<vars, registry>> PROVE [Next]_vars
    OBVIOUS
  <1>1. ASSUME NEW t \in Threads, Begins(t) PROVE Next
    BY <1>1 DEF Begins, NewPlayer, Start, PlayerReset, DoBuffAllPlayers, CheckBuffTimeout,
                GetCurrentPlayers, Next
  <1>2. ASSUME NEW t \in Threads, Locks(t) PROVE Next
    BY <1>2 DEF Locks, Next, Step
  <1>3. ASSUME NEW t \in Threads, Leave(t) PROVE Next
    BY <1>3 DEF Leave, Next, Step
  <1>4. ASSUME NEW t \in Threads,
               IssueId(t) \/ RegisterPlayer(t) \/ UnregisterPlayer(t) \/ AssignId(t) \/ ResetFields(t)
        PROVE  UNCHANGED vars
    BY <1>4 DEF IssueId, RegisterPlayer, UnregisterPlayer, AssignId, ResetFields
  <1>5. CASE UNCHANGED <<vars, registry>>
    BY <1>5
  <1> QED BY <1>1, <1>2, <1>3, <1>4, <1>5 DEF RegistryNext, GoesOn

(***************************************************************************)
(* The registry uses the lock as FastSpinlock says it is used, so that     *)
(* every theorem about the lock is one about the registry.                 *)
(***************************************************************************)
THEOREM RegistryUsesLock == RegistrySpec => Spec
  <1>1. RegistryInit => Init
    BY DEF RegistryInit
  <1> QED BY <1>1, LockStep, PTL DEF RegistrySpec, Spec

(***************************************************************************)
(* No two threads are in RegisterPlayer or UnregisterPlayer at once.       *)
(***************************************************************************)
THEOREM RegistryExcludes == RegistrySpec => []MutualExclusion
  BY RegistryUsesLock, WriteLockExcludes, PTL

-----------------------------------------------------------------------------
\* A step that gives the call of t a new value leaves the other calls alone.
LEMMA CallSet ==
    ASSUME RegistryTypeOK, NEW t \in Threads, NEW c, call' = [call EXCEPT ![t] = c]
    PROVE  call'[t] = c /\ \A u \in Threads : u # t => call'[u] = call[u]
  BY DEF RegistryTypeOK

LEMMA CallsSet ==
    ASSUME RegistryTypeOK, NEW t \in Threads, NEW at, NEW p, NEW id, Calls(t, at, p, id)
    PROVE  /\ call' = [call EXCEPT ![t] = [at |-> at, player |-> p, id |-> id]]
           /\ call'[t].at = at /\ call'[t].player = p /\ call'[t].id = id
           /\ \A u \in Threads : u # t => call'[u] = call[u]
  BY DEF RegistryTypeOK, Calls

LEMMA CallGoesOn ==
    ASSUME RegistryTypeOK, NEW t \in Threads, NEW from, NEW to, Continues(t, from, to)
    PROVE  /\ call[t].at = from
           /\ call'[t].at = to /\ call'[t].player = call[t].player /\ call'[t].id = call[t].id
           /\ \A u \in Threads : u # t => call'[u] = call[u]
           /\ \A u \in Threads : call'[u].player = call[u].player /\ call'[u].id = call[u].id
  BY DEF RegistryTypeOK, Continues

\* The calls and players that the types allow.
CallRecord ==
    [at : {"none", "register", "store", "erase", "registered", "erased", "assign", "reset", "reading"},
     player : Players \cup {None}, id : Numbers \cup {-1}]

LEMMA CallTypes ==
    ASSUME RegistryTypeOK, NEW t \in Threads
    PROVE  /\ call[t].player \in Players \cup {None} /\ call[t].id \in Numbers \cup {-1}
           /\ call[t] = [at |-> call[t].at, player |-> call[t].player, id |-> call[t].id]
           /\ call[t].at \in {"none", "register", "store", "erase", "registered",
                              "erased", "assign", "reset", "reading"}
  BY DEF RegistryTypeOK

LEMMA RegistryInitOK == RegistryInit => RInv
  <1> SUFFICES ASSUME RegistryInit PROVE RInv
    OBVIOUS
  <1>1. LockInv
    BY LockInitOK DEF RegistryInit
  <1>2. RegistryTypeOK
    BY PlayersAssumption DEF RegistryInit, RegistryTypeOK, NoCall, Numbers
  <1>3. \A t \in Threads : call[t] = NoCall /\ pc[t] = "idle"
    BY DEF RegistryInit, Init
  <1>4. \A t \in Threads : call[t].at = "none" /\ call[t].player = None
    BY <1>3 DEF NoCall
  <1>5. Control /\ InTurn
    BY <1>3, <1>4 DEF Control, CallControl, InTurn
  <1>6. Registering = {}
    BY <1>4 DEF Registering
  <1>7. Room
    BY <1>6, FS_EmptySet, PlayersAssumption DEF Room, RegistryInit
  <1>8. MapWithin
    BY DEF MapWithin, RegistryInit
  <1>9. \A p \in Players : ~mIsAlive[p] /\ mPlayerId[p] = -1 /\ Entries(p) = {}
    BY PlayersAssumption DEF RegistryInit, Entries
  <1>10. \A p \in Players : \A n \in Numbers \cup {-1} : ~Owns(p, n)
    BY <1>4, <1>9 DEF Owns
  <1>11. OwnersExact
    BY <1>10 DEF OwnersExact
  <1>12. OthersAbsent
    BY <1>4, <1>9 DEF OthersAbsent, CallAbsent
  <1> QED BY <1>1, <1>2, <1>5, <1>7, <1>8, <1>11, <1>12 DEF RInv

-----------------------------------------------------------------------------
\* Nobody becomes an owner and the map is left alone.
LEMMA NoNewOwner ==
    ASSUME RInv, mPlayerMap' = mPlayerMap, wiped' = wiped, GivenOut' = GivenOut,
           \A p \in Players : \A n \in Numbers \cup {-1} : Owns(p, n)' => Owns(p, n)
    PROVE  /\ MapWithin' /\ OwnersExact'
           /\ \A p : Entries(p)' = Entries(p)
  <1>1. \A p : Entries(p)' = Entries(p)
    BY DEF Entries
  <1>2. MapWithin'
    BY DEF RInv, MapWithin
  <1>3. OwnersExact'
    BY <1>1 DEF RInv, OwnersExact
  <1> QED BY <1>1, <1>2, <1>3

\* Only one thread is in the critical section.
LEMMA Alone ==
    ASSUME RInv, NEW t \in Threads, pc[t] = "cs"
    PROVE  \A u \in Threads : u # t => call[u].at \notin {"store", "registered", "erased"}
  BY DEF RInv, LockInv, FlagCountsWriters, Control, CallControl

\* A player that has a number owns it; one at rest without is not in the map.
LEMMA AtRestOwns ==
    ASSUME RInv, NEW p \in Players, AtRest(p)
    PROVE  Entries(p) \subseteq {mPlayerId[p]}
  <1>1. mPlayerId[p] \in Numbers \cup {-1}
    BY DEF RInv, RegistryTypeOK
  <1>2. CASE mIsAlive[p]
    <2>1. Owns(p, mPlayerId[p])
      BY <1>2 DEF Owns
    <2> QED BY <1>1, <2>1 DEF RInv, OwnersExact
  <1>3. CASE ~mIsAlive[p]
    BY <1>3 DEF RInv, OthersAbsent
  <1> QED BY <1>2, <1>3

(***************************************************************************)
(* What a call that enters the lock for a player at rest leaves true.      *)
(***************************************************************************)
Entered(t, p, at, id) ==
    /\ call' \in [Threads -> CallRecord]
    /\ Control' /\ InTurn' /\ MapWithin' /\ OwnersExact'
    /\ \A q : Entries(q)' = Entries(q)
    /\ call[t].at = "none" /\ call[t].player = None
    /\ call'[t].at = at /\ call'[t].player = p /\ call'[t].id = id
    /\ \A u \in Threads : u # t => call'[u] = call[u]
    /\ \A q \in Players : q # p /\ AtRest(q)' => AtRest(q)
    /\ ~AtRest(p)'

LEMMA Enters ==
    ASSUME RInv, NEW t \in Threads, NEW p \in Players, NEW at \in {"register", "erase"},
           NEW id \in Numbers \cup {-1},
           call[t] = NoCall, AtRest(p), EnterWriteLock(t), Calls(t, at, p, id),
           p \in made', made \subseteq made',
           \A q \in Players : q # p => mIsAlive'[q] = mIsAlive[q] /\ mPlayerId'[q] = mPlayerId[q],
           mPlayerMap' = mPlayerMap, mCurrentIssueId' = mCurrentIssueId, wiped' = wiped
    PROVE  Entered(t, p, at, id)
  <1>0. RegistryTypeOK
    BY DEF RInv
  <1>1. /\ call' = [call EXCEPT ![t] = [at |-> at, player |-> p, id |-> id]]
        /\ call'[t].at = at /\ call'[t].player = p /\ call'[t].id = id
        /\ \A u \in Threads : u # t => call'[u] = call[u]
    BY <1>0, CallsSet
  <1>2. call[t].at = "none" /\ call[t].player = None
    BY DEF NoCall
  <1>3. call' \in [Threads -> CallRecord]
    BY <1>0, <1>1 DEF RegistryTypeOK, CallRecord
  <1>4. pc'[t] = "w_gate" /\ \A u \in Threads : u # t => pc'[u] = pc[u]
    BY DEF EnterWriteLock, Goto, RInv, LockInv, TypeOK
  <1>5. Control'
    <2> SUFFICES ASSUME NEW u \in Threads PROVE CallControl(u)'
      BY DEF Control
    <2>1. CASE u = t
      BY <1>1, <1>4, <2>1 DEF CallControl
    <2>2. CASE u # t
      BY <1>1, <1>4, <2>2 DEF RInv, Control, CallControl
    <2> QED BY <2>1, <2>2
  <1>6. InTurn'
    BY <1>1 DEF RInv, InTurn, AtRest
  <1>7. GivenOut' = GivenOut
    BY <1>1, <1>2 DEF GivenOut
  <1>8. /\ \A q \in Players : q # p /\ AtRest(q)' => AtRest(q)
        /\ ~AtRest(p)'
    BY <1>1, <1>2, PlayersAssumption DEF AtRest
  <1>9. \A q \in Players : \A n \in Numbers \cup {-1} : Owns(q, n)' => Owns(q, n)
    <2> SUFFICES ASSUME NEW q \in Players, NEW n \in Numbers \cup {-1}, Owns(q, n)'
                 PROVE  Owns(q, n)
      OBVIOUS
    <2>1. CASE AtRest(q)' /\ mIsAlive'[q] /\ mPlayerId'[q] = n
      BY <2>1, <1>8 DEF Owns
    <2>2. ASSUME NEW u \in Threads, call'[u].at \in {"registered", "assign"},
                 call'[u].player = q, call'[u].id = n
          PROVE  Owns(q, n)
      BY <2>2, <1>1 DEF Owns
    <2> QED BY <2>1, <2>2 DEF Owns
  <1>10. MapWithin' /\ OwnersExact' /\ \A q : Entries(q)' = Entries(q)
    BY <1>7, <1>9, NoNewOwner
  <1> QED BY <1>1, <1>2, <1>3, <1>5, <1>6, <1>8, <1>10 DEF Entered

\* The number of threads that still have to count mCurrentIssueId up.
LEMMA RegisteringFinite ==
    IsFiniteSet(Registering) /\ Cardinality(Registering) \in Nat
  <1>1. IsFiniteSet(Registering)
    BY FS_Subset, ThreadsAssumption DEF Registering
  <1> QED BY <1>1, FS_CardinalityType

LEMMA NewPlayerOK ==
    ASSUME RInv, LockInv', NEW t \in Threads, call[t] = NoCall,
           NEW p \in Players, NEW garbage \in Numbers \cup {-1}, NewPlayer(t, p, garbage)
    PROVE  RInv'
  <1>1. AtRest(p)
    BY PlayersAssumption DEF NewPlayer, AtRest, RInv, Control, CallControl, NoCall
  <1>2. /\ p \in made' /\ made \subseteq made' /\ made' \subseteq Players
        /\ mIsAlive' = mIsAlive /\ mPlayerId' = [mPlayerId EXCEPT ![p] = garbage]
        /\ \A q \in Players : q # p => mPlayerId'[q] = mPlayerId[q]
        /\ mPlayerMap' = mPlayerMap /\ mCurrentIssueId' = mCurrentIssueId /\ wiped' = wiped
        /\ EnterWriteLock(t) /\ Calls(t, "erase", p, garbage)
    BY DEF NewPlayer, RInv, RegistryTypeOK
  <1>3. Entered(t, p, "erase", garbage)
    BY <1>1, <1>2, Enters
  <1>4. RegistryTypeOK'
    BY <1>2, <1>3 DEF RInv, RegistryTypeOK, Entered, CallRecord
  <1>5. Registering' = Registering
    BY <1>3 DEF Registering, Entered
  <1>6. Room'
    BY <1>2, <1>5 DEF RInv, Room
  <1>7. ~mIsAlive[p] /\ Entries(p) = {}
    BY <1>1 DEF NewPlayer, RInv, OthersAbsent
  <1>8. OthersAbsent'
    <2>1. \A q \in Players : q \notin made' => ~mIsAlive'[q]
      BY <1>2 DEF RInv, OthersAbsent
    <2>2. \A q \in Players : AtRest(q)' /\ ~mIsAlive'[q] => Entries(q)' = {} /\ mPlayerId'[q] = -1
      BY <1>2, <1>3 DEF RInv, OthersAbsent, Entered
    <2>3. \A u \in Threads : CallAbsent(u)'
      BY <1>2, <1>3, <1>7 DEF RInv, OthersAbsent, CallAbsent, Entered
    <2> QED BY <1>3, <2>1, <2>2, <2>3 DEF OthersAbsent, Entered
  <1> QED BY <1>3, <1>4, <1>6, <1>8 DEF RInv, Entered

LEMMA StartOK ==
    ASSUME RInv, LockInv', NEW t \in Threads, call[t] = NoCall, NEW p \in Players, Start(t, p)
    PROVE  RInv'
  <1>2. /\ p \in made /\ made' = made /\ AtRest(p) /\ ~mIsAlive[p]
        /\ mIsAlive' = [mIsAlive EXCEPT ![p] = TRUE] /\ mPlayerId' = mPlayerId
        /\ \A q \in Players : q # p => mIsAlive'[q] = mIsAlive[q]
        /\ mIsAlive'[p] = TRUE
        /\ mPlayerMap' = mPlayerMap /\ mCurrentIssueId' = mCurrentIssueId /\ wiped' = wiped
        /\ EnterWriteLock(t) /\ Calls(t, "register", p, -1)
        /\ mCurrentIssueId + Cardinality(Registering) < MAX_ISSUE
    BY DEF Start, RInv, RegistryTypeOK, Registering
  <1>3. Entered(t, p, "register", -1)
    BY <1>2, Enters
  <1>4. RegistryTypeOK'
    BY <1>2, <1>3 DEF RInv, RegistryTypeOK, Entered, CallRecord
  <1>5. Registering' = Registering \cup {t} /\ t \notin Registering
    BY <1>3 DEF Registering, Entered
  <1>6. Cardinality(Registering') = Cardinality(Registering) + 1
    BY <1>5, RegisteringFinite, FS_AddElement
  <1>7. Room'
    BY <1>2, <1>6, RegisteringFinite, PlayersAssumption DEF RInv, RegistryTypeOK, Room
  <1>8. Entries(p) = {}
    BY <1>2 DEF RInv, OthersAbsent
  <1>9. OthersAbsent'
    <2>1. \A q \in Players : q \notin made' => ~mIsAlive'[q]
      BY <1>2 DEF RInv, OthersAbsent
    <2>2. \A q \in Players : AtRest(q)' /\ ~mIsAlive'[q] => Entries(q)' = {} /\ mPlayerId'[q] = -1
      BY <1>2, <1>3 DEF RInv, OthersAbsent, Entered
    <2>3. \A u \in Threads : CallAbsent(u)'
      <3> SUFFICES ASSUME NEW u \in Threads PROVE CallAbsent(u)'
        OBVIOUS
      <3>1. CASE u = t
        BY <1>2, <1>3, <1>8, <3>1 DEF Entered, CallAbsent
      <3>2. CASE u # t
        <4>1. call'[u] = call[u] /\ call[u].player # p
          BY <1>2, <1>3, <3>2 DEF Entered, AtRest
        <4>2. call[u].at \in {"register", "store", "registered", "assign"} => call[u].player \in Players
          BY <1>4, <4>1, PlayersAssumption DEF RInv, RegistryTypeOK, Control, CallControl
        <4> QED BY <1>2, <1>3, <4>1, <4>2 DEF RInv, OthersAbsent, CallAbsent, Entered
      <3> QED BY <3>1, <3>2
    <2> QED BY <1>3, <2>1, <2>2, <2>3 DEF OthersAbsent, Entered
  <1> QED BY <1>3, <1>4, <1>7, <1>9 DEF RInv, Entered

LEMMA PlayerResetOK ==
    ASSUME RInv, LockInv', NEW t \in Threads, call[t] = NoCall, NEW p \in Players, PlayerReset(t, p)
    PROVE  RInv'
  <1>2. /\ p \in made /\ made' = made /\ AtRest(p)
        /\ mIsAlive' = mIsAlive /\ mPlayerId' = mPlayerId
        /\ mPlayerMap' = mPlayerMap /\ mCurrentIssueId' = mCurrentIssueId /\ wiped' = wiped
        /\ EnterWriteLock(t) /\ Calls(t, "erase", p, mPlayerId[p])
        /\ mPlayerId[p] \in Numbers \cup {-1}
    BY DEF PlayerReset, RInv, RegistryTypeOK
  <1>3. Entered(t, p, "erase", mPlayerId[p])
    BY <1>2, Enters
  <1>4. RegistryTypeOK'
    BY <1>2, <1>3 DEF RInv, RegistryTypeOK, Entered, CallRecord
  <1>5. Registering' = Registering
    BY <1>3 DEF Registering, Entered
  <1>6. Room'
    BY <1>2, <1>5 DEF RInv, Room
  <1>7. Entries(p) \subseteq {mPlayerId[p]}
    BY <1>2, AtRestOwns
  <1>8. OthersAbsent'
    <2>1. \A q \in Players : q \notin made' => ~mIsAlive'[q]
      BY <1>2 DEF RInv, OthersAbsent
    <2>2. \A q \in Players : AtRest(q)' /\ ~mIsAlive'[q] => Entries(q)' = {} /\ mPlayerId'[q] = -1
      BY <1>2, <1>3 DEF RInv, OthersAbsent, Entered
    <2>3. \A u \in Threads : CallAbsent(u)'
      BY <1>2, <1>3, <1>7 DEF RInv, OthersAbsent, CallAbsent, Entered
    <2> QED BY <1>3, <2>1, <2>2, <2>3 DEF OthersAbsent, Entered
  <1> QED BY <1>3, <1>4, <1>6, <1>8 DEF RInv, Entered

LEMMA GetCurrentPlayersOK ==
    ASSUME RInv, LockInv', NEW t \in Threads, call[t] = NoCall, GetCurrentPlayers(t)
    PROVE  RInv'
  <1>1. /\ made' = made /\ mIsAlive' = mIsAlive /\ mPlayerId' = mPlayerId
        /\ mPlayerMap' = mPlayerMap /\ mCurrentIssueId' = mCurrentIssueId /\ wiped' = wiped
        /\ EnterReadLock(t) /\ Calls(t, "reading", None, -1)
        /\ call[t].at = "none" /\ call[t].player = None
    BY DEF GetCurrentPlayers, NoCall
  <1>2. /\ call' = [call EXCEPT ![t] = [at |-> "reading", player |-> None, id |-> -1]]
        /\ call'[t].at = "reading" /\ call'[t].player = None /\ call'[t].id = -1
        /\ \A u \in Threads : u # t => call'[u] = call[u]
    BY <1>1, CallsSet DEF RInv
  <1>3. RegistryTypeOK'
    BY <1>1, <1>2 DEF RInv, RegistryTypeOK
  <1>4. pc'[t] = "r_gate" /\ \A u \in Threads : u # t => pc'[u] = pc[u]
    BY <1>1 DEF EnterReadLock, Goto, RInv, LockInv, TypeOK
  <1>5. Control'
    <2> SUFFICES ASSUME NEW u \in Threads PROVE CallControl(u)'
      BY DEF Control
    <2> QED BY <1>1, <1>2, <1>4 DEF RInv, Control, CallControl
  <1>6. InTurn'
    BY <1>2 DEF RInv, InTurn
  <1>7. \A q \in Players : AtRest(q)' <=> AtRest(q)
    BY <1>1, <1>2, PlayersAssumption DEF AtRest
  <1>8. GivenOut' = GivenOut /\ Registering' = Registering
    BY <1>1, <1>2 DEF GivenOut, Registering
  <1>9. \A q \in Players : \A n \in Numbers \cup {-1} : Owns(q, n)' => Owns(q, n)
    BY <1>1, <1>2, <1>7 DEF Owns
  <1>10. MapWithin' /\ OwnersExact' /\ \A q : Entries(q)' = Entries(q)
    BY <1>1, <1>8, <1>9, NoNewOwner
  <1>11. OthersAbsent'
    BY <1>1, <1>2, <1>7, <1>10 DEF RInv, OthersAbsent, CallAbsent
  <1>12. Room'
    BY <1>1, <1>8 DEF RInv, Room
  <1> QED BY <1>3, <1>5, <1>6, <1>10, <1>11, <1>12 DEF RInv

-----------------------------------------------------------------------------
LEMMA LocksOK ==
    ASSUME RInv, LockInv', NEW t \in Threads, Locks(t)
    PROVE  RInv'
  <1>1. /\ mPlayerMap' = mPlayerMap /\ mCurrentIssueId' = mCurrentIssueId
        /\ mPlayerId' = mPlayerId /\ mIsAlive' = mIsAlive
        /\ made' = made /\ call' = call /\ wiped' = wiped
    BY DEF Locks, registry
  <1>2. PICK to \in {"w_gate", "w_add", "w_drain", "w_undo", "cs"} :
           \/ /\ pc[t] \in {"w_gate", "w_add", "w_drain", "w_undo"}
              /\ pc' = [pc EXCEPT ![t] = to]
           \/ /\ pc[t] \in {"r_gate", "r_check"}
              /\ \E r \in {"r_gate", "r_check"} : pc' = [pc EXCEPT ![t] = r]
    BY DEF Locks, WriteGate, WriteAdd, WriteDrain, WriteUndo, ReadGate, ReadCheck, Goto
  <1>3. Control'
    <2> SUFFICES ASSUME NEW u \in Threads PROVE CallControl(u)'
      BY DEF Control
    <2>1. CASE u # t
      BY <1>1, <1>2, <2>1 DEF RInv, LockInv, TypeOK, Control, CallControl
    <2>2. CASE u = t /\ pc[t] \in {"w_gate", "w_add", "w_drain", "w_undo"}
      <3>1. pc'[t] = to /\ call[t].at \in {"register", "erase"}
        BY <1>2, <2>2, CallTypes DEF RInv, LockInv, TypeOK, Control, CallControl
      <3> QED BY <1>1, <2>2, <3>1 DEF RInv, Control, CallControl
    <2>3. CASE u = t /\ pc[t] \in {"r_gate", "r_check"}
      <3>1. pc'[t] \in {"r_gate", "r_check"} /\ call[t].at = "reading"
        BY <1>2, <2>3, CallTypes DEF RInv, LockInv, TypeOK, Control, CallControl
      <3> QED BY <1>1, <2>3, <3>1 DEF RInv, Control, CallControl
    <2> QED BY <1>2, <2>1, <2>2, <2>3
  <1>4. RegistryTypeOK' /\ InTurn' /\ Room'
    BY <1>1 DEF RInv, RegistryTypeOK, InTurn, Room, Registering
  <1>5. GivenOut' = GivenOut /\ \A q \in Players : \A n \in Numbers \cup {-1} : Owns(q, n)' => Owns(q, n)
    BY <1>1 DEF GivenOut, Owns, AtRest
  <1>6. MapWithin' /\ OwnersExact'
    BY <1>1, <1>5, NoNewOwner
  <1>7. OthersAbsent'
    BY <1>1 DEF RInv, OthersAbsent, CallAbsent, Entries, AtRest
  <1> QED BY <1>3, <1>4, <1>6, <1>7 DEF RInv

LEMMA IssueIdOK ==
    ASSUME RInv, LockInv', NEW t \in Threads, IssueId(t)
    PROVE  RInv'
  <1>1. /\ pc[t] = "cs" /\ pc' = pc /\ mCurrentIssueId' = mCurrentIssueId + 1
        /\ Continues(t, "register", "store")
        /\ mPlayerMap' = mPlayerMap /\ mPlayerId' = mPlayerId /\ mIsAlive' = mIsAlive
        /\ made' = made /\ wiped' = wiped
    BY DEF IssueId, vars
  <1>2. /\ call[t].at = "register"
        /\ call'[t].at = "store" /\ call'[t].player = call[t].player /\ call'[t].id = call[t].id
        /\ \A u \in Threads : u # t => call'[u] = call[u]
        /\ \A u \in Threads : call'[u].player = call[u].player /\ call'[u].id = call[u].id
    BY <1>1, CallGoesOn DEF RInv
  <1>3. Registering' = Registering \ {t} /\ t \in Registering
    BY <1>2 DEF Registering
  <1>4. /\ Cardinality(Registering') = Cardinality(Registering) - 1
        /\ Cardinality(Registering) \in Nat /\ Cardinality(Registering) # 0
    BY <1>3, RegisteringFinite, FS_RemoveElement, FS_EmptySet
  <1>5. Room' /\ mCurrentIssueId' \in 0 .. MAX_ISSUE
    BY <1>1, <1>4, PlayersAssumption DEF RInv, RegistryTypeOK, Room
  <1>6. call' = [call EXCEPT ![t].at = "store"]
    BY <1>1 DEF Continues
  <1>7. RegistryTypeOK'
    BY <1>1, <1>5, <1>6 DEF RInv, RegistryTypeOK
  <1>8. Control'
    <2> SUFFICES ASSUME NEW u \in Threads PROVE CallControl(u)'
      BY DEF Control
    <2>1. mCurrentIssueId' # 0
      BY <1>1 DEF RInv, RegistryTypeOK
    <2> QED BY <1>1, <1>2, <2>1 DEF RInv, Control, CallControl
  <1>9. InTurn' /\ \A q : AtRest(q)' <=> AtRest(q)
    BY <1>2 DEF RInv, InTurn, AtRest
  <1>10. GivenOut' = GivenOut
    <2>1. \A u \in Threads : call[u].at # "store"
      BY <1>1, <1>2, Alone
    <2>2. mCurrentIssueId \in Nat
      BY DEF RInv, RegistryTypeOK
    <2> QED BY <1>1, <1>2, <2>1, <2>2 DEF GivenOut, Numbers
  <1>11. \A q \in Players : \A n \in Numbers \cup {-1} : Owns(q, n)' => Owns(q, n)
    BY <1>1, <1>2, <1>9 DEF Owns
  <1>12. MapWithin' /\ OwnersExact' /\ \A q : Entries(q)' = Entries(q)
    BY <1>1, <1>10, <1>11, NoNewOwner
  <1>13. OthersAbsent'
    BY <1>1, <1>2, <1>9, <1>12 DEF RInv, OthersAbsent, CallAbsent
  <1> QED BY <1>5, <1>7, <1>8, <1>9, <1>12, <1>13 DEF RInv

LEMMA RegisterPlayerOK ==
    ASSUME RInv, LockInv', NEW t \in Threads, RegisterPlayer(t)
    PROVE  RInv'
  <1>0. PICK p, cur : p = call[t].player /\ cur = mCurrentIssueId
    OBVIOUS
  <1>1. /\ pc[t] = "cs" /\ pc' = pc /\ call[t].at = "store"
        /\ mPlayerMap' = [mPlayerMap EXCEPT ![cur] = p] /\ Calls(t, "registered", p, cur)
        /\ mCurrentIssueId' = cur /\ mPlayerId' = mPlayerId /\ mIsAlive' = mIsAlive
        /\ made' = made /\ wiped' = wiped
    BY <1>0 DEF RegisterPlayer, vars
  <1>2. /\ call' = [call EXCEPT ![t] = [at |-> "registered", player |-> p, id |-> cur]]
        /\ call'[t].at = "registered" /\ call'[t].player = p /\ call'[t].id = cur
        /\ \A u \in Threads : u # t => call'[u] = call[u]
    BY <1>1, CallsSet DEF RInv
  <1>3. p \in Players /\ cur \in Numbers /\ mIsAlive[p] /\ Entries(p) = {}
    <2>1. p \in Players /\ mCurrentIssueId # 0
      BY <1>0, <1>1 DEF RInv, RegistryTypeOK, Control, CallControl
    <2>2. mCurrentIssueId \in Numbers
      BY <2>1 DEF RInv, RegistryTypeOK, Numbers
    <2> QED BY <1>0, <1>1, <2>1, <2>2 DEF RInv, OthersAbsent, CallAbsent
  <1>4. RegistryTypeOK'
    <2>1. mCurrentIssueId' = mCurrentIssueId
      BY <1>0, <1>1
    <2>2. mPlayerMap' \in [Numbers -> Players \cup {None}]
      BY <1>1, <1>3 DEF RInv, RegistryTypeOK
    <2> QED BY <1>1, <1>2, <1>3, <2>1, <2>2 DEF RInv, RegistryTypeOK
  <1>5. Control'
    <2> SUFFICES ASSUME NEW u \in Threads PROVE CallControl(u)'
      BY DEF Control
    <2> QED BY <1>0, <1>1, <1>2 DEF RInv, Control, CallControl
  <1>6. \A u \in Threads : call'[u].player = call[u].player
    BY <1>0, <1>2
  <1>7. InTurn' /\ \A q : AtRest(q)' <=> AtRest(q)
    BY <1>6 DEF RInv, InTurn, AtRest
  <1>8. Registering' = Registering
    BY <1>1, <1>2 DEF Registering
  <1>9. Room'
    BY <1>0, <1>1, <1>8 DEF RInv, Room
  <1>10. cur \notin GivenOut /\ GivenOut' = GivenOut \cup {cur}
    <2>1. \A u \in Threads : call'[u].at # "store"
      BY <1>1, <1>2, Alone
    <2> QED BY <1>0, <1>1, <1>3, <2>1 DEF GivenOut, Numbers
  <1>11. /\ Entries(p)' = {cur}
         /\ \A q \in Players : q # p => Entries(q)' = Entries(q)
    <2>1. mPlayerMap[cur] = None
      BY <1>3, <1>10 DEF RInv, MapWithin
    <2>2. \A n \in Numbers : mPlayerMap'[n] = IF n = cur THEN p ELSE mPlayerMap[n]
      BY <1>1, <1>3 DEF RInv, RegistryTypeOK
    <2>3. \A q \in Players : Entries(q)' = IF q = p THEN Entries(q) \cup {cur} ELSE Entries(q)
      BY <1>3, <2>1, <2>2, PlayersAssumption DEF Entries
    <2> QED BY <1>3, <2>3
  <1>12. MapWithin'
    BY <1>1, <1>3, <1>10 DEF RInv, MapWithin, RegistryTypeOK
  <1>13. \A n : ~Owns(p, n)
    BY <1>0, <1>1, <1>3, PlayersAssumption DEF RInv, InTurn, Owns, AtRest
  <1>14. \A q \in Players : \A n \in Numbers \cup {-1} :
            Owns(q, n)' => (q # p /\ Owns(q, n)) \/ (q = p /\ n = cur)
    <2> SUFFICES ASSUME NEW q \in Players, NEW n \in Numbers \cup {-1}, Owns(q, n)'
                 PROVE  (q # p /\ Owns(q, n)) \/ (q = p /\ n = cur)
      OBVIOUS
    <2>1. CASE AtRest(q)' /\ mIsAlive'[q] /\ mPlayerId'[q] = n
      <3>1. Owns(q, n)
        BY <1>1, <1>7, <2>1 DEF Owns
      <3> QED BY <1>13, <3>1
    <2>2. ASSUME NEW u \in Threads, call'[u].at \in {"registered", "assign"},
                 call'[u].player = q, call'[u].id = n, u # t
          PROVE  q # p /\ Owns(q, n)
      <3>1. Owns(q, n)
        BY <1>2, <2>2 DEF Owns
      <3> QED BY <1>13, <3>1
    <2>3. CASE call'[t].player = q /\ call'[t].id = n
      BY <1>2, <2>3
    <2> QED BY <2>1, <2>2, <2>3 DEF Owns
  <1>15. OwnersExact'
    <2>1. cur \notin wiped
      BY <1>10 DEF RInv, MapWithin
    <2>2. \A q \in Players : ~Owns(q, cur)
      BY <1>3, <1>10 DEF RInv, OwnersExact
    <2>3. \A q \in Players : \A n \in Numbers \cup {-1} :
             Owns(q, n)' => n \in GivenOut' /\ Entries(q)' = {n} \ wiped'
      BY <1>1, <1>10, <1>11, <1>14, <2>1 DEF RInv, OwnersExact
    <2>4. \A q, r \in Players : \A n \in Numbers : Owns(q, n)' /\ Owns(r, n)' => q = r
      BY <1>14, <2>2 DEF RInv, OwnersExact
    <2> QED BY <2>3, <2>4 DEF OwnersExact
  <1>16. OthersAbsent'
    <2>1. \A q \in Players : q \notin made' => ~mIsAlive'[q]
      BY <1>1 DEF RInv, OthersAbsent
    <2>2. \A q \in Players : AtRest(q)' /\ ~mIsAlive'[q] => Entries(q)' = {} /\ mPlayerId'[q] = -1
      BY <1>1, <1>3, <1>7, <1>11 DEF RInv, OthersAbsent
    <2>3. ASSUME NEW u \in Threads PROVE CallAbsent(u)'
      <3>1. CASE u = t
        BY <1>1, <1>2, <1>3, <3>1 DEF CallAbsent
      <3>2. CASE u # t
        <4>1. call'[u] = call[u] /\ call[u].player # p
          BY <1>2, <1>3, <3>2, <1>0, PlayersAssumption DEF RInv, InTurn
        <4>2. call[u].at \in {"register", "store", "erase", "erased", "reset"}
                 => Entries(call[u].player)' = Entries(call[u].player)
          BY <1>11, <4>1 DEF RInv, RegistryTypeOK, Control, CallControl
        <4> QED BY <1>1, <4>1, <4>2 DEF RInv, OthersAbsent, CallAbsent
      <3> QED BY <3>1, <3>2
    <2> QED BY <2>1, <2>2, <2>3 DEF OthersAbsent
  <1> QED BY <1>4, <1>5, <1>7, <1>9, <1>12, <1>15, <1>16 DEF RInv

LEMMA UnregisterPlayerOK ==
    ASSUME RInv, LockInv', NEW t \in Threads, UnregisterPlayer(t)
    PROVE  RInv'
  <1>0. PICK p, id : p = call[t].player /\ id = call[t].id
    OBVIOUS
  <1>1. /\ pc[t] = "cs" /\ pc' = pc /\ Continues(t, "erase", "erased")
        /\ mPlayerMap' = [n \in Numbers |-> IF n = id THEN None ELSE mPlayerMap[n]]
        /\ wiped' = wiped \cup {n \in Numbers : n = id /\ mPlayerMap[n] \notin {None, p}}
        /\ mCurrentIssueId' = mCurrentIssueId /\ mPlayerId' = mPlayerId /\ mIsAlive' = mIsAlive
        /\ made' = made
    BY <1>0 DEF UnregisterPlayer, vars
  <1>2. /\ call[t].at = "erase"
        /\ call'[t].at = "erased" /\ call'[t].player = p /\ call'[t].id = id
        /\ \A u \in Threads : u # t => call'[u] = call[u]
        /\ \A u \in Threads : call'[u].player = call[u].player /\ call'[u].id = call[u].id
    BY <1>0, <1>1, CallGoesOn DEF RInv
  <1>3. p \in Players /\ Entries(p) \subseteq {id}
    <2>1. p \in made /\ made \subseteq Players
      BY <1>0, <1>2 DEF RInv, RegistryTypeOK, Control, CallControl
    <2>2. Entries(p) \subseteq {id}
      BY <1>0, <1>2 DEF RInv, OthersAbsent, CallAbsent
    <2> QED BY <2>1, <2>2
  <1>4. RegistryTypeOK'
    <2>1. call' \in [Threads -> CallRecord]
      BY <1>1 DEF RInv, RegistryTypeOK, Continues, CallRecord
    <2>2. mPlayerMap' \in [Numbers -> Players \cup {None}] /\ wiped' \subseteq Numbers
      BY <1>1 DEF RInv, RegistryTypeOK
    <2> QED BY <1>1, <2>1, <2>2 DEF RInv, RegistryTypeOK, CallRecord
  <1>5. Control'
    <2> SUFFICES ASSUME NEW u \in Threads PROVE CallControl(u)'
      BY DEF Control
    <2> QED BY <1>0, <1>1, <1>2 DEF RInv, Control, CallControl
  <1>6. InTurn' /\ \A q : AtRest(q)' <=> AtRest(q)
    BY <1>2 DEF RInv, InTurn, AtRest
  <1>7. Registering' = Registering /\ GivenOut' = GivenOut
    BY <1>1, <1>2 DEF Registering, GivenOut
  <1>8. Room'
    BY <1>1, <1>7 DEF RInv, Room
  <1>9. \A q \in Players : Entries(q)' = Entries(q) \ {id}
    BY <1>1, PlayersAssumption DEF Entries
  <1>10. MapWithin'
    BY <1>1, <1>7 DEF RInv, MapWithin
  <1>11. \A n : ~Owns(p, n)
    BY <1>0, <1>2, <1>3, PlayersAssumption DEF RInv, InTurn, Owns, AtRest
  <1>12. \A q \in Players : \A n \in Numbers \cup {-1} : Owns(q, n)' => Owns(q, n) /\ q # p
    <2>1. \A q \in Players : \A n \in Numbers \cup {-1} : Owns(q, n)' => Owns(q, n)
      BY <1>1, <1>2, <1>6 DEF Owns
    <2> QED BY <1>11, <2>1
  <1>13. OwnersExact'
    <2>1. ASSUME NEW q \in Players, NEW n \in Numbers \cup {-1}, Owns(q, n)'
          PROVE  n \in GivenOut' /\ Entries(q)' = {n} \ wiped'
      <3>1. Owns(q, n) /\ q # p /\ n \in GivenOut /\ n \in Numbers /\ Entries(q) = {n} \ wiped
        BY <1>12, <2>1 DEF RInv, OwnersExact, GivenOut
      <3>2. CASE n = id
        <4>1. n \notin wiped => mPlayerMap[n] = q
          BY <3>1 DEF Entries
        <4>2. n \in wiped'
          BY <1>1, <3>1, <3>2, <4>1, PlayersAssumption
        <4> QED BY <1>7, <1>9, <3>1, <3>2, <4>2
      <3>3. CASE n # id
        BY <1>1, <1>7, <1>9, <3>1, <3>3
      <3> QED BY <3>2, <3>3
    <2> QED BY <1>12, <2>1 DEF RInv, OwnersExact
  <1>14. OthersAbsent'
    <2>1. \A q \in Players : q \notin made' => ~mIsAlive'[q]
      BY <1>1 DEF RInv, OthersAbsent
    <2>2. \A q \in Players : AtRest(q)' /\ ~mIsAlive'[q] => Entries(q)' = {} /\ mPlayerId'[q] = -1
      BY <1>1, <1>6, <1>9 DEF RInv, OthersAbsent
    <2>3. ASSUME NEW u \in Threads PROVE CallAbsent(u)'
      <3>1. CASE u = t
        BY <1>2, <1>3, <1>9, <3>1 DEF CallAbsent
      <3>2. CASE u # t
        <4>1. call[u].at \in {"register", "store", "erase", "erased", "reset"}
                 => Entries(call[u].player)' \subseteq Entries(call[u].player)
          <5>1. call[u].at \in {"register", "store", "erase", "erased", "reset"}
                   => call[u].player \in Players
            BY DEF RInv, RegistryTypeOK, Control, CallControl
          <5>2. call'[u].player = call[u].player
            BY <1>2
          <5> QED BY <1>9, <5>1, <5>2
        <4> QED BY <1>1, <1>2, <3>2, <4>1 DEF RInv, OthersAbsent, CallAbsent
      <3> QED BY <3>1, <3>2
    <2> QED BY <2>1, <2>2, <2>3 DEF OthersAbsent
  <1> QED BY <1>4, <1>5, <1>6, <1>8, <1>10, <1>13, <1>14 DEF RInv

LEMMA LeaveOK ==
    ASSUME RInv, LockInv', NEW t \in Threads, Leave(t)
    PROVE  RInv'
  <1>1. /\ LeaveWriteLock(t)
        /\ mPlayerMap' = mPlayerMap /\ mCurrentIssueId' = mCurrentIssueId /\ mPlayerId' = mPlayerId
        /\ mIsAlive' = mIsAlive /\ made' = made /\ wiped' = wiped
    BY DEF Leave
  <1>2. PICK from, to : /\ <<from, to>> \in {<<"registered", "assign">>, <<"erased", "reset">>}
                        /\ Continues(t, from, to)
    BY DEF Leave
  <1>3. /\ call[t].at = from
        /\ call'[t].at = to /\ call'[t].player = call[t].player /\ call'[t].id = call[t].id
        /\ \A u \in Threads : u # t => call'[u] = call[u]
        /\ \A u \in Threads : call'[u].player = call[u].player /\ call'[u].id = call[u].id
    BY <1>2, CallGoesOn DEF RInv
  <1>4. pc'[t] = "idle" /\ \A u \in Threads : u # t => pc'[u] = pc[u]
    BY <1>1 DEF LeaveWriteLock, Goto, RInv, LockInv, TypeOK
  <1>5. RegistryTypeOK'
    <2>1. call' \in [Threads -> CallRecord]
      BY <1>2 DEF RInv, RegistryTypeOK, Continues, CallRecord
    <2> QED BY <1>1, <2>1 DEF RInv, RegistryTypeOK, CallRecord
  <1>6. Control'
    <2> SUFFICES ASSUME NEW u \in Threads PROVE CallControl(u)'
      BY DEF Control
    <2> QED BY <1>1, <1>2, <1>3, <1>4 DEF RInv, Control, CallControl
  <1>7. InTurn' /\ \A q : AtRest(q)' <=> AtRest(q)
    BY <1>3 DEF RInv, InTurn, AtRest
  <1>8. Registering' = Registering /\ GivenOut' = GivenOut
    BY <1>1, <1>2, <1>3 DEF Registering, GivenOut
  <1>9. Room'
    BY <1>1, <1>8 DEF RInv, Room
  <1>10. \A q \in Players : \A n \in Numbers \cup {-1} : Owns(q, n)' => Owns(q, n)
    BY <1>1, <1>2, <1>3, <1>7 DEF Owns
  <1>11. MapWithin' /\ OwnersExact' /\ \A q : Entries(q)' = Entries(q)
    BY <1>1, <1>8, <1>10, NoNewOwner
  <1>12. OthersAbsent'
    BY <1>1, <1>2, <1>3, <1>7, <1>11 DEF RInv, OthersAbsent, CallAbsent
  <1> QED BY <1>5, <1>6, <1>7, <1>9, <1>11, <1>12 DEF RInv

-----------------------------------------------------------------------------
(***************************************************************************)
(* The end of a call, whose player is then at rest.                        *)
(***************************************************************************)
Ended(t, p) ==
    /\ call' \in [Threads -> CallRecord]
    /\ call'[t] = NoCall /\ call'[t].at = "none" /\ call'[t].player = None
    /\ \A u \in Threads : u # t => call'[u] = call[u] /\ call[u].player # p
    /\ Control' /\ InTurn' /\ Room' /\ GivenOut' = GivenOut
    /\ AtRest(p)' /\ \A q \in Players : q # p => (AtRest(q)' <=> AtRest(q))

LEMMA Ends ==
    ASSUME RInv, NEW t \in Threads, NEW p, p = call[t].player, call[t].at \in {"assign", "reset"},
           call' = [call EXCEPT ![t] = NoCall],
           pc' = pc, made' = made, mCurrentIssueId' = mCurrentIssueId
    PROVE  p \in Players /\ Ended(t, p)
  <1>0. p \in Players
    BY DEF RInv, RegistryTypeOK, Control, CallControl
  <1>1. call'[t] = NoCall /\ \A u \in Threads : u # t => call'[u] = call[u]
    BY CallSet DEF RInv
  <1>2. call'[t].at = "none" /\ call'[t].player = None
    BY <1>1 DEF NoCall
  <1>3. call' \in [Threads -> CallRecord]
    BY DEF RInv, RegistryTypeOK, CallRecord, NoCall
  <1>4. \A u \in Threads : u # t => call[u].player # p
    BY <1>0, PlayersAssumption DEF RInv, InTurn
  <1>5. Control'
    <2> SUFFICES ASSUME NEW u \in Threads PROVE CallControl(u)'
      BY DEF Control
    <2>1. CASE u = t
      BY <1>1, <1>2, <2>1 DEF RInv, Control, CallControl
    <2>2. CASE u # t
      BY <1>1, <2>2 DEF RInv, Control, CallControl
    <2> QED BY <2>1, <2>2
  <1>6. InTurn'
    BY <1>1, <1>2 DEF RInv, InTurn
  <1>7. Registering' = Registering /\ GivenOut' = GivenOut
    BY <1>1, <1>2 DEF Registering, GivenOut
  <1>8. Room'
    BY <1>7 DEF RInv, Room
  <1>9. AtRest(p)' /\ \A q \in Players : q # p => (AtRest(q)' <=> AtRest(q))
    BY <1>0, <1>1, <1>2, <1>4, PlayersAssumption DEF AtRest
  <1> QED BY <1>0, <1>1, <1>2, <1>3, <1>4, <1>5, <1>6, <1>7, <1>8, <1>9 DEF Ended

LEMMA AssignIdOK ==
    ASSUME RInv, LockInv', NEW t \in Threads, AssignId(t)
    PROVE  RInv'
  <1>0. PICK p, id : p = call[t].player /\ id = call[t].id
    OBVIOUS
  <1>1. /\ call[t].at = "assign" /\ mPlayerId' = [mPlayerId EXCEPT ![p] = id]
        /\ call' = [call EXCEPT ![t] = NoCall] /\ pc' = pc
        /\ mPlayerMap' = mPlayerMap /\ mCurrentIssueId' = mCurrentIssueId /\ mIsAlive' = mIsAlive
        /\ made' = made /\ wiped' = wiped
    BY <1>0 DEF AssignId, vars
  <1>2. p \in Players /\ Ended(t, p)
    BY <1>0, <1>1, Ends
  <1>3. /\ id \in Numbers \cup {-1} /\ mPlayerId'[p] = id
        /\ \A q \in Players : q # p => mPlayerId'[q] = mPlayerId[q]
    BY <1>0, <1>1, <1>2 DEF RInv, RegistryTypeOK
  <1>4. RegistryTypeOK'
    BY <1>1, <1>2, <1>3 DEF RInv, RegistryTypeOK, Ended, CallRecord
  <1>5. Owns(p, id) /\ mIsAlive[p]
    BY <1>0, <1>1 DEF Owns, RInv, OthersAbsent, CallAbsent
  <1>6. \A q \in Players : \A n \in Numbers \cup {-1} : Owns(q, n)' => Owns(q, n)
    <2> SUFFICES ASSUME NEW q \in Players, NEW n \in Numbers \cup {-1}, Owns(q, n)'
                 PROVE  Owns(q, n)
      OBVIOUS
    <2>1. CASE AtRest(q)' /\ mIsAlive'[q] /\ mPlayerId'[q] = n
      <3>1. CASE q = p
        BY <1>3, <1>5, <2>1, <3>1
      <3>2. CASE q # p
        BY <1>1, <1>2, <1>3, <2>1, <3>2 DEF Owns, Ended
      <3> QED BY <3>1, <3>2
    <2>2. ASSUME NEW u \in Threads, call'[u].at \in {"registered", "assign"},
                 call'[u].player = q, call'[u].id = n
          PROVE  Owns(q, n)
      BY <1>2, <2>2 DEF Owns, Ended
    <2> QED BY <2>1, <2>2 DEF Owns
  <1>7. MapWithin' /\ OwnersExact' /\ \A q : Entries(q)' = Entries(q)
    BY <1>1, <1>2, <1>6, NoNewOwner DEF Ended
  <1>8. OthersAbsent'
    <2>1. \A q \in Players : q \notin made' => ~mIsAlive'[q]
      BY <1>1 DEF RInv, OthersAbsent
    <2>2. \A q \in Players : AtRest(q)' /\ ~mIsAlive'[q] => Entries(q)' = {} /\ mPlayerId'[q] = -1
      BY <1>1, <1>2, <1>3, <1>5, <1>7 DEF RInv, OthersAbsent, Ended
    <2>3. \A u \in Threads : CallAbsent(u)'
      BY <1>1, <1>2, <1>7 DEF RInv, OthersAbsent, CallAbsent, Ended
    <2> QED BY <2>1, <2>2, <2>3 DEF OthersAbsent
  <1> QED BY <1>2, <1>4, <1>7, <1>8 DEF RInv, Ended

LEMMA ResetFieldsOK ==
    ASSUME RInv, LockInv', NEW t \in Threads, ResetFields(t)
    PROVE  RInv'
  <1>0. PICK p : p = call[t].player
    OBVIOUS
  <1>1. /\ call[t].at = "reset" /\ mPlayerId' = [mPlayerId EXCEPT ![p] = -1]
        /\ mIsAlive' = [mIsAlive EXCEPT ![p] = FALSE]
        /\ call' = [call EXCEPT ![t] = NoCall] /\ pc' = pc
        /\ mPlayerMap' = mPlayerMap /\ mCurrentIssueId' = mCurrentIssueId
        /\ made' = made /\ wiped' = wiped
    BY <1>0 DEF ResetFields, vars
  <1>2. p \in Players /\ Ended(t, p)
    BY <1>0, <1>1, Ends
  <1>3. /\ mPlayerId'[p] = -1 /\ ~mIsAlive'[p]
        /\ \A q \in Players : q # p => mPlayerId'[q] = mPlayerId[q] /\ mIsAlive'[q] = mIsAlive[q]
    BY <1>1, <1>2 DEF RInv, RegistryTypeOK
  <1>4. RegistryTypeOK'
    BY <1>1, <1>2 DEF RInv, RegistryTypeOK, Ended, CallRecord
  <1>5. Entries(p) = {}
    BY <1>0, <1>1 DEF RInv, OthersAbsent, CallAbsent
  <1>6. \A q \in Players : \A n \in Numbers \cup {-1} : Owns(q, n)' => Owns(q, n)
    <2> SUFFICES ASSUME NEW q \in Players, NEW n \in Numbers \cup {-1}, Owns(q, n)'
                 PROVE  Owns(q, n)
      OBVIOUS
    <2>1. CASE AtRest(q)' /\ mIsAlive'[q] /\ mPlayerId'[q] = n
      <3>1. q # p
        BY <1>3, <2>1
      <3> QED BY <1>2, <1>3, <2>1, <3>1 DEF Owns, Ended
    <2>2. ASSUME NEW u \in Threads, call'[u].at \in {"registered", "assign"},
                 call'[u].player = q, call'[u].id = n
          PROVE  Owns(q, n)
      BY <1>2, <2>2 DEF Owns, Ended
    <2> QED BY <2>1, <2>2 DEF Owns
  <1>7. MapWithin' /\ OwnersExact' /\ \A q : Entries(q)' = Entries(q)
    BY <1>1, <1>2, <1>6, NoNewOwner DEF Ended
  <1>8. OthersAbsent'
    <2>1. \A q \in Players : q \notin made' => ~mIsAlive'[q]
      BY <1>1, <1>3 DEF RInv, OthersAbsent
    <2>2. \A q \in Players : AtRest(q)' /\ ~mIsAlive'[q] => Entries(q)' = {} /\ mPlayerId'[q] = -1
      BY <1>2, <1>3, <1>5, <1>7 DEF RInv, OthersAbsent, Ended
    <2>3. ASSUME NEW u \in Threads PROVE CallAbsent(u)'
      <3>1. CASE u = t
        BY <1>2, <3>1 DEF CallAbsent, Ended
      <3>2. CASE u # t
        <4>1. call'[u] = call[u] /\ call[u].player # p
          BY <1>2, <3>2 DEF Ended
        <4>2. call[u].at \in {"register", "store", "registered", "assign"} => call[u].player \in Players
          BY DEF RInv, RegistryTypeOK, Control, CallControl
        <4> QED BY <1>3, <1>7, <4>1, <4>2 DEF RInv, OthersAbsent, CallAbsent
      <3> QED BY <3>1, <3>2
    <2> QED BY <2>1, <2>2, <2>3 DEF OthersAbsent
  <1> QED BY <1>2, <1>4, <1>7, <1>8 DEF RInv, Ended

-----------------------------------------------------------------------------
LEMMA RegistryNextOK == RInv /\ [RegistryNext]_<<vars, registry>> => RInv'
  <1> SUFFICES ASSUME RInv, [RegistryNext]_<<vars, registry>> PROVE RInv'
    OBVIOUS
  <1>0. LockInv'
    BY LockStep, LockNextOK DEF RInv
  <1>1. ASSUME NEW t \in Threads, Begins(t) PROVE RInv'
    <2>1. call[t] = NoCall
      BY <1>1 DEF Begins
    <2>2. ASSUME NEW p \in Players, Start(t, p) PROVE RInv'
      BY <1>0, <2>1, <2>2, StartOK
    <2>3. ASSUME NEW p \in Players, PlayerReset(t, p) PROVE RInv'
      BY <1>0, <2>1, <2>3, PlayerResetOK
    <2>4. ASSUME NEW p \in Players, NEW n \in Numbers \cup {-1}, NewPlayer(t, p, n) PROVE RInv'
      BY <1>0, <2>1, <2>4, NewPlayerOK
    <2>5. ASSUME GetCurrentPlayers(t) PROVE RInv'
      BY <1>0, <2>1, <2>5, GetCurrentPlayersOK
    <2> QED BY <1>1, <2>2, <2>3, <2>4, <2>5 DEF Begins, DoBuffAllPlayers, CheckBuffTimeout
  <1>2. ASSUME NEW t \in Threads, GoesOn(t) PROVE RInv'
    BY <1>0, <1>2, LocksOK, IssueIdOK, RegisterPlayerOK, UnregisterPlayerOK, LeaveOK,
       AssignIdOK, ResetFieldsOK DEF GoesOn
  <1>3. CASE UNCHANGED <<vars, registry>>
    <2>1. /\ mPlayerMap' = mPlayerMap /\ mCurrentIssueId' = mCurrentIssueId
          /\ mPlayerId' = mPlayerId /\ mIsAlive' = mIsAlive
          /\ made' = made /\ call' = call /\ wiped' = wiped /\ pc' = pc
      BY <1>3 DEF vars, registry
    <2>2. RegistryTypeOK' /\ InTurn' /\ Room' /\ Control'
      BY <2>1 DEF RInv, RegistryTypeOK, InTurn, Room, Registering, Control, CallControl
    <2>3. /\ GivenOut' = GivenOut
          /\ \A q \in Players : \A n \in Numbers \cup {-1} : Owns(q, n)' => Owns(q, n)
      BY <2>1 DEF GivenOut, Owns, AtRest
    <2>4. MapWithin' /\ OwnersExact'
      BY <2>1, <2>3, NoNewOwner
    <2>5. OthersAbsent'
      BY <2>1 DEF RInv, OthersAbsent, CallAbsent, Entries, AtRest
    <2> QED BY <1>0, <2>2, <2>4, <2>5 DEF RInv
  <1> QED BY <1>1, <1>2, <1>3 DEF RegistryNext

LEMMA RegistryInductive == RegistrySpec => []RInv
  BY RegistryInitOK, RegistryNextOK, PTL DEF RegistrySpec

(***************************************************************************)
(* Type correctness: mCurrentIssueId and the players' numbers stay within  *)
(* the numbers that may be given out.                                      *)
(***************************************************************************)
THEOREM RegistryTypes == RegistrySpec => []RegistryTypeOK
  <1>1. RInv => RegistryTypeOK
    BY DEF RInv
  <1> QED BY <1>1, RegistryInductive, PTL

(***************************************************************************)
(* Between the calls made for it a player is in mPlayerMap under its       *)
(* number, and no other, exactly while it is alive, whatever the threads   *)
(* that register and unregister other players do.                          *)
(***************************************************************************)
THEOREM MapIsExact == RegistrySpec => []RegistryExact
  <1>1. RInv => RegistryExact
    <2> SUFFICES ASSUME RInv, NEW p \in Players, AtRest(p)
                 PROVE  /\ Entries(p) = IF mIsAlive[p] THEN {mPlayerId[p]} \ wiped ELSE {}
                        /\ mIsAlive[p] => mPlayerId[p] \in Numbers
      BY DEF RegistryExact, Entries
    <2>1. CASE mIsAlive[p]
      <3>1. Owns(p, mPlayerId[p]) /\ mPlayerId[p] \in Numbers \cup {-1}
        BY <2>1 DEF Owns, RInv, RegistryTypeOK
      <3> QED BY <2>1, <3>1 DEF RInv, OwnersExact, GivenOut
    <2>2. CASE ~mIsAlive[p]
      BY <2>2 DEF RInv, OthersAbsent
    <2> QED BY <2>1, <2>2
  <1> QED BY <1>1, RegistryInductive, PTL

(***************************************************************************)
(* RegisterPlayer gives every player a number of its own, and none that is *)
(* beyond mCurrentIssueId.                                                 *)
(***************************************************************************)
THEOREM NumbersAreUnique == RegistrySpec => []NumbersDiffer
  <1>1. RInv => NumbersDiffer
    <2> SUFFICES ASSUME RInv PROVE NumbersDiffer
      OBVIOUS
    <2>1. \A p \in Players : AtRest(p) /\ mPlayerId[p] # -1
             => Owns(p, mPlayerId[p]) /\ mPlayerId[p] \in Numbers
      BY DEF Owns, RInv, RegistryTypeOK, OthersAbsent
    <2>2. \A p, q \in Players :
             AtRest(p) /\ AtRest(q) /\ mPlayerId[p] # -1 /\ mPlayerId[p] = mPlayerId[q] => p = q
      BY <2>1 DEF RInv, OwnersExact
    <2>3. ASSUME NEW p \in Players, AtRest(p) PROVE mPlayerId[p] <= mCurrentIssueId
      <3>1. CASE mPlayerId[p] = -1
        BY <3>1 DEF RInv, RegistryTypeOK
      <3>2. CASE mPlayerId[p] # -1
        <4>1. mPlayerId[p] \in GivenOut
          BY <2>1, <2>3, <3>2 DEF RInv, OwnersExact
        <4> QED BY <4>1 DEF GivenOut
      <3> QED BY <3>1, <3>2
    <2> QED BY <2>2, <2>3 DEF NumbersDiffer
  <1> QED BY <1>1, RegistryInductive, PTL
=============================================================================
