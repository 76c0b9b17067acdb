# A TLA+ verification of windows-iocp-network

The repository is a study of Windows I/O completion ports: an echo server
(`src/win-iocp/win-iocp`), an extended copy of it with a general session class
(`src/win-iocp/win-iocp-mssql-usage`), and the first versions of two memory
pools (`src/WindowsIocpNetwork-WIN-study`). Much of it is unfinished: several
bodies are TODOs and some files do not compile as they stand. The models say
what the code that is there does; where a name is misspelt or a declaration is
missing (noted below) they follow what the line evidently means.

Short file names below are those of `src/win-iocp/win-iocp`; those of
`win-iocp-mssql-usage` are marked (mssql).

## 1. The system's parts

| Part | State | Operations | Who uses it |
|---|---|---|---|
| CircularBuffer | an array, region A (older bytes) and region B (younger bytes, before A) | GetFreeSpaceSize (which may open region B), GetBuffer, Commit, GetBufferStart, GetContiguiousBytes, Remove, BufferReset | the sessions, under a lock |
| FastSpinlock | mLockFlag: a counter of writers above a counter of readers | Enter/LeaveWriteLock, Enter/LeaveReadLock, Enter/LeaveLock; the guards | Session, PlayerManager, SyncExecutable |
| ObjectPool | a free list threaded through its blocks, two counters | operator new, operator delete, under one mutex per class | the overlapped contexts (mssql) |
| MemoryPool | a table of pools by size, each a lock-free list and a counter | Allocate, Deallocate (xnew, xdelete) | any thread |
| Session (mssql) | mConnected, mRefCount, mSendPendingCount, two buffers | PostSend, FlushSend, PreRecv, PostRecv, DisconnectRequest, the completions | callers and worker threads |
| OverlappedIOContext (mssql) | one object per operation; it holds a reference to its session | constructor (AddRef), DeleteIoContext (ReleaseRef) | Session, WorkerThread |
| WorkerThread, IocpManager, main (mssql) | the port, the array of workers | Initailze, StartIoThreads, StartAccept, Finalize; Run, DoIocpJob | main |
| ServerSession (mssql) | a session that connects | ConnectRequest, ConnectCompletion (empty) | |
| ClientSession, SessionManager, IocpManager, main | mConnected, mRefCount, one buffer per session; the list of free sessions; the port | Initialize, StartIoThreads, StartAccept; accept, receive, send back, disconnect, return to the list | main, workers |
| LockOrderChecker | a stack of locks per thread | Push, Pop (calls commented out) | FastSpinlock |
| Player, PlayerManager, PlayerWideEvent | players by number, buffs by player | Start, OnTick, RegisterPlayer, GetCurrentPlayers, buffs | |
| GrandCentralExecutor, Timer, SyncExecutable | task queues | DoDispatch, PushTimerJob, DoTimerJob | Player |

How they interact: a caller posts bytes to a session's send buffer under
mSendBufferLock and flushes it; the flush gives a stretch of the buffer to the
kernel, together with a context; any worker takes the completed operation off
the port, tells the session, perhaps starts the next operation, and deletes the
context. Contexts come from an ObjectPool. No lock covers a whole operation. The
echo server does the same with one buffer for both directions. A player enters
and leaves the PlayerManager's map under a FastSpinlock.

What is hard in it, and what makes each part correct:

* **FastSpinlock**: races between writers that count themselves in and out.
  Correct: exclusion, an exact flag, no livelock.
* **CircularBuffer**: two regions, moved when one drains. Correct: regions never
  overlap, bytes in flight never move, the whole is a queue.
* **ObjectPool, MemoryPool**: a block must have one owner through any sequence
  (or interleaving) of calls; the table must serve every size.
* **Session**: checks made outside the lock and used inside it; partial and
  failed sends; disconnects from several threads; references counted across
  threads. Correct: bytes in order and once, one send at a time, exact
  references, everything comes to rest after a disconnect as soon as the
  operations end, the session is released.
* **Echo server**: the same checks outside a lock; a failed accept handled like a
  successful one; disconnects from several threads. Correct: one disconnection
  per connection, exact references, buffer and operations inside the array, the
  echo is what arrived as long as receives do not overlap.
* **PlayerManager**: registrations and removals race. Correct: numbers differ, the
  map is exactly the players that are alive.
* **Server life cycle**: workers that start early and stop late.

`PROJECT.json` lists the hazards line by line.

## 2. Plan

Order of work, the most important behaviour first:

1. CircularBuffer, with the queue as its abstract specification (done, proved).
2. FastSpinlock, with a mutex as its abstract specification (done, proved).
3. ObjectPool, MemoryPool (done, proved).
4. Session, built on 1 and justified by 2 (done, proved).
5. The life cycle of the server (done; start-up proved).
6. The echo server: ClientSession on CircularBuffer, with its IocpManager,
   SessionManager and main (done, proved).
7. PlayerManager and Player, composed with the steps of FastSpinlock (done,
   proved).
8. Theorems (done): every invariant and every action property that a passing run
   checks is a theorem, and so are both refinements. Left to the runs: the two
   liveness properties, LockIsHandedOn and IoDrains.

## 3. Modules

| Module | Models | Run |
|---|---|---|
| `CircularBuffer` | the class, as operators on a record | |
| `ByteQueue` | abstract: a bounded first-in first-out queue | |
| `BufferClient` | a buffer under the operations of its owners | buffer |
| `CircularBufferProofs`, `BufferClientProofs` | lemmas and theorems | |
| `Mutex` | abstract: a lock with waiting threads | |
| `FastSpinlock` | the class, one action per access to mLockFlag | player_registry, spinlock_readers |
| `PlayerManager` | the registry and its players, on FastSpinlock | player_registry |
| `PlayerManagerProofs` | theorems about the lock, then about the registry on it | |
| `ObjectPool` | operator new and delete | object_pool |
| `ObjectPoolProofs` | theorems | |
| `MemoryPool` | Allocate and Deallocate, one action per interlocked operation | memory_pool, memory_pool_covers |
| `MemoryPoolProofs` | theorems | |
| `Session` | a session, its contexts, callers and workers | session, session_drains, session_release |
| `SessionProofs` | theorems | |
| `ClientSession` | a session of the echo server and its contexts | |
| `EchoServer` | main, workers and a caller around a ClientSession | echo_server |
| `EchoServerProofs` | theorems | |
| `IocpServer` | main and the worker threads | server, server_shutdown |
| `IocpServerProofs` | theorems | |

The `MC*` modules hold the instances. A definition whose comment begins with
"mutant" is a deliberately wrong variant of the one it precedes; no
specification uses it. It shows that the property named with it in
`PROJECT.json` can fail.

### CircularBuffer and BufferClient

The object is a record with the fields of the class; a pointer is an offset from
`mBuffer`, `mem` is the array. `GetFreeSpaceSize` changes the object (it calls
`AllocateB`), so it is two operators: the number (`GetFreeSpaceSize`) and the
object afterwards (`WithFreeSpace`). `PromoteB` is the last part of `Remove`.
The order of the code's moves does not matter to the result: the bytes of B move
towards the start, as memmove does. `BufferClient` has one action per critical
section on a buffer; a refused post is an action because it may open region B.

### FastSpinlock and Mutex

`mLockFlag` is a record of the two counters. The mask leaves the sign bit out, so
a test sees the writers modulo `WRITE_SLOTS` (2^11) while the word counts modulo
twice that. `pc` names the access a thread is about to make. `EnterReadLock` is
modelled as it is, without an exit. `EnterLock` is left out: nobody calls it, it
has no exit either, and it overwrites the word the other operations count in.
`Mutex` says what a lock promises; its `owner` is the thread at `cs`, its
`waiting` those inside EnterWriteLock.

### PlayerManager

The module extends FastSpinlock: a call of the registry is the lock's own steps
with the statements of the critical section between them, so that exclusion is
not assumed but comes out. `++mCurrentIssueId` and the store to the map are
separate steps; the result is read before the guard's destructor runs. A thread's
`call` names the method, the player and the statement. Two things are assumed of
the callers, since Player.hpp does not enforce them: calls for one player come in
turn (`AtRest`; its SyncExecutable lock is there for that, but Start and PlayerReset
do not take it), and a player that is alive is not started again. The constructor calls PlayerReset with mPlayerId uninitialised: the
number it erases is any, and `wiped` remembers the live players it took out.

DoBuffAllPlayers and CheckBuffTimeout are the call of GetCurrentPlayers, which does
not return. mHeartBeat and the buffs are read and changed only behind it or in
calls whose bodies are comments, so they are left out.

### ObjectPool

Both operators hold `mMutex` throughout, so each is one step. The code as written
reads `pAvailable` where it declared `pAvaliable` (ObjectPool.hpp:51) and does
not define `mMutex`; the model follows the copies that spell it right. The loop
of operator new does not set the link of a chunk's last block: it is `nullptr`
by chance or `Wild`, and taking a block at `Wild` loses the pool
(`OperatorNewUndefined`).

### MemoryPool

A pool is named by its block size. `Bands` are the three loops of the
constructor; `mSmallSizeMemoryPoolTable` is what they leave in the table. Popping
or getting a block, counting it, writing its header, exchanging its size, pushing
and counting down are separate actions. `HEADER` is sizeof(MemAllocInfo), 16 as
the code says (on 32 bits).

### Session

A method is two steps: the unlocked `IsConnected()` (`Call`), then the rest, which
is one step because mSendBufferLock excludes (proved in `PlayerManagerProofs`) or
because it touches shared state once. FlushSend counts up after WSASend, still
under the lock, and SendCompletion takes the lock, so the two together are one
step. The kernel may end pending operations in any order, with any number of
bytes; it reads the bytes of a send as late as the completion, which is the worst
case. A receive asks for zero bytes and so ends with none: a `PostRecv` always
takes the error path and disconnects, and `RecvCompletion` and `EchoBack` never
see data. `DisconnectRequest` is modelled as the compiler reads it: the condition
of line 34 is a comma expression that is 0. What `WSAGetLastError()` then returns
is left over from the thread's earlier calls: either value is possible, except
after a failed WSASend, whose error was looked at just before.

WorkerThread.hpp (mssql) leaves the dispatch of completions out ("..." at line
71). The model uses the dispatch that is in the repository, that of
IocpManager.hpp 184-258. The class that derives from Session and connects it is
not in the repository either; the model begins with a connected session and the
reference that SessionManager.hpp:58 says its owner takes.

Nothing makes the kernel end an operation: DisconnectRequest closes no socket, so a
zero-byte receive of a silent peer may wait for ever. `OperationsEnd` says that no
context stays pending for ever; the two liveness properties have it as their
premise, and the specification has no fairness of `Dequeues`.

### ClientSession and EchoServer

`ClientSession` has the methods of the class; `EchoServer` the threads. `thread`
names the statement a thread is about to run. What is done under mMutex is one
step, IsConnected() before it another. `context` is the sequence of all contexts
made: DeleteIoContext is empty, so none goes away, nor does its reference.
`pending` are those of operations under way.

Three operations are TODOs in the code (AcceptEx, the zero-byte receive,
DisconnectEx): the context is made and nothing is started. The dispatch in
IoWorkerThread is written for their completions, and the model takes them to
have been started. The body of the loop of AcceptSessions is a comment; the model
does what it names: a session is taken from the free list and an accept is posted
(`AcceptSessions`), then AddRef (`OwnSession`), with the workers running in
between. Neither code nor comment changes mCurrentIssueCount, which is left out:
main stays in the loop. No session returns, so one pass is all there is.

A receive writes to the address it was given when it completes, a send reads its
bytes then. A completion that has failed or brought no bytes is `DequeueError`,
whatever number it reports; a receive that failed may have written to its buffer.

The process ends by returning from main, by a fault, by an assertion, or by a
commit that takes a region beyond its room (`RecvOverruns`): from there on sizes
wrap around and the model says nothing. The two
faults in the code are steps: GetSystemInfo through a pointer that was never set
(which may also find writable memory) and context->mIoType after a timeout.
IO_RECV_ZERO is dispatched but no context has this type: PreRecv makes one of type
IO_RECV, whose zero bytes the worker takes for a closed connection.

OnConnect, which was to post the first receive, returns before it changes anything
(it compares a null handle with the port). The model's callers post receives in
its place, at any time and any number, as PostRecv lets them: it asks for
IsConnected() only. Two receives posted one behind the other aim at the same room,
and the second commit finds bytes that are not there or no room at all. `overlapped`
is a history variable that becomes TRUE when a receive is posted while data is under
way; `EchoKept` says what holds in any case and what holds until then.

ReturnClientSession waits while main is in the loop, whose mutex it needs. No
behaviour gets there: contexts are never deleted, so the last reference stays.

### IocpServer

`main` is the statement the main thread is at. Creating a thread, storing its
WorkerThread and resuming it are separate steps, and a resumed worker is
scheduled at any time after. Main returning ends the process. The calls of
`Initailze` that can fail are one step that succeeds or fails, with or without a
port. StartAccept is declared void and main tests its result; when it returns, main
either goes on to Finalize or returns -1. `IoWorkerThread` assigns its number to `LWorkerThread` and uses
`LWorkerThreadId`; the model takes them for the same.

## 4. Runs

| Run | Checks | Instance |
|---|---|---|
| buffer | TypeOK, RegionsApart, StoredBytesStay, ImplementsQueue | 5 bytes, 2 byte values, messages of 0-3 bytes, removals of 0-6 |
| player_registry | TypeOK, MutualExclusion, FlagCountsWriters, ImplementsMutex, LockIsHandedOn of the lock; RegistryTypeOK, NumbersDiffer, RegistryExact | 3 threads, mask of 2 bits, 2 players, 3 numbers |
| spinlock_readers | ReadersEnter, **violated** | 2 threads, mask of 2 bits |
| object_pool | TypeOK, FreeOrInUse, SafeBelowCapacity | 2 chunks of 3 blocks |
| memory_pool | TypeOK, OnePlace, SizesMarkFree, BlocksFit, CountsSettle | 2 threads, 3 blocks, 4 pools, sizes at and around their limits |
| memory_pool_covers | NeverFaults, **violated** | the code's own bands and limit |
| session | TypeOK, ReferencesExact, PendingCountExact, StreamKept | 2 callers, 2 workers, 3 contexts, buffer of 3, 5 bytes posted |
| session_drains | IoDrains | 1 caller, 2 workers, 3 contexts, buffer of 2 |
| session_release | DisconnectEndsSession, **violated** | 1 caller, 1 worker |
| server | TypeOK, StartupIsSafe | array of 4 workers, 1-5 processors |
| server_shutdown | CompletionHasContext, **violated** | array of 2 workers |
| echo_server | TypeOK, AssertsHold, OneDisconnect, ReferencesKept, EchoKept | 1 session, 1 caller, 2 workers, 4 receives and sends, buffer of 3, 4 bytes |

Why the bounds are enough. Five bytes let both regions be non-empty with a gap
between them and a removal cross from one into the other. Three threads let a
loser's undo meet a new winner and a third at the gate; three numbers let a player
be reset and started again while the other is registered. In echo_server four
receives and sends are two echoes, or one that overlaps two more receives, and
four bytes go round the buffer of three and overrun it. Two chunks let the list
run from one into the other and end in garbage. In memory_pool the sizes lie on a
band's limit, one above it, past the last pool and above the limit. In session a
buffer of three and five bytes make the stream wrap round the buffer while a send
is in flight, and three contexts let a send, a receive and a left-over disconnect
coexist. `Lengths` contains 0 so that a call can return at the bound on the bytes
posted.

Deadlock is checked except in object_pool and memory_pool (the heap's bound is
reached, or the code has faulted) and in server and echo_server (the process
ends).

Fairness. `FastSpinlock!FairSpec`: weak fairness of every thread's steps, the
release included: the scheduler runs every thread and every critical section in
the repository ends. Calling the lock is not fair. `PlayerManager!FairRegistrySpec` is
the same for a thread in a call of the registry. `Session!FairSpec`: a call
that has begun returns, and a worker that has taken a completion handles it (`Handles`);
neither calling nor the end of an operation (`Dequeues`) is fair.

### What the violated properties show

* **MemoryPool.hpp:136** sizes that need 3841 to 4096 bytes have no pool.
* **FastSpinLock.hpp:98** EnterReadLock, and with it GetCurrentPlayers, never returns.
* **Session.hpp:34 (mssql)** DisconnectRequest starts no disconnection; the session
  is never released, even if all its operations end.
* **WorkerThread.hpp:50 (mssql)** a worker polling while Finalize closes the port
  reads a null context.

## 5. Proofs

All for every value of the constants, under the named assumptions of the modules.

*BufferClientProofs*, from `BufferAssumption` (a positive capacity, messages that
are sequences of bytes, natural lengths):

* `RegionsStayApart`: `TypeOK /\ RegionsApart` is inductive. Each operation's
  effect on `Apart` is a lemma of `CircularBufferProofs`; that an empty region A
  lies at 0 with no region B is part of the invariant because an append to an
  empty buffer must find the whole array.
* `InFlightBytesStay`: a step that removes nothing leaves stored bytes in place;
  the write of an append begins where the stored bytes of its region end.
* `BufferImplementsQueue`: `Contents(buf)` under each operation is the queue's
  operation, by the lemmas on `Append_` and `Remove`.

*PlayerManagerProofs*, the lock, from `ThreadsAssumption` (finitely many threads,
fewer than the mask can count; with more the theorem is false):

* `FlagIsExact`, `LockTypes`: the inductive invariant is `TypeOK /\
  FlagCountsWriters`. MutualExclusion alone is not inductive: that the adder who
  gets the value 1 is alone follows only from the count being exact.
* `WriteLockExcludes`, `SpinlockImplementsMutex` follow from it.

*PlayerManagerProofs*, the registry, from that and `PlayersAssumption`:

* `RegistryUsesLock`: every step of the registry is a step of the lock or leaves it
  alone, so a behaviour of the registry is one of the lock and `RegistryExcludes`
  is the lock's theorem.
* `RegistryTypes`, `MapIsExact`, `NumbersAreUnique` from `RInv`. RegistryExact
  speaks of a player between the calls made for it; `RInv` adds what holds during a
  call: which player's entry may be in the map at each statement (`CallAbsent`),
  who owns a number that has been stored and not yet assigned (`Owns`,
  `OwnersExact`), and that the newest number is in nobody's hands while its thread
  is between the increment and the store (`GivenOut`). The last holds because of
  exclusion: the thread between the two is the only one at `cs`. `Room` says that a
  thread that will issue a number finds one below the bound.

*ObjectPoolProofs*, from `PoolAssumption` (a positive ALLOC_COUNT):

* The inductive invariant `IInv` names the list: there is a sequence of distinct
  blocks, one for each that is got and not in use, such that the head is the first
  of them, each links to the next, and the last to `nullptr` or `Wild` (`Chain`).
  Operator new drops its first element, operator delete prepends one, a new chunk
  makes a sequence where there was none.
* `BlocksAreFreeOrInUse`: FreeOrInUse is about `Walk`, a recursive function.
  `WalkMeetsChain` shows what it computes for every length of the list: a function
  that solves its equation is written down, and the least argument at which
  `Walk` differs from it cannot exist (`Least` takes the place of an induction).
* `PoolIsSafeBelowCapacity`: below capacity the sequence is not empty.
  `ObjectPoolTypes` from the same invariant.

*MemoryPoolProofs*, from `MemoryPoolAssumption` (finitely many threads and blocks, a
header of at least one byte, loops that stay within MAX_ALLOC_SIZE and step
forward):

* `IInv` has four parts. `Places`: a block is on one list once, with the program or
  in the hands of one call. `Headers`: the size a block carries is one that leads
  back to the pool it came from, and is 0 exactly where Pop and Deallocate assert
  it. `Counts`: every counter is off by the calls that have counted and not yet
  delivered, or delivered and not yet counted. `Types`.
* `BlocksHaveOnePlace`, `AssertsOnSizesHold`, `BlocksAreLargeEnough`,
  `CountersSettle` and `PoolTypes` follow. BlocksFit needs that an entry of the
  table leads to a pool whose blocks are large enough (`TableFacts` and the lemmas
  before it), for any list of loops.

*SessionProofs*, from `SessionAssumption` (callers are not workers, finitely many
contexts, a positive buffer) and the lemmas on Append_ and Remove:

* `ReferencesAreExact` from `References`: the context of an operation is pending or
  in the hands of one worker; the only context nobody will delete is that of the
  disconnection.
* `OneSendAtATime` from `Sends`: two sends are never out together, and a count that
  stays up with nothing out means the session is, or is about to be, disconnected.
* `StreamIsKept` from `Stream`: a send under way starts at the oldest byte of the
  buffer; between a completion and its SendCompletion the bytes delivered and the
  rest of the buffer behind them are what was posted. A second send would break
  it, so it rests on `Sends`. `SessionTypes` rests on all of them.

*EchoServerProofs*, from `ClientSessionAssumption` (callers are not workers, a
positive buffer). `IInv` is `LInv /\ Placed /\ (~overlapped => DInv)`:

* `LInv`: `Hands` (a context that has completed is with one worker at most),
  `Connection` (the first context is the accept, there is at most one
  disconnection, and it is there as soon as the connection is up no more) and
  `Counted` (a reference per context and the owner's once taken, less the completed
  disconnection). `NoAssertFails`, `DisconnectsOnce`, `SessionOutlivesOperations`
  follow. Each of the three parts is needed for the next: the assertion at a release
  can be excluded only when the count is exact, and it is exact because one context
  at most is a disconnection.
* `Placed`, whatever receives are posted: the regions are apart and every context
  names a stretch inside the array. A commit that fits keeps it, and one that does
  not ends the process.
* `DInv`, until receives overlap: one receive or send with data at a time
  (`OneEcho`), aimed at the room or the bytes the buffer has now (`Aims`), and what
  has been echoed, joined with what is stored and what a worker is about to commit,
  is what arrived (`Stream`). A receive that arrived within `Aims` finds its room at
  the commit, so that nothing overruns. `EchoIsKept` follows from the two, and
  `EchoTypes` from `LInv` and `Placed`.

*IocpServerProofs*, from `ServerAssumption` (a positive array, at least one
processor): `ServerTypes` and `StartIsSafe` from what each stage of main implies
(`Stages`) and the elements the loops have set (`Made`). `ResumeFinds` says that
the loop of ResumeThread meets no element that is not set; no run states it.

Only model-checked: liveness (LockIsHandedOn, IoDrains), which is outside the
prover, and the four violated properties, which are false.

## 6. Not modelled

* **GrandCentralExecutor**: GCEDispatch, the only way in, has its call of DoDispatch
  in a comment. **Timer, SyncExecutable**: PushTimerJob, DoSync and DoSyncAfter are
  TODOs; the queue is always empty. **LockOrderChecker**: its calls are commented out
  and its check is a TODO. A model of these would have one state, or would be of
  code that is not there.
* **ServerSession**: ConnectRequest makes a socket and one context, ConnectCompletion
  is empty.
* **EnterLock, LeaveLock** of FastSpinlock have no caller, and nothing uses
  **ClassTypeLock**.
* **Player's buffs** and the end of the echo server (Finalize) lie behind calls that
  do not return.
* **ObjectPool of the study project** (211110_ObjectPool_test.cpp) locks a mutex per
  operator and so races with itself; it is a test that nothing uses, and ObjectPool
  took its place.
* Exception handling (minidumps), XTL (allocator adapters), TypeTraits, ThreadLocal
  and predef hold no behaviour to check. Sockets appear only through the results of
  calls on them.
