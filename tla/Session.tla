------------------------------ MODULE Session ------------------------------
(***************************************************************************)
(* class Session of win-iocp-mssql-usage (Session.hpp) with its overlapped *)
(* contexts (OverlappedIOContext.hpp) and the threads that drive it: the   *)
(* Callers post, flush, receive and disconnect; the Workers take the       *)
(* completed operations off the completion port (WorkerThread.hpp).  The   *)
(* dispatch of a completion is left out of WorkerThread.hpp (line 71); it  *)
(* is the one of the sibling project, win-iocp/IocpManager.hpp.            *)
(*                                                                         *)
(* What is done under mSendBufferLock is one step (PlayerManagerProofs     *)
(* shows that the lock excludes); IsConnected() is read outside the lock,  *)
(* so each method is two steps, its check and the rest.  The session is    *)
(* connected at first, with the reference its owner took.                  *)
(*                                                                         *)
(* The bytes posted are numbered 1, 2, 3, ... in the order they are        *)
(* stored, so that a byte is its place in the stream.                      *)
(***************************************************************************)
EXTENDS CircularBuffer, FiniteSets

CONSTANTS Callers, Workers,
          Context,           \* bound: the contexts that may exist at a time
          SEND_BUFFER_SIZE,
          Lengths,           \* the lengths given to PostSend
          MAX_BYTES          \* bound: the bytes that are posted in all (0 bytes always may)

ASSUME SessionAssumption ==
    /\ Callers \cap Workers = {}
    /\ IsFiniteSet(Context)
    /\ SEND_BUFFER_SIZE \in Nat \ {0}
    /\ Lengths \subseteq Nat
    /\ MAX_BYTES \in Nat

VARIABLES mConnected, mRefCount, mSendPendingCount, mSendBuffer,
          context,    \* context -> its mIoType and its mWsaBuf, or Free
          pending,    \* the contexts of operations not yet dequeued
          thread,     \* thread -> the statement it is about to run
          posted,     \* how many bytes PostSend has accepted
          delivered   \* the bytes of the sends that have succeeded, in order

vars == <<mConnected, mRefCount, mSendPendingCount, mSendBuffer,
          context, pending, thread, posted, delivered>>

Threads == Callers \cup Workers

Free == [ioType |-> "free"]
Idle == [at |-> "idle"]

Init ==
    /\ mConnected = 1 /\ mRefCount = 1
    /\ mSendPendingCount = 0
    /\ mSendBuffer = Construct(SEND_BUFFER_SIZE, 0)
    /\ context = [c \in Context |-> Free]
    /\ pending = {}
    /\ thread = [t \in Threads |-> Idle]
    /\ posted = 0 /\ delivered = <<>>

Becomes(t, what) == thread' = [thread EXCEPT ![t] = what]

\* Goes on to statement at; the context in hand, if any, stays in hand.
Goes(t, at) == thread' = [thread EXCEPT ![t].at = at]

-----------------------------------------------------------------------------
(***************************************************************************)
(* A context is made with a reference to the session, and DeleteIoContext  *)
(* gives the reference back.                                               *)
(***************************************************************************)
AddRef == mRefCount' = mRefCount + 1

\* OnRelease, called with the last reference, is empty.
ReleaseRef == mRefCount' = mRefCount - 1

NewIoContext(c, io) ==
    /\ context[c] = Free
    /\ context' = [context EXCEPT ![c] = io]
    /\ AddRef

DeleteIoContextKeepingRef(c) ==   \* mutant: ReleaseRef is not called
    /\ context' = [context EXCEPT ![c] = Free]
    /\ UNCHANGED mRefCount

DeleteIoContext(c) ==
    /\ context' = [context EXCEPT ![c] = Free]
    /\ ReleaseRef

\* An operation that fails at once: its context is made and deleted again.
NoIoContext == UNCHANGED <<context, mRefCount>>

(***************************************************************************)
(* DisconnectRequest.  The first caller wins the exchange and makes a      *)
(* context.  The condition that should call DisconnectEx is a comma        *)
(* expression whose value is its last operand, 0: it is always FALSE, no   *)
(* operation is started, and WSAGetLastError() is what some earlier call   *)
(* of the thread has left.  Unless that is WSA_IO_PENDING (stale) the      *)
(* context is deleted; else it is left behind.                             *)
(***************************************************************************)
DisconnectRequest(stale) ==
    \/ /\ mConnected = 0
       /\ UNCHANGED <<mConnected, context, mRefCount>>
    \/ /\ mConnected = 1
       /\ mConnected' = 0
       /\ \/ NoIoContext
          \/ stale /\ \E c \in Context : NewIoContext(c, [ioType |-> "IO_DISCONNECT"])

-----------------------------------------------------------------------------
(***************************************************************************)
(* The zero-byte WSARecv of PreRecv and PostRecv, with a context of its    *)
(* type; ok and no are the caller's next statements after the method has   *)
(* returned true and false.                                                *)
(***************************************************************************)
WSARecv(t, type, ok, no) ==
    /\ \/ \E c \in Context :
             /\ NewIoContext(c, [ioType |-> type])
             /\ pending' = pending \cup {c}
             /\ Goes(t, ok)
       \/ NoIoContext /\ Goes(t, no) /\ UNCHANGED pending
    /\ UNCHANGED <<mConnected, mSendPendingCount, mSendBuffer, posted, delivered>>

-----------------------------------------------------------------------------
(***************************************************************************)
(* The Callers.  On a session that is not connected every method returns   *)
(* at once (FlushSend by way of a DisconnectRequest that changes nothing). *)
(***************************************************************************)
Call(t, at) ==
    /\ thread[t] = Idle
    /\ mConnected = 1
    /\ Goes(t, at)
    /\ UNCHANGED <<mConnected, mRefCount, mSendPendingCount, mSendBuffer,
                   context, pending, posted, delivered>>

Disconnect(t) ==
    /\ thread[t] = Idle
    /\ DisconnectRequest(TRUE)
    /\ UNCHANGED <<mSendPendingCount, mSendBuffer, pending, thread, posted, delivered>>

\* PreRecv and PostRecv differ in the type of their context.  mRecvBuffer
\* is never filled, so that PostRecv always finds room in it.
PreRecvCalled(t) == thread[t].at = "prerecving" /\ WSARecv(t, "IO_RECV_ZERO", "idle", "idle")

PostRecv(t) == thread[t].at = "postrecving" /\ WSARecv(t, "IO_RECV", "idle", "idle")

\* PostSend of len bytes, from the lock on.
PostSend(t, len) ==
    /\ thread[t].at = "posting"
    /\ posted + len <= MAX_BYTES
    /\ IF GetFreeSpaceSize(mSendBuffer) < len
       THEN mSendBuffer' = WithFreeSpace(mSendBuffer) /\ UNCHANGED posted
       ELSE /\ mSendBuffer' = Append_(mSendBuffer, [i \in 1 .. len |-> posted + i])
            /\ posted' = posted + len
    /\ Becomes(t, Idle)
    /\ UNCHANGED <<mConnected, mRefCount, mSendPendingCount, context, pending, delivered>>

(***************************************************************************)
(* FlushSend, from the lock on: nothing to send, a send under way, or the  *)
(* oldest contiguous bytes are given to WSASend, which may fail at once.   *)
(***************************************************************************)
FlushSendRejected(t) ==
    /\ thread[t].at = "flushing"
    /\ GetContiguiousBytes(mSendBuffer) = 0 \/ mSendPendingCount > 0
    /\ Becomes(t, Idle)
    /\ UNCHANGED <<mConnected, mRefCount, mSendPendingCount, mSendBuffer,
                   context, pending, posted, delivered>>

Send == [ioType |-> "IO_SEND", buf |-> GetBufferStart(mSendBuffer),
         len |-> GetContiguiousBytes(mSendBuffer)]

FlushSendAlways(t) ==   \* mutant: mSendPendingCount is not looked at
    /\ thread[t].at = "flushing"
    /\ GetContiguiousBytes(mSendBuffer) > 0
    /\ \E c \in Context : NewIoContext(c, Send) /\ pending' = pending \cup {c}
    /\ mSendPendingCount' = mSendPendingCount + 1
    /\ Becomes(t, Idle)
    /\ UNCHANGED <<mConnected, mSendBuffer, posted, delivered>>

FlushSend(t) ==
    /\ thread[t].at = "flushing"
    /\ GetContiguiousBytes(mSendBuffer) > 0 /\ mSendPendingCount = 0
    /\ \E c \in Context : NewIoContext(c, Send) /\ pending' = pending \cup {c}
    /\ mSendPendingCount' = mSendPendingCount + 1
    /\ Becomes(t, Idle)
    /\ UNCHANGED <<mConnected, mSendBuffer, posted, delivered>>

\* WSASend has failed, and its error is the one DisconnectRequest reads.
FlushSendFailed(t) ==
    /\ thread[t].at = "flushing"
    /\ GetContiguiousBytes(mSendBuffer) > 0 /\ mSendPendingCount = 0
    /\ DisconnectRequest(FALSE)
    /\ Becomes(t, Idle)
    /\ UNCHANGED <<mSendPendingCount, mSendBuffer, pending, posted, delivered>>

-----------------------------------------------------------------------------
(***************************************************************************)
(* The Workers.  GetQueuedCompletionStatus returns any operation that has  *)
(* ended, with the number of bytes transferred.  A receive has asked for   *)
(* no bytes and transfers none.  A send transfers all or some of its       *)
(* bytes, as they lie in the buffer by then; one that has failed counts as *)
(* none, whatever number it reports, which the error path does not look    *)
(* at.  Sends and receives without bytes take the error path too.          *)
(***************************************************************************)
DequeueSend(w, c, transferred) ==
    /\ thread[w] = Idle
    /\ c \in pending /\ context[c].ioType = "IO_SEND" /\ transferred \in 0 .. context[c].len
    /\ pending' = pending \ {c}
    /\ delivered' = delivered \o BytesAt(mSendBuffer, context[c].buf, transferred)
    /\ Becomes(w, [at |-> IF transferred = 0 THEN "closing" ELSE "sent",
                   context |-> c, transferred |-> transferred])
    /\ UNCHANGED <<mConnected, mRefCount, mSendPendingCount, mSendBuffer, context, posted>>

DequeueRecv(w, c) ==
    /\ thread[w] = Idle
    /\ c \in pending /\ context[c].ioType \in {"IO_RECV", "IO_RECV_ZERO"}
    /\ pending' = pending \ {c}
    /\ Becomes(w, [at |-> IF context[c].ioType = "IO_RECV" THEN "closing" ELSE "prerecv",
                   context |-> c])
    /\ UNCHANGED <<mConnected, mRefCount, mSendPendingCount, mSendBuffer, context,
                   posted, delivered>>

SendCompletionKeepsBytes(w) ==   \* mutant: the bytes sent are not removed
    /\ thread[w].at = "sent"
    /\ mSendPendingCount' = mSendPendingCount - 1
    /\ Goes(w, IF context[thread[w].context].len # thread[w].transferred
               THEN "closing" ELSE "prerecv")
    /\ UNCHANGED <<mConnected, mRefCount, mSendBuffer, context, pending, posted, delivered>>

SendCompletionTwice(w) ==   \* mutant: a partial send is counted off twice
    /\ thread[w].at = "sent"
    /\ mSendBuffer' = Remove(mSendBuffer, thread[w].transferred)
    /\ mSendPendingCount' = mSendPendingCount -
          IF context[thread[w].context].len # thread[w].transferred THEN 2 ELSE 1
    /\ Goes(w, IF context[thread[w].context].len # thread[w].transferred
               THEN "closing" ELSE "prerecv")
    /\ UNCHANGED <<mConnected, mRefCount, context, pending, posted, delivered>>

(***************************************************************************)
(* Session::SendCompletion, and the answer of the dispatcher: a partial    *)
(* send closes the connection, a full one goes on to PreRecv.              *)
(***************************************************************************)
SendCompletion(w) ==
    /\ thread[w].at = "sent"
    /\ mSendBuffer' = Remove(mSendBuffer, thread[w].transferred)
    /\ mSendPendingCount' = mSendPendingCount - 1
    /\ Goes(w, IF context[thread[w].context].len # thread[w].transferred
               THEN "closing" ELSE "prerecv")
    /\ UNCHANGED <<mConnected, mRefCount, context, pending, posted, delivered>>

\* PreRecv's check for a worker: IsConnected()
PreReceiveCompletionUnchecked(w) ==   \* mutant: IsConnected() is not asked
    /\ thread[w].at = "prerecv"
    /\ Goes(w, "receiving")
    /\ UNCHANGED <<mConnected, mRefCount, mSendPendingCount, mSendBuffer,
                   context, pending, posted, delivered>>

PreReceiveCompletion(w) ==
    /\ thread[w].at = "prerecv"
    /\ Goes(w, IF mConnected = 1 THEN "receiving" ELSE "closing")
    /\ UNCHANGED <<mConnected, mRefCount, mSendPendingCount, mSendBuffer,
                   context, pending, posted, delivered>>

PreRecvAgain(w) ==
    thread[w].at = "receiving" /\ WSARecv(w, "IO_RECV_ZERO", "deleting", "closing")

CloseConnection(w) ==
    /\ thread[w].at = "closing"
    /\ DisconnectRequest(TRUE)
    /\ Goes(w, "deleting")
    /\ UNCHANGED <<mSendPendingCount, mSendBuffer, pending, posted, delivered>>

EndOfJob(w) ==
    /\ thread[w].at = "deleting"
    /\ DeleteIoContext(thread[w].context)
    /\ Becomes(w, Idle)
    /\ UNCHANGED <<mConnected, mSendPendingCount, mSendBuffer, pending, posted, delivered>>

-----------------------------------------------------------------------------
Calls(t) ==
    \/ \E at \in {"prerecving", "postrecving", "posting", "flushing"} : Call(t, at)
    \/ Disconnect(t)

Returns(t) ==
    \/ PreRecvCalled(t) \/ PostRecv(t)
    \/ \E len \in Lengths : PostSend(t, len)
    \/ FlushSendRejected(t) \/ FlushSend(t) \/ FlushSendFailed(t)

\* GetQueuedCompletionStatus returns with an operation that has ended.
Dequeues(w) ==
    \/ \E c \in Context : DequeueRecv(w, c)
    \/ \E c \in Context : \E n \in 0 .. SEND_BUFFER_SIZE : DequeueSend(w, c, n)

\* The rest of the job, which waits for nobody.
Handles(w) ==
    \/ SendCompletion(w) \/ PreReceiveCompletion(w) \/ PreRecvAgain(w)
    \/ CloseConnection(w) \/ EndOfJob(w)

DoIocpJob(w) == Dequeues(w) \/ Handles(w)

Next ==
    \/ \E t \in Callers : Calls(t) \/ Returns(t)
    \/ \E w \in Workers : DoIocpJob(w)

Spec == Init /\ [][Next]_vars

\* Threads are scheduled: a call that has begun returns, and a worker that
\* has taken a completion handles it.  That an operation ends is up to the
\* peer and the network, and no fairness says that it does.
FairSpec ==
    /\ Spec
    /\ \A t \in Callers : WF_vars(Returns(t))
    /\ \A w \in Workers : WF_vars(Handles(w))

-----------------------------------------------------------------------------
Contexts ==
    {Free} \cup [ioType : {"IO_RECV", "IO_RECV_ZERO", "IO_DISCONNECT"}]
           \cup [ioType : {"IO_SEND"}, buf : 0 .. SEND_BUFFER_SIZE, len : 1 .. SEND_BUFFER_SIZE]

TypeOK ==
    /\ mConnected \in {0, 1}
    /\ mRefCount \in 1 .. Cardinality(Context) + 1
    /\ mSendPendingCount \in {0, 1}
    /\ mSendBuffer \in Buffers(0 .. MAX_BYTES, SEND_BUFFER_SIZE)
    /\ context \in [Context -> Contexts]
    /\ pending \subseteq Context
    /\ \A t \in Callers : thread[t] \in [at : {"idle", "prerecving", "postrecving",
                                               "posting", "flushing"}]
    /\ \A w \in Workers : thread[w] = Idle
                          \/ thread[w].at \in {"sent", "prerecv", "receiving", "closing", "deleting"}
    /\ posted \in 0 .. MAX_BYTES
    /\ Len(delivered) <= posted

InHand(w) == {c \in Context : thread[w] # Idle /\ thread[w].context = c}

(***************************************************************************)
(* References are exact.  A context in use is with the completion port, or *)
(* in the hands of one worker, or is the one disconnect context left       *)
(* behind; each holds one reference beside the owner's.  So no context is  *)
(* deleted while an operation still uses it, none is deleted twice, and    *)
(* the session outlives its I/O.                                           *)
(***************************************************************************)
ReferencesExact ==
    LET used == {c \in Context : context[c] # Free}
        held == UNION {InHand(w) : w \in Workers}
        left == {c \in Context : context[c].ioType = "IO_DISCONNECT"}
    IN  /\ used = pending \cup held \cup left
        /\ pending \cap (held \cup left) = {} /\ held \cap left = {}
        /\ \A v, w \in Workers : v # w => InHand(v) \cap InHand(w) = {}
        /\ Cardinality(left) <= 1 - mConnected
        /\ mRefCount = 1 + Cardinality(used)

\* The sends that will still reach SendCompletion.
Outstanding ==
    {c \in pending : context[c].ioType = "IO_SEND"}
        \cup UNION {InHand(w) : w \in {v \in Workers : thread[v].at = "sent"}}

(***************************************************************************)
(* At most one send is outstanding, and mSendPendingCount says whether one *)
(* is.  A failed send is never counted off (the error path of DoIocpJob    *)
(* does not call SendCompletion), so that nothing can be sent any more;    *)
(* that happens only to a session that is disconnected or whose worker is  *)
(* about to disconnect it.                                                 *)
(***************************************************************************)
PendingCountExact ==
    \/ mSendPendingCount = Cardinality(Outstanding)
    \/ /\ mSendPendingCount = 1 /\ Outstanding = {}
       /\ \/ mConnected = 0
          \/ \E w \in Workers : thread[w].at = "closing"

(***************************************************************************)
(* The stream is kept: the network takes the bytes in the order in which   *)
(* they were posted, each once, however posts, flushes, partial sends and  *)
(* completions interleave, and what has been posted and is not yet taken   *)
(* is in the buffer, behind the bytes of a send not yet removed from it.   *)
(***************************************************************************)
StreamKept ==
    LET done == {w \in Workers : thread[w].at = "sent"}
        kept == Contents(mSendBuffer)
        rest == IF done = {} THEN kept
                ELSE SubSeq(kept, thread[CHOOSE w \in done : TRUE].transferred + 1, Len(kept))
    IN  delivered \o rest = [i \in 1 .. posted |-> i]

\* No operation stays with the completion port for ever.  The code does not
\* see to it: DisconnectRequest closes no socket, and the zero-byte receive
\* of a peer that is silent may wait as long as the peer likes.
OperationsEnd == \A c \in Context : []<>(c \notin pending)

(***************************************************************************)
(* A disconnected session whose operations end comes to rest: calls that   *)
(* passed their check before the disconnect still start operations, and    *)
(* completions try to receive again, but the session does not go on        *)
(* renewing them: in the end none is left and none is started.  The        *)
(* premise is about the peer and the network.                              *)
(***************************************************************************)
IoDrains ==
    OperationsEnd =>
        (mConnected = 0 ~> [](pending = {} /\ \A t \in Threads : thread[t] = Idle))

(***************************************************************************)
(* A disconnected session is released, if its operations end:              *)
(* DisconnectRequest starts the disconnection, whose completion gives back *)
(* the owner's reference.                                                  *)
(***************************************************************************)
DisconnectEndsSession == OperationsEnd => (mConnected = 0 ~> mRefCount = 0)
=============================================================================
