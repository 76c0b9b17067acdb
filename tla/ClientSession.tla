--------------------------- MODULE ClientSession ---------------------------
(***************************************************************************)
(* class ClientSession of the echo server (ClientSession.hpp) with its     *)
(* overlapped contexts: one session, its methods as actions of the thread  *)
(* that runs them.  EchoServer has the threads.                            *)
(*                                                                         *)
(* One buffer serves both directions: what is received is committed to it  *)
(* and sent back from it.  What is done under mMutex is one step;          *)
(* IsConnected() is read outside it, in a step of its own.                 *)
(*                                                                         *)
(* The calls that start an accept, a zero-byte receive and a disconnection *)
(* are still TODOs.  The worker's dispatch is written for their            *)
(* completions, so they are taken to have been started.                    *)
(*                                                                         *)
(* The reason of a disconnection is only logged and is left out.           *)
(* OnConnect is not an action: it compares a null handle with the port and *)
(* returns before it has changed anything.                                 *)
(*                                                                         *)
(* The bytes that arrive are numbered 1, 2, 3, ...; those a failed receive *)
(* has left in the buffer are 0, as the array is at first.                 *)
(***************************************************************************)
EXTENDS CircularBuffer, FiniteSets

CONSTANTS Callers, Workers,
          BUFSIZE,
          MAX_CONTEXTS,      \* bound: the receives and sends that are made
          MAX_BYTES          \* bound: the bytes that arrive

ASSUME ClientSessionAssumption ==
    /\ Callers \cap Workers = {}
    /\ BUFSIZE \in Nat \ {0} /\ MAX_CONTEXTS \in Nat /\ MAX_BYTES \in Nat

VARIABLES mConnected, mRefCount, mBuffer,
          context,    \* the contexts that were made, in order: none is deleted
          pending,    \* the contexts of operations not yet dequeued
          thread,     \* thread -> the statement it is about to run
          arrived,    \* how many bytes the receives that succeeded have brought
          echoed      \* the bytes of the sends that have succeeded, in order

session == <<mConnected, mRefCount, mBuffer, context, pending, thread, arrived, echoed>>

Threads == Callers \cup Workers

Idle == [at |-> "idle", context |-> 0, transferred |-> 0]

SessionInit ==
    /\ mConnected = 0 /\ mRefCount = 0
    /\ mBuffer = Construct(BUFSIZE, 0)
    /\ context = <<>> /\ pending = {}
    /\ thread = [t \in Threads |-> Idle]
    /\ arrived = 0 /\ echoed = <<>>

Becomes(t, what) == thread' = [thread EXCEPT ![t] = what]

Goes(t, at) == thread' = [thread EXCEPT ![t].at = at]

-----------------------------------------------------------------------------
(***************************************************************************)
(* A context is made with a reference to the session.  DeleteIoContext is  *)
(* empty: the context and its reference stay for good.                     *)
(***************************************************************************)
AddRef == mRefCount' = mRefCount + 1

NewIoContext(io) == context' = Append(context, io) /\ AddRef

\* The operation that was given the new context is under way.
Started == pending' = pending \cup {Len(context) + 1}

\* A receive or a send is made.
NewDataContext(io) ==
    /\ Cardinality({c \in DOMAIN context : context[c].ioType \in {"IO_RECV", "IO_SEND"}})
          < MAX_CONTEXTS
    /\ NewIoContext(io)

Plain(type) == [ioType |-> type, buf |-> nullptr, len |-> 0]

\* Only the caller that finds the session connected makes a disconnect context.
DisconnectRequestTwice ==   \* mutant: mConnected is not looked at
    /\ mConnected' = 0
    /\ NewIoContext(Plain("IO_DISCONNECT")) /\ Started

DisconnectRequestCountsDown ==   \* mutant: the flag is counted down, not exchanged
    /\ mConnected' = mConnected - 1
    /\ \/ mConnected # 1 /\ UNCHANGED <<context, mRefCount, pending>>
       \/ mConnected = 1 /\ NewIoContext(Plain("IO_DISCONNECT")) /\ Started

DisconnectRequest ==
    \/ mConnected = 0 /\ UNCHANGED <<mConnected, context, mRefCount, pending>>
    \/ /\ mConnected = 1 /\ mConnected' = 0
       /\ NewIoContext(Plain("IO_DISCONNECT")) /\ Started

\* IsConnected(), read without the lock: the thread goes on to yes or to no.
IsConnected(t, yes, no) ==
    /\ Goes(t, IF mConnected = 1 THEN yes ELSE no)
    /\ UNCHANGED <<mConnected, mRefCount, mBuffer, context, pending, arrived, echoed>>

-----------------------------------------------------------------------------
(***************************************************************************)
(* PostRecv and PostSend under the lock, after their check.  An operation  *)
(* that fails at once leaves its context behind.                           *)
(***************************************************************************)
PostRecv(t) ==
    LET b == WithFreeSpace(mBuffer)
    IN  /\ thread[t].at = "postrecv"
        /\ mBuffer' = b
        /\ NewDataContext([ioType |-> "IO_RECV", buf |-> GetBuffer(b),
                           len |-> GetFreeSpaceSize(mBuffer)])
        /\ Started \/ UNCHANGED pending
        /\ Becomes(t, Idle)
        /\ UNCHANGED <<mConnected, arrived, echoed>>

PostSend(t) ==
    /\ thread[t].at = "postsend"
    /\ NewDataContext([ioType |-> "IO_SEND", buf |-> GetBufferStart(mBuffer),
                       len |-> GetContiguiousBytes(mBuffer)])
    /\ \/ Started /\ Becomes(t, Idle)
       \/ UNCHANGED pending /\ Goes(t, "closing")
    /\ UNCHANGED <<mConnected, mBuffer, arrived, echoed>>

\* PreRecv after its check.  Its context has the type of a receive that
\* carries data, and no buffer.
PreRecv(t) ==
    /\ thread[t].at = "prerecv"
    /\ NewDataContext(Plain("IO_RECV")) /\ Started
    /\ Becomes(t, Idle)
    /\ UNCHANGED <<mConnected, mBuffer, arrived, echoed>>

\* The region that Commit adds n bytes to has room for them.
Fits(b, n) ==
    n <= IF b.mBRegionPointer # nullptr THEN GetBFreeSpace(b) ELSE GetAFreeSpace(b)

RecvCompletion(t) ==
    /\ thread[t].at = "received" /\ Fits(mBuffer, thread[t].transferred)
    /\ mBuffer' = Commit(mBuffer, thread[t].transferred)
    /\ Goes(t, "sending")
    /\ UNCHANGED <<mConnected, mRefCount, context, pending, arrived, echoed>>

SendCompletionKeepsBytes(t) ==   \* mutant: the bytes sent are not removed
    /\ thread[t].at = "sent"
    /\ Goes(t, IF context[thread[t].context].len # thread[t].transferred
               THEN "closing" ELSE "receiving")
    /\ UNCHANGED <<mConnected, mRefCount, mBuffer, context, pending, arrived, echoed>>

\* SendCompletion, and the dispatcher's answer: a partial send closes the
\* connection, a full one goes on to PreRecv.
SendCompletion(t) ==
    /\ thread[t].at = "sent"
    /\ mBuffer' = Remove(mBuffer, thread[t].transferred)
    /\ Goes(t, IF context[thread[t].context].len # thread[t].transferred
               THEN "closing" ELSE "receiving")
    /\ UNCHANGED <<mConnected, mRefCount, context, pending, arrived, echoed>>
=============================================================================
