----------------------------- MODULE EchoServer -----------------------------
(***************************************************************************)
(* The echo server (EduEchoServer.cpp): main, the IocpManager with its     *)
(* worker threads and the SessionManager, around one ClientSession.        *)
(*                                                                         *)
(* main is the statement of the main thread.  The body of the loop of      *)
(* AcceptSessions is a comment, which names its steps: take a session from *)
(* the free list, PostAccept(), AddRef(), and return false on failure      *)
(* (PostAccept only ever returns true).  Nothing, code or comment, changes *)
(* the mCurrentIssueCount the loop waits for: main never leaves it, and    *)
(* holds the SessionManager's mutex all the while.                         *)
(*                                                                         *)
(* process is "up", or how it has ended: exited, a fault (a pointer that   *)
(* is null or was never set), a CRASH_ASSERT that has failed, or overrun:  *)
(* a commit has taken the buffer's regions beyond their room, from where   *)
(* on its sizes wrap around and no behaviour is defined.                   *)
(*                                                                         *)
(* The Callers use the session from other threads: they post receives and  *)
(* disconnect, whenever they like, as the class lets them.  (OnConnect is  *)
(* the one that was to post the first receive; it never gets there.)       *)
(***************************************************************************)
EXTENDS ClientSession

VARIABLES main, process,
          running,    \* the workers that have been started
          free        \* the session is in mFreeClientList

\* History, for EchoKept: some receive was posted while data was under way.
VARIABLE overlapped

vars == <<session, main, process, running, free, overlapped>>

Init ==
    /\ SessionInit
    /\ main = "initialising" /\ process = "up" /\ running = {} /\ free = FALSE
    /\ overlapped = FALSE

-----------------------------------------------------------------------------
(***************************************************************************)
(* Initialize.  GetSystemInfo writes through a pointer that was never set: *)
(* it faults, or finds memory it can write to.  Then the port and the      *)
(* listening socket are set up, or main returns, and the sessions are put  *)
(* in the free list.                                                       *)
(***************************************************************************)
PrepareSessions == free' = TRUE

Initialize ==
    /\ main = "initialising"
    /\ \/ process' \in {"fault", "exited"} /\ UNCHANGED <<main, free>>
       \/ main' = "starting" /\ PrepareSessions /\ UNCHANGED process
    /\ UNCHANGED <<session, running, overlapped>>

\* StartIoThreads, one thread; the thread runs at once.
BeginThread(w) ==
    /\ main = "starting" /\ w \notin running
    /\ \/ /\ running' = running \cup {w}
          /\ main' = IF running' = Workers THEN "listening" ELSE "starting"
          /\ UNCHANGED process
       \/ process' = "exited" /\ UNCHANGED <<main, running>>
    /\ UNCHANGED <<session, free, overlapped>>

StartAccept ==
    /\ main = "listening"
    /\ \/ main' = "accepting" /\ UNCHANGED process
       \/ process' = "exited" /\ UNCHANGED main
    /\ UNCHANGED <<session, running, free, overlapped>>

PostAccept == NewIoContext(Plain("IO_ACCEPT")) /\ Started

\* One turn of the loop: a session leaves the free list, an accept is posted
\* on it, and the reference of its owner is taken.
AcceptSessionsKeepingFree ==   \* mutant: the session stays in the list
    /\ main = "accepting" /\ free
    /\ main' = "owning"
    /\ PostAccept
    /\ UNCHANGED <<mConnected, mBuffer, thread, arrived, echoed, process, running, free,
                   overlapped>>

AcceptSessions ==
    /\ main = "accepting" /\ free
    /\ main' = "owning" /\ free' = FALSE
    /\ PostAccept
    /\ UNCHANGED <<mConnected, mBuffer, thread, arrived, echoed, process, running, overlapped>>

OwnSession ==
    /\ main = "owning"
    /\ main' = "accepting"
    /\ AddRef
    /\ UNCHANGED <<mConnected, mBuffer, context, pending, thread, arrived, echoed,
                   process, running, free, overlapped>>

-----------------------------------------------------------------------------
(***************************************************************************)
(* The Callers.  Echoing: a receive or a send with data is under way, or   *)
(* some thread is on its way to one or from one.                           *)
(***************************************************************************)
Echoing ==
    \/ \E c \in pending : context[c].buf # nullptr
    \/ \E t \in Threads : thread[t].at \in {"postrecv", "received", "sending", "postsend", "sent"}

CallPostRecv(t) ==
    /\ thread[t] = Idle
    /\ IsConnected(t, "postrecv", "idle")
    /\ overlapped' = (overlapped \/ (mConnected = 1 /\ Echoing))
    /\ UNCHANGED <<main, process, running, free>>

Disconnect(t) ==
    /\ thread[t] = Idle
    /\ DisconnectRequest
    /\ UNCHANGED <<mBuffer, thread, arrived, echoed, main, process, running, free, overlapped>>

-----------------------------------------------------------------------------
(***************************************************************************)
(* The Workers.  GetQueuedCompletionStatus returns an operation that has   *)
(* ended and the number of bytes it has transferred; or, after 20 ms,      *)
(* nothing: then context is null and context->mIoType faults.              *)
(***************************************************************************)
Timeout(w) ==
    /\ w \in running /\ thread[w] = Idle
    /\ process' = "fault"
    /\ UNCHANGED <<session, main, running, free, overlapped>>

Takes(w, c, at, n) ==
    /\ w \in running /\ thread[w] = Idle /\ c \in pending
    /\ pending' = pending \ {c}
    /\ Becomes(w, [at |-> at, context |-> c, transferred |-> n])
    /\ UNCHANGED <<mConnected, mRefCount, context, main, process, running, free, overlapped>>

\* An accept or a disconnection, failed or not, has transferred nothing.
Dequeue(w, c) ==
    /\ context[c].ioType \in {"IO_ACCEPT", "IO_DISCONNECT"}
    /\ Takes(w, c, context[c].ioType, 0)
    /\ UNCHANGED <<mBuffer, arrived, echoed>>

\* The network has written n bytes to the buffer of the receive.
DequeueRecv(w, c, n) ==
    /\ context[c].ioType = "IO_RECV" /\ n \in 1 .. context[c].len /\ arrived + n <= MAX_BYTES
    /\ Takes(w, c, "received", n)
    /\ mBuffer' = Memcpy(mBuffer, context[c].buf, [i \in 1 .. n |-> arrived + i])
    /\ arrived' = arrived + n
    /\ UNCHANGED echoed

\* The network has taken n bytes of the send, as they lie in the buffer.
DequeueSend(w, c, n) ==
    /\ context[c].ioType = "IO_SEND" /\ n \in 1 .. context[c].len
    /\ Takes(w, c, "sent", n)
    /\ echoed' = echoed \o BytesAt(mBuffer, context[c].buf, n)
    /\ UNCHANGED <<mBuffer, arrived>>

\* A receive or a send has failed or transferred nothing.  The number that a
\* failed one reports is not looked at, but a receive may have written n
\* bytes to its buffer.
DequeueError(w, c, n) ==
    /\ context[c].ioType \in {"IO_RECV", "IO_SEND"} /\ n <= context[c].len
    /\ Takes(w, c, "closing", 0)
    /\ mBuffer' = IF context[c].ioType = "IO_RECV"
                  THEN Memcpy(mBuffer, context[c].buf, [i \in 1 .. n |-> 0])
                  ELSE mBuffer
    /\ UNCHANGED <<arrived, echoed>>

\* AcceptCompletion: the exchange, then the socket options, which may fail,
\* and the check of PreRecv.
AcceptCompletion(w) ==
    /\ thread[w].at = "IO_ACCEPT"
    /\ mConnected' = 1
    /\ process' = IF mConnected = 1 THEN "assert" ELSE process
    /\ Goes(w, "configuring")
    /\ UNCHANGED <<mRefCount, mBuffer, context, pending, arrived, echoed, main, running, free,
                   overlapped>>

AcceptFails(w) ==
    /\ thread[w].at = "configuring"
    /\ DisconnectRequest
    /\ Becomes(w, Idle)
    /\ UNCHANGED <<mBuffer, arrived, echoed, main, process, running, free, overlapped>>

AcceptSucceeds(w) ==
    /\ thread[w].at = "configuring"
    /\ IF mConnected = 1 THEN Goes(w, "prerecv") ELSE Becomes(w, Idle)
    /\ UNCHANGED <<mConnected, mRefCount, mBuffer, context, pending, arrived, echoed,
                   main, process, running, free, overlapped>>

(***************************************************************************)
(* DisconnectCompletion releases a reference; with the last one the        *)
(* session is reset and given back, which waits for the SessionManager's   *)
(* mutex.  (ReleaseRef names a CreateClientSession that does not exist;    *)
(* ReturnClientSession is the method that takes a session back.)           *)
(***************************************************************************)
SessionReset == mConnected' = 0 /\ mRefCount' = 0

ReturnClientSession ==
    /\ main \notin {"accepting", "owning"}
    /\ process' = IF mConnected = 0 THEN process ELSE "assert"
    /\ SessionReset
    /\ free' = TRUE

ReleaseRef ==
    IF mRefCount = 1
    THEN ReturnClientSession
    ELSE /\ mRefCount' = mRefCount - 1
         /\ process' = IF mRefCount' >= 0 THEN process ELSE "assert"
         /\ UNCHANGED <<mConnected, free>>

DisconnectCompletionKeepingRef(w) ==   \* mutant: the reference is not released
    /\ thread[w].at = "IO_DISCONNECT"
    /\ Becomes(w, Idle)
    /\ UNCHANGED <<mConnected, mRefCount, mBuffer, context, pending, arrived, echoed,
                   main, process, running, free, overlapped>>

DisconnectCompletion(w) ==
    /\ thread[w].at = "IO_DISCONNECT"
    /\ ReleaseRef
    /\ Becomes(w, Idle)
    /\ UNCHANGED <<mBuffer, context, pending, arrived, echoed, main, running, overlapped>>

\* The steps of ReceiveCompletion and SendCompletion.
Completes(w) ==
    /\ \/ RecvCompletion(w)
       \/ thread[w].at = "sending" /\ IsConnected(w, "postsend", "closing")
       \/ PostSend(w)
       \/ SendCompletion(w)
       \/ thread[w].at = "receiving" /\ IsConnected(w, "prerecv", "closing")
       \/ PreRecv(w)
    /\ UNCHANGED <<main, process, running, free, overlapped>>

\* RecvCompletion commits more than the region has room for.
RecvOverruns(w) ==
    /\ thread[w].at = "received" /\ ~Fits(mBuffer, thread[w].transferred)
    /\ process' = "overrun"
    /\ UNCHANGED <<session, main, running, free, overlapped>>

\* A receive or a send without bytes, or a completion that was not ok.
CloseConnection(w) ==
    /\ thread[w].at = "closing"
    /\ DisconnectRequest
    /\ Becomes(w, Idle)
    /\ UNCHANGED <<mBuffer, arrived, echoed, main, process, running, free, overlapped>>

-----------------------------------------------------------------------------
Main ==
    \/ Initialize \/ (\E w \in Workers : BeginThread(w)) \/ StartAccept
    \/ AcceptSessions \/ OwnSession

Caller(t) ==
    \/ CallPostRecv(t) \/ Disconnect(t)
    \/ PostRecv(t) /\ UNCHANGED <<main, process, running, free, overlapped>>

IoWorkerThread(w) ==
    \/ Timeout(w)
    \/ \E c \in pending : Dequeue(w, c)
    \/ \E c \in pending : \E n \in 0 .. BUFSIZE :
          DequeueRecv(w, c, n) \/ DequeueSend(w, c, n) \/ DequeueError(w, c, n)
    \/ AcceptCompletion(w) \/ AcceptFails(w) \/ AcceptSucceeds(w)
    \/ DisconnectCompletion(w) \/ Completes(w) \/ RecvOverruns(w)
    \/ CloseConnection(w)

Next ==
    /\ process = "up"
    /\ \/ Main
       \/ \E t \in Callers : Caller(t)
       \/ \E w \in Workers : IoWorkerThread(w)

Spec == Init /\ [][Next]_vars

-----------------------------------------------------------------------------
Context(types) == {c \in DOMAIN context : context[c].ioType \in types}

TypeOK ==
    /\ mConnected \in {0, 1} /\ mRefCount \in Nat
    /\ mBuffer \in Buffers(0 .. MAX_BYTES, BUFSIZE)
    /\ \A c \in DOMAIN context :
          context[c] \in [ioType : {"IO_ACCEPT", "IO_RECV", "IO_SEND", "IO_DISCONNECT"},
                          buf : -1 .. BUFSIZE, len : 0 .. BUFSIZE]
    /\ pending \subseteq DOMAIN context
    /\ \A t \in Threads :
          thread[t].at \in {"idle", "postrecv", "IO_ACCEPT", "IO_DISCONNECT", "configuring",
                            "received", "sending", "postsend", "sent", "receiving",
                            "prerecv", "closing"}
    /\ arrived \in 0 .. MAX_BYTES /\ echoed \in Seq(0 .. MAX_BYTES)
    /\ main \in {"initialising", "starting", "listening", "accepting", "owning"}
    /\ process \in {"up", "exited", "fault", "assert", "overrun"}
    /\ running \subseteq Workers /\ free \in BOOLEAN /\ overlapped \in BOOLEAN

InHand == {thread[w].context : w \in Workers} \ {0}

(***************************************************************************)
(* Whatever ends the server, it is none of its assertions: no completion   *)
(* of an accept finds the session connected, and no more references are    *)
(* released than were taken.  (ReturnClientSession, the third to assert,   *)
(* is not reached: no context is ever deleted, so the last reference       *)
(* stays.)                                                                 *)
(***************************************************************************)
AssertsHold == process # "assert"

(***************************************************************************)
(* A connection ends once: caller, workers and failed operations may all   *)
(* ask for the end at the same time, before or after the first receive,    *)
(* and one disconnection is made when the connection is up no more.        *)
(***************************************************************************)
OneDisconnect ==
    LET accepted == {c \in Context({"IO_ACCEPT"}) : c \notin pending
                        /\ \A w \in Workers : thread[w].at = "IO_ACCEPT" => thread[w].context # c}
    IN  mConnected + Cardinality(Context({"IO_DISCONNECT"})) = Cardinality(accepted)

(***************************************************************************)
(* References are exact, and the session outlives its operations: it holds *)
(* one for each context ever made, which DeleteIoContext never gives back, *)
(* and the one that its owner takes with the accept, until the one         *)
(* disconnection of the connection has completed.                          *)
(***************************************************************************)
ReferencesKept ==
    LET accepts == Cardinality(Context({"IO_ACCEPT"}))
        owned   == IF main = "owning" THEN accepts - 1 ELSE accepts
        ended   == Cardinality(Context({"IO_DISCONNECT"}) \ (pending \cup InHand))
    IN  mRefCount = Len(context) + owned - ended

(***************************************************************************)
(* The buffer of the echo.  Whatever receives the callers post, the        *)
(* regions stay apart and every receive and send inside the array, unless  *)
(* a commit overruns.  And until a receive is posted while data is under   *)
(* way no commit does, and the echo is what arrived: the bytes go back in  *)
(* their order, each at most once, and those not yet sent are in the       *)
(* buffer; through partial and failed sends, bytes left behind by an echo  *)
(* that a disconnection cut short, and checks of the connection that are   *)
(* out of date when a receive or a send is made.                           *)
(***************************************************************************)
EchoKept ==
    LET got  == {w \in Workers : thread[w].at = "received"}
        sent == {w \in Workers : thread[w].at = "sent"}
        n(ws) == IF ws = {} THEN 0 ELSE thread[CHOOSE w \in ws : TRUE].transferred
        kept == Contents(mBuffer)
    IN  /\ Apart(mBuffer)
        /\ \A c \in DOMAIN context :
              context[c].buf # nullptr => context[c].buf + context[c].len <= BUFSIZE
        /\ ~overlapped =>
              /\ process # "overrun"
              /\ echoed \o SubSeq(kept, n(sent) + 1, Len(kept)) = [i \in 1 .. arrived - n(got) |-> i]
=============================================================================
