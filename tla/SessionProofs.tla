--------------------------- MODULE SessionProofs ---------------------------
(***************************************************************************)
(* Session for every finite set of contexts, any sets of threads and every *)
(* size of the send buffer: the references are exact, at most one send is  *)
(* outstanding, and the stream of bytes is kept.  The last rests on the    *)
(* one before (a second send would start at bytes that are already on the  *)
(* way) and on what CircularBufferProofs shows of Append_ and Remove.      *)
(***************************************************************************)
EXTENDS Session, CircularBufferProofs, FiniteSetTheorems, SequenceTheorems

CallerStates == [at : {"idle", "prerecving", "postrecving", "posting", "flushing"}]

WorkerStates ==
    {Idle} \cup [at : {"prerecv", "receiving", "closing", "deleting"}, context : Context]
           \cup [at : {"sent", "prerecv", "receiving", "closing", "deleting"},
                 context : Context, transferred : 0 .. SEND_BUFFER_SIZE]

\* The types but for those that follow from the other parts.
Types ==
    /\ mConnected \in {0, 1}
    /\ mSendPendingCount \in {0, 1}
    /\ mSendBuffer \in Buffers(0 .. MAX_BYTES, SEND_BUFFER_SIZE)
    /\ context \in [Context -> Contexts]
    /\ pending \subseteq Context
    /\ thread \in [Threads -> CallerStates \cup WorkerStates]
    /\ \A t \in Callers : thread[t] \in CallerStates
    /\ \A w \in Workers : thread[w] \in WorkerStates
    /\ posted \in 0 .. MAX_BYTES
    /\ delivered \in Seq(0 .. MAX_BYTES)

Used == {c \in Context : context[c] # Free}

Holds(w, c) == thread[w].at # "idle" /\ thread[w].context = c

IsOperation(c) == context[c].ioType \in {"IO_RECV", "IO_RECV_ZERO", "IO_SEND"}

IsLeft(c) == context[c].ioType = "IO_DISCONNECT"

\* Every context of an operation is in one place, and counted.
References ==
    /\ \A c \in pending : IsOperation(c)
    /\ \A w \in Workers : \A c \in Context : Holds(w, c) => c \notin pending /\ IsOperation(c)
    /\ \A v, w \in Workers : \A c \in Context : Holds(v, c) /\ Holds(w, c) => v = w
    /\ \A c \in Context : IsOperation(c) => c \in pending \/ \E w \in Workers : Holds(w, c)
    /\ \A c, d \in Context : IsLeft(c) /\ IsLeft(d) => c = d /\ mConnected = 0
    /\ mRefCount = 1 + Cardinality(Used)

\* A send that will still reach SendCompletion.
IsOut(c) ==
    \/ c \in pending /\ context[c].ioType = "IO_SEND"
    \/ \E w \in Workers : thread[w].at = "sent" /\ thread[w].context = c

Sends ==
    /\ \A w \in Workers : thread[w].at = "sent" => context[thread[w].context].ioType = "IO_SEND"
    /\ \A c, d \in Context : IsOut(c) /\ IsOut(d) => c = d
    /\ mSendPendingCount = 0 => \A c \in Context : ~IsOut(c)
    /\ mSendPendingCount # 0 => \/ \E c \in Context : IsOut(c)
                                \/ mConnected = 0
                                \/ \E w \in Workers : thread[w].at = "closing"

Sent(w) == thread[w].at = "sent"

\* A send under way reads the oldest bytes of the buffer, which stay where they are.
Stream ==
    /\ Apart(mSendBuffer)
    /\ \A c \in pending : context[c].ioType = "IO_SEND" =>
          /\ context[c].buf = GetBufferStart(mSendBuffer)
          /\ context[c].len <= GetContiguiousBytes(mSendBuffer)
    /\ \A w \in Workers : Sent(w) =>
          thread[w].transferred \in 1 .. GetContiguiousBytes(mSendBuffer)
    /\ (\A w \in Workers : ~Sent(w)) => delivered \o Contents(mSendBuffer) = Numbered(posted)
    /\ \A w \in Workers : Sent(w) =>
          delivered \o SubSeq(Contents(mSendBuffer), thread[w].transferred + 1,
                              Len(Contents(mSendBuffer))) = Numbered(posted)

IInv == Types /\ References /\ Sends /\ Stream

-----------------------------------------------------------------------------
(***************************************************************************)
(* How a thread's state changes.                                           *)
(***************************************************************************)
LEMMA WorkerFacts ==
    ASSUME Types, NEW w \in Workers
    PROVE  /\ thread[w] = Idle <=> thread[w].at = "idle"
           /\ thread[w].at # "idle" =>
                 /\ thread[w].context \in Context
                 /\ thread[w].at \in {"sent", "prerecv", "receiving", "closing", "deleting"}
           /\ thread[w].at = "sent" => thread[w].transferred \in 0 .. SEND_BUFFER_SIZE
  <1>1. thread[w] \in WorkerStates
    BY DEF Types
  <1>2. CASE thread[w] = Idle
    BY <1>2 DEF Idle
  <1>3. CASE thread[w] \in [at : {"prerecv", "receiving", "closing", "deleting"}, context : Context]
    BY <1>3 DEF Idle
  <1>4. CASE thread[w] \in [at : {"sent", "prerecv", "receiving", "closing", "deleting"},
                            context : Context, transferred : 0 .. SEND_BUFFER_SIZE]
    BY <1>4 DEF Idle
  <1> QED BY <1>1, <1>2, <1>3, <1>4 DEF WorkerStates

\* The part of Types that is about the threads.
ThreadTypes ==
    /\ thread \in [Threads -> CallerStates \cup WorkerStates]
    /\ \A t \in Callers : thread[t] \in CallerStates
    /\ \A w \in Workers : thread[w] \in WorkerStates

LEMMA CallerMoves ==
    ASSUME Types, NEW t \in Callers, NEW s \in CallerStates, thread' = [thread EXCEPT ![t] = s]
    PROVE  ThreadTypes' /\ \A w \in Workers : thread'[w] = thread[w]
  BY SessionAssumption DEF Types, ThreadTypes, Threads

LEMMA CallerGoes ==
    ASSUME Types, NEW t \in Callers,
           NEW at \in {"idle", "prerecving", "postrecving", "posting", "flushing"}, Goes(t, at)
    PROVE  ThreadTypes' /\ \A w \in Workers : thread'[w] = thread[w]
  <1>1. thread' = [thread EXCEPT ![t] = [thread[t] EXCEPT !.at = at]]
    BY DEF Goes, Types, Threads
  <1>2. [thread[t] EXCEPT !.at = at] \in CallerStates
    BY DEF Types, CallerStates
  <1> QED BY <1>1, <1>2, CallerMoves

LEMMA CallerReturns ==
    ASSUME Types, NEW t \in Callers, Becomes(t, Idle)
    PROVE  ThreadTypes' /\ \A w \in Workers : thread'[w] = thread[w]
  <1>1. Idle \in CallerStates
    BY DEF Idle, CallerStates
  <1> QED BY <1>1, CallerMoves DEF Becomes

LEMMA WorkerMoves ==
    ASSUME Types, NEW w \in Workers, NEW s \in WorkerStates, thread' = [thread EXCEPT ![w] = s]
    PROVE  /\ ThreadTypes' /\ thread'[w] = s
           /\ \A v \in Workers : v # w => thread'[v] = thread[v]
  BY SessionAssumption DEF Types, ThreadTypes, Threads

LEMMA WorkerGoes ==
    ASSUME Types, NEW w \in Workers, thread[w].at # "idle",
           NEW at \in {"prerecv", "receiving", "closing", "deleting"}, Goes(w, at)
    PROVE  /\ ThreadTypes'
           /\ thread'[w].at = at /\ thread'[w].context = thread[w].context
           /\ \A v \in Workers : v # w => thread'[v] = thread[v]
  <1> DEFINE s == [thread[w] EXCEPT !.at = at]
  <1>1. thread' = [thread EXCEPT ![w] = s]
    BY DEF Goes, Types, Threads
  <1>2. s \in WorkerStates /\ s.at = at /\ s.context = thread[w].context
    <2>1. thread[w] \in WorkerStates /\ thread[w] # Idle
      BY WorkerFacts DEF Types
    <2>2. CASE thread[w] \in [at : {"prerecv", "receiving", "closing", "deleting"}, context : Context]
      BY <2>2 DEF WorkerStates
    <2>3. CASE thread[w] \in [at : {"sent", "prerecv", "receiving", "closing", "deleting"},
                              context : Context, transferred : 0 .. SEND_BUFFER_SIZE]
      BY <2>3 DEF WorkerStates
    <2> QED BY <2>1, <2>2, <2>3 DEF WorkerStates
  <1> HIDE DEF s
  <1> QED BY <1>1, <1>2, WorkerMoves

LEMMA ContextFacts ==
    ASSUME Types, NEW c \in Context
    PROVE  /\ context[c] = Free <=> context[c].ioType = "free"
           /\ context[c].ioType \in {"free", "IO_RECV", "IO_RECV_ZERO", "IO_DISCONNECT", "IO_SEND"}
           /\ context[c].ioType = "IO_SEND" => context[c].len \in 1 .. SEND_BUFFER_SIZE
  <1>1. context[c] \in Contexts
    BY DEF Types
  <1>2. CASE context[c] = Free
    BY <1>2 DEF Free
  <1>3. CASE context[c] \in [ioType : {"IO_RECV", "IO_RECV_ZERO", "IO_DISCONNECT"}]
    BY <1>3 DEF Free
  <1>4. CASE context[c] \in [ioType : {"IO_SEND"}, buf : 0 .. SEND_BUFFER_SIZE,
                             len : 1 .. SEND_BUFFER_SIZE]
    BY <1>4 DEF Free
  <1> QED BY <1>1, <1>2, <1>3, <1>4 DEF Contexts

LEMMA ContextSet ==
    ASSUME Types, NEW c \in Context, NEW io \in Contexts, context' = [context EXCEPT ![c] = io]
    PROVE  /\ context' \in [Context -> Contexts] /\ context'[c] = io
           /\ \A d \in Context : d # c => context'[d] = context[d]
  BY DEF Types

LEMMA UsedFinite == IsFiniteSet(Used) /\ Cardinality(Used) \in Nat
  <1>1. IsFiniteSet(Used)
    BY FS_Subset, SessionAssumption DEF Used
  <1> QED BY <1>1, FS_CardinalityType

-----------------------------------------------------------------------------
(***************************************************************************)
(* The parts of the invariant under the steps that leave most of it alone. *)
(***************************************************************************)
SameHolders == \A w \in Workers : \A c \in Context : Holds(w, c)' <=> Holds(w, c)

LEMMA ReferencesKept ==
    ASSUME IInv, SameHolders, context' = context, pending' = pending, mRefCount' = mRefCount,
           mConnected' \in {mConnected, 0}
    PROVE  References'
  BY DEF IInv, Types, References, SameHolders, IsOperation, IsLeft, Used

LEMMA SendsKept ==
    ASSUME IInv, mSendPendingCount' = mSendPendingCount, mConnected' \in {mConnected, 0},
           \A c \in Context : IsOut(c)' <=> IsOut(c),
           \A w \in Workers : thread[w].at = "closing" => thread'[w].at = "closing" \/ mConnected' = 0,
           \A w \in Workers : thread'[w].at = "sent" =>
              thread[w].at = "sent" /\ context'[thread'[w].context].ioType = "IO_SEND"
    PROVE  Sends'
  BY DEF IInv, Sends

LEMMA StreamStays ==
    ASSUME IInv, mSendBuffer' = mSendBuffer, posted' = posted, delivered' = delivered,
           \A c \in pending' : context'[c].ioType = "IO_SEND" => c \in pending /\ context'[c] = context[c],
           \A w \in Workers : (Sent(w)' <=> Sent(w))
                              /\ (Sent(w) => thread'[w].transferred = thread[w].transferred)
    PROVE  Stream'
  BY DEF IInv, Stream

\* A new context is free and nobody's.
LEMMA FreeIsNowhere ==
    ASSUME IInv, NEW c \in Context, context[c] = Free
    PROVE  /\ c \notin pending /\ ~IsOut(c) /\ c \notin Used
           /\ \A w \in Workers : ~Holds(w, c)
           /\ \A w \in Workers : thread[w].at = "sent" => thread[w].context # c
  <1>1. context[c].ioType = "free"
    BY DEF Free
  <1>2. c \notin pending /\ \A w \in Workers : ~Holds(w, c)
    BY <1>1 DEF IInv, References, IsOperation
  <1>3. \A w \in Workers : thread[w].at = "sent" => thread[w].context # c
    BY <1>2 DEF Holds
  <1> QED BY <1>2, <1>3 DEF IsOut, Used

LEMMA NewOperation ==
    ASSUME IInv, NEW c \in Context, NEW io \in Contexts,
           io.ioType \in {"IO_RECV", "IO_RECV_ZERO", "IO_SEND"},
           NewIoContext(c, io), pending' = pending \cup {c}, SameHolders, mConnected' = mConnected
    PROVE  /\ References' /\ context' \in [Context -> Contexts]
           /\ context[c] = Free /\ context'[c] = io
           /\ \A d \in Context : d # c => context'[d] = context[d]
  <1>1. /\ context[c] = Free /\ context' = [context EXCEPT ![c] = io] /\ mRefCount' = mRefCount + 1
    BY DEF NewIoContext, AddRef
  <1>2. /\ context' \in [Context -> Contexts] /\ context'[c] = io
        /\ \A d \in Context : d # c => context'[d] = context[d]
    BY <1>1, ContextSet DEF IInv
  <1>3. /\ c \notin pending /\ c \notin Used /\ \A w \in Workers : ~Holds(w, c)
    BY <1>1, FreeIsNowhere
  <1>4. Used' = Used \cup {c}
    <2>1. io # Free
      BY DEF Free
    <2> QED BY <1>2, <2>1 DEF Used
  <1>5. Cardinality(Used') = Cardinality(Used) + 1
    BY <1>3, <1>4, UsedFinite, FS_AddElement
  <1>6. mRefCount' = 1 + Cardinality(Used')
    BY <1>1, <1>5, UsedFinite DEF IInv, References
  <1>7. \A d \in Context : /\ IsOperation(d)' <=> (d = c \/ IsOperation(d))
                           /\ IsLeft(d)' <=> (d # c /\ IsLeft(d))
    BY <1>2 DEF IsOperation, IsLeft
  <1>8. pending' \subseteq Context
    BY DEF IInv, Types
  <1>9. /\ \A d \in pending' : IsOperation(d)'
        /\ \A w \in Workers : \A d \in Context : Holds(w, d)' => d \notin pending' /\ IsOperation(d)'
    BY <1>3, <1>7, <1>8 DEF IInv, References, SameHolders
  <1>10. /\ \A v, w \in Workers : \A d \in Context : Holds(v, d)' /\ Holds(w, d)' => v = w
         /\ \A d \in Context : IsOperation(d)' => d \in pending' \/ \E w \in Workers : Holds(w, d)'
         /\ \A d, e \in Context : IsLeft(d)' /\ IsLeft(e)' => d = e /\ mConnected' = 0
    BY <1>7 DEF IInv, References, SameHolders
  <1>11. References'
    BY <1>6, <1>9, <1>10 DEF References
  <1> QED BY <1>1, <1>2, <1>11

LEMMA DisconnectOK ==
    ASSUME IInv, NEW stale \in BOOLEAN, DisconnectRequest(stale), pending' = pending, SameHolders
    PROVE  /\ References' /\ context' \in [Context -> Contexts]
           /\ mConnected' = 0 /\ mConnected' \in {mConnected, 0}
           /\ \A c \in Context : context[c] # Free => context'[c] = context[c]
           /\ \A c \in Context : context'[c].ioType = "IO_SEND" <=> context[c].ioType = "IO_SEND"
  <1>1. CASE mConnected = 0 /\ UNCHANGED <<mConnected, context, mRefCount>>
    BY <1>1, ReferencesKept DEF IInv, Types
  <1>2. CASE mConnected = 1 /\ mConnected' = 0 /\ NoIoContext
    BY <1>2, ReferencesKept DEF IInv, Types, NoIoContext
  <1>3. ASSUME mConnected = 1, mConnected' = 0, NEW c \in Context,
               NewIoContext(c, [ioType |-> "IO_DISCONNECT"])
        PROVE  /\ References' /\ context' \in [Context -> Contexts]
               /\ \A d \in Context : context[d] # Free => context'[d] = context[d]
               /\ \A d \in Context : context'[d].ioType = "IO_SEND" <=> context[d].ioType = "IO_SEND"
    <2> DEFINE io == [ioType |-> "IO_DISCONNECT"]
    <2>1. /\ context[c] = Free /\ context' = [context EXCEPT ![c] = io] /\ mRefCount' = mRefCount + 1
          /\ io \in Contexts /\ io.ioType = "IO_DISCONNECT"
      BY <1>3 DEF NewIoContext, AddRef, Contexts
    <2>2. /\ context' \in [Context -> Contexts] /\ context'[c] = io
          /\ \A d \in Context : d # c => context'[d] = context[d]
      BY <2>1, ContextSet DEF IInv
    <2>3. /\ c \notin pending /\ c \notin Used /\ \A w \in Workers : ~Holds(w, c)
      BY <2>1, FreeIsNowhere
    <2>4. context[c].ioType = "free"
      BY <2>1 DEF Free
    <2>5. Used' = Used \cup {c}
      <3>1. io # Free
        BY DEF Free
      <3> HIDE DEF io
      <3> QED BY <2>2, <3>1 DEF Used
    <2>6. Cardinality(Used') = Cardinality(Used) + 1
      BY <2>3, <2>5, UsedFinite, FS_AddElement
    <2>7. mRefCount' = 1 + Cardinality(Used')
      BY <2>1, <2>6, UsedFinite DEF IInv, References
    <2> HIDE DEF io
    <2>8. \A d \in Context : /\ IsOperation(d)' <=> IsOperation(d)
                             /\ IsLeft(d)' <=> (d = c \/ IsLeft(d))
      BY <2>1, <2>2, <2>4 DEF IsOperation, IsLeft
    <2>9. \A d \in Context : ~IsLeft(d)
      BY <1>3 DEF IInv, References
    <2>10. pending \subseteq Context
      BY DEF IInv, Types
    <2>11. References'
      BY <1>3, <2>7, <2>8, <2>9, <2>10 DEF IInv, References, SameHolders
    <2>12. /\ \A d \in Context : context[d] # Free => context'[d] = context[d]
           /\ \A d \in Context : context'[d].ioType = "IO_SEND" <=> context[d].ioType = "IO_SEND"
      BY <2>1, <2>2, <2>4
    <2> QED BY <2>2, <2>11, <2>12
  <1> QED BY <1>1, <1>2, <1>3 DEF DisconnectRequest

\* DisconnectRequest and the sends, whoever calls it.
LEMMA DisconnectKeepsSends ==
    ASSUME IInv, NEW stale \in BOOLEAN, DisconnectRequest(stale), pending' = pending, SameHolders,
           mSendPendingCount' = mSendPendingCount, mSendBuffer' = mSendBuffer,
           posted' = posted, delivered' = delivered,
           \A w \in Workers : (thread'[w].at = "sent" <=> thread[w].at = "sent")
                              /\ (thread[w].at = "sent" => thread'[w] = thread[w])
    PROVE  Sends' /\ Stream'
  <1>1. /\ mConnected' = 0 /\ mConnected' \in {mConnected, 0}
        /\ \A c \in Context : context[c] # Free => context'[c] = context[c]
        /\ \A c \in Context : context'[c].ioType = "IO_SEND" <=> context[c].ioType = "IO_SEND"
    BY DisconnectOK
  <1>2. \A c \in Context : IsOut(c)' <=> IsOut(c)
    BY <1>1 DEF IsOut
  <1>3. \A w \in Workers : thread'[w].at = "sent" =>
           thread[w].at = "sent" /\ context'[thread'[w].context].ioType = "IO_SEND"
    BY <1>1, WorkerFacts DEF IInv, Sends
  <1>4. Sends'
    BY <1>1, <1>2, <1>3, SendsKept
  <1>5. \A c \in pending' : context'[c].ioType = "IO_SEND" => c \in pending /\ context'[c] = context[c]
    BY <1>1, ContextFacts DEF IInv, Types
  <1>6. Stream'
    BY <1>5, StreamStays DEF Sent
  <1> QED BY <1>4, <1>6

-----------------------------------------------------------------------------
LEMMA InitOK == Init => IInv
  <1> SUFFICES ASSUME Init PROVE IInv
    OBVIOUS
  <1>1. \A t \in Threads : thread[t] = Idle /\ thread[t].at = "idle"
    BY DEF Init, Idle
  <1>2. \A c \in Context : context[c] = Free /\ context[c].ioType = "free"
    BY DEF Init, Free
  <1>3. /\ mSendBuffer \in Buffers(0 .. MAX_BYTES, SEND_BUFFER_SIZE)
        /\ Apart(mSendBuffer) /\ Contents(mSendBuffer) = <<>>
    <2>1. 0 \in 0 .. MAX_BYTES /\ SEND_BUFFER_SIZE \in Nat
      BY SessionAssumption
    <2> QED BY <2>1, ConstructFields DEF Init
  <1>4. Types
    <2>1. Idle \in CallerStates /\ Idle \in WorkerStates /\ Free \in Contexts
      BY DEF Idle, CallerStates, WorkerStates, Contexts
    <2>2. posted \in 0 .. MAX_BYTES
      BY SessionAssumption DEF Init
    <2> QED BY <1>3, <2>1, <2>2 DEF Init, Types, Threads
  <1>5. References
    <2>1. Used = {}
      BY <1>2 DEF Used
    <2>2. Cardinality(Used) = 0
      BY <2>1, FS_EmptySet
    <2>3. \A w \in Workers : \A c \in Context : ~Holds(w, c)
      BY <1>1 DEF Holds, Threads
    <2> QED BY <1>2, <2>2, <2>3 DEF Init, References, IsOperation, IsLeft
  <1>6. Sends
    BY <1>1 DEF Init, Sends, IsOut, Threads
  <1>7. Stream
    <2>1. \A w \in Workers : ~Sent(w)
      BY <1>1 DEF Sent, Threads
    <2>2. delivered \o Contents(mSendBuffer) = Numbered(posted)
      BY <1>3 DEF Init, Numbered
    <2> QED BY <1>3, <2>1, <2>2 DEF Init, Stream
  <1> QED BY <1>4, <1>5, <1>6, <1>7 DEF IInv

\* A step that only moves a thread, and not to or from SendCompletion.
LEMMA OnlyThread ==
    ASSUME IInv, ThreadTypes', SameHolders,
           \A w \in Workers : (thread'[w].at = "sent" <=> thread[w].at = "sent")
                              /\ (thread[w].at = "sent" => thread'[w] = thread[w]),
           \A w \in Workers : thread[w].at = "closing" => thread'[w].at = "closing",
           UNCHANGED <<mConnected, mRefCount, mSendPendingCount, mSendBuffer,
                       context, pending, posted, delivered>>
    PROVE  IInv'
  <1>1. Types'
    BY DEF IInv, Types, ThreadTypes
  <1>2. References'
    BY ReferencesKept
  <1>3. \A c \in Context : IsOut(c)' <=> IsOut(c)
    BY DEF IsOut
  <1>4. Sends'
    BY <1>3, SendsKept DEF IInv, Sends
  <1>5. Stream'
    BY StreamStays DEF Sent, IInv, Types
  <1> QED BY <1>1, <1>2, <1>4, <1>5 DEF IInv

LEMMA CallOK ==
    ASSUME IInv, NEW t \in Callers,
           NEW at \in {"prerecving", "postrecving", "posting", "flushing"}, Call(t, at)
    PROVE  IInv'
  <1>1. ThreadTypes' /\ \A w \in Workers : thread'[w] = thread[w]
    BY CallerGoes DEF Call, IInv
  <1>2. SameHolders
    BY <1>1 DEF SameHolders, Holds
  <1> QED BY <1>1, <1>2, OnlyThread DEF Call

LEMMA FlushSendRejectedOK ==
    ASSUME IInv, NEW t \in Callers, FlushSendRejected(t)
    PROVE  IInv'
  <1>1. ThreadTypes' /\ \A w \in Workers : thread'[w] = thread[w]
    BY CallerReturns DEF FlushSendRejected, IInv
  <1>2. SameHolders
    BY <1>1 DEF SameHolders, Holds
  <1> QED BY <1>1, <1>2, OnlyThread DEF FlushSendRejected

LEMMA DisconnectsOK ==
    ASSUME IInv, NEW t \in Callers, Disconnect(t) \/ FlushSendFailed(t)
    PROVE  IInv'
  <1>1. PICK stale \in BOOLEAN : DisconnectRequest(stale)
    BY DEF Disconnect, FlushSendFailed
  <1>2. UNCHANGED <<mSendPendingCount, mSendBuffer, pending, posted, delivered>>
    BY DEF Disconnect, FlushSendFailed
  <1>3. ThreadTypes' /\ \A w \in Workers : thread'[w] = thread[w]
    BY CallerReturns DEF Disconnect, FlushSendFailed, IInv, Types, ThreadTypes
  <1>4. SameHolders
    BY <1>3 DEF SameHolders, Holds
  <1>5. References' /\ context' \in [Context -> Contexts] /\ mConnected' = 0
    BY <1>1, <1>2, <1>4, DisconnectOK
  <1>6. Sends' /\ Stream'
    BY <1>1, <1>2, <1>3, <1>4, DisconnectKeepsSends
  <1>7. Types'
    BY <1>2, <1>3, <1>5 DEF IInv, Types, ThreadTypes
  <1> QED BY <1>5, <1>6, <1>7 DEF IInv

(***************************************************************************)
(* A receive that is started, by a caller or by a worker.                  *)
(***************************************************************************)
LEMMA WSARecvOK ==
    ASSUME IInv, NEW t \in Threads, NEW type \in {"IO_RECV", "IO_RECV_ZERO"},
           NEW ok, NEW no, WSARecv(t, type, ok, no),
           ThreadTypes', SameHolders,
           \A w \in Workers : (thread'[w].at = "sent" <=> thread[w].at = "sent")
                              /\ (thread[w].at = "sent" => thread'[w] = thread[w]),
           \A w \in Workers : thread[w].at = "closing" => thread'[w].at = "closing"
    PROVE  IInv'
  <1>0. UNCHANGED <<mConnected, mSendPendingCount, mSendBuffer, posted, delivered>>
    BY DEF WSARecv
  <1>1. ASSUME NEW c \in Context, NewIoContext(c, [ioType |-> type]), pending' = pending \cup {c}
        PROVE  IInv'
    <2> DEFINE io == [ioType |-> type]
    <2>1. io \in Contexts /\ io.ioType \in {"IO_RECV", "IO_RECV_ZERO"}
      BY DEF Contexts
    <2>2. NewIoContext(c, io)
      BY <1>1
    <2> HIDE DEF io
    <2>3. /\ References' /\ context' \in [Context -> Contexts]
          /\ context[c] = Free /\ context'[c] = io
          /\ \A d \in Context : d # c => context'[d] = context[d]
      BY <1>0, <1>1, <2>1, <2>2, NewOperation
    <2>4. /\ c \notin pending
          /\ \A w \in Workers : thread[w].at = "sent" => thread[w].context # c
      BY <2>3, FreeIsNowhere
    <2>5. Types'
      BY <1>0, <1>1, <2>3 DEF IInv, Types, ThreadTypes
    <2>6. \A d \in Context : IsOut(d)' <=> IsOut(d)
      BY <1>1, <2>1, <2>3, <2>4 DEF IsOut
    <2>7. \A w \in Workers : thread'[w].at = "sent" =>
             thread[w].at = "sent" /\ context'[thread'[w].context].ioType = "IO_SEND"
      BY <2>3, <2>4, WorkerFacts DEF IInv, Sends
    <2>8. Sends'
      BY <1>0, <2>6, <2>7, SendsKept
    <2>9. \A d \in pending' : context'[d].ioType = "IO_SEND" => d \in pending /\ context'[d] = context[d]
      BY <1>1, <2>1, <2>3 DEF IInv, Types
    <2>10. Stream'
      BY <1>0, <2>9, StreamStays DEF Sent
    <2> QED BY <2>3, <2>5, <2>8, <2>10 DEF IInv
  <1>2. CASE NoIoContext /\ UNCHANGED pending
    BY <1>0, <1>2, OnlyThread DEF NoIoContext
  <1> QED BY <1>1, <1>2 DEF WSARecv

LEMMA CallerReceivesOK ==
    ASSUME IInv, NEW t \in Callers, PreRecvCalled(t) \/ PostRecv(t)
    PROVE  IInv'
  <1>1. PICK type \in {"IO_RECV", "IO_RECV_ZERO"} : WSARecv(t, type, "idle", "idle")
    BY DEF PreRecvCalled, PostRecv
  <1>2. Goes(t, "idle")
    BY <1>1 DEF WSARecv
  <1>3. ThreadTypes' /\ \A w \in Workers : thread'[w] = thread[w]
    BY <1>2, CallerGoes DEF IInv
  <1>4. SameHolders /\ t \in Threads
    BY <1>3 DEF SameHolders, Holds, Threads
  <1> QED BY <1>1, <1>3, <1>4, WSARecvOK

LEMMA PreRecvAgainOK ==
    ASSUME IInv, NEW w \in Workers, PreRecvAgain(w)
    PROVE  IInv'
  <1>1. thread[w].at = "receiving" /\ WSARecv(w, "IO_RECV_ZERO", "deleting", "closing")
    BY DEF PreRecvAgain
  <1>2. PICK at \in {"deleting", "closing"} : Goes(w, at)
    BY <1>1 DEF WSARecv
  <1>3. /\ ThreadTypes' /\ thread'[w].at = at /\ thread'[w].context = thread[w].context
        /\ \A v \in Workers : v # w => thread'[v] = thread[v]
    BY <1>1, <1>2, WorkerGoes DEF IInv
  <1>4. SameHolders /\ w \in Threads
    BY <1>1, <1>3 DEF SameHolders, Holds, Threads
  <1> QED BY <1>1, <1>3, <1>4, WSARecvOK

LEMMA PreReceiveCompletionOK ==
    ASSUME IInv, NEW w \in Workers, PreReceiveCompletion(w)
    PROVE  IInv'
  <1>1. thread[w].at = "prerecv"
    BY DEF PreReceiveCompletion
  <1>2. PICK at \in {"receiving", "closing"} : Goes(w, at)
    BY DEF PreReceiveCompletion
  <1>3. /\ ThreadTypes' /\ thread'[w].at = at /\ thread'[w].context = thread[w].context
        /\ \A v \in Workers : v # w => thread'[v] = thread[v]
    BY <1>1, <1>2, WorkerGoes DEF IInv
  <1>4. SameHolders
    BY <1>1, <1>3 DEF SameHolders, Holds
  <1> QED BY <1>1, <1>3, <1>4, OnlyThread DEF PreReceiveCompletion

LEMMA CloseConnectionOK ==
    ASSUME IInv, NEW w \in Workers, CloseConnection(w)
    PROVE  IInv'
  <1>1. /\ thread[w].at = "closing" /\ DisconnectRequest(TRUE) /\ Goes(w, "deleting")
        /\ UNCHANGED <<mSendPendingCount, mSendBuffer, pending, posted, delivered>>
    BY DEF CloseConnection
  <1>2. /\ ThreadTypes' /\ thread'[w].at = "deleting" /\ thread'[w].context = thread[w].context
        /\ \A v \in Workers : v # w => thread'[v] = thread[v]
    BY <1>1, WorkerGoes DEF IInv
  <1>3. SameHolders
    BY <1>1, <1>2 DEF SameHolders, Holds
  <1>4. References' /\ context' \in [Context -> Contexts] /\ mConnected' = 0
    BY <1>1, <1>3, DisconnectOK
  <1>5. Sends' /\ Stream'
    BY <1>1, <1>2, <1>3, DisconnectKeepsSends
  <1>6. Types'
    BY <1>1, <1>2, <1>4 DEF IInv, Types, ThreadTypes
  <1> QED BY <1>4, <1>5, <1>6 DEF IInv

-----------------------------------------------------------------------------
\* The send buffer as the lemmas about CircularBuffer want it.
LEMMA SendBufferFacts ==
    ASSUME IInv
    PROVE  /\ SEND_BUFFER_SIZE \in Nat /\ mSendBuffer \in Buffers(0 .. MAX_BYTES, SEND_BUFFER_SIZE)
           /\ Apart(mSendBuffer)
           /\ Contents(mSendBuffer) \in Seq(0 .. MAX_BYTES)
           /\ Len(Contents(mSendBuffer)) \in Nat
           /\ GetContiguiousBytes(mSendBuffer) \in 0 .. SEND_BUFFER_SIZE
           /\ GetContiguiousBytes(mSendBuffer) <= Len(Contents(mSendBuffer))
           /\ GetContiguiousBytes(mSendBuffer) > 0 => GetBufferStart(mSendBuffer) \in 0 .. SEND_BUFFER_SIZE
  <1>1. /\ SEND_BUFFER_SIZE \in Nat /\ mSendBuffer \in Buffers(0 .. MAX_BYTES, SEND_BUFFER_SIZE)
        /\ Apart(mSendBuffer)
    BY SessionAssumption DEF IInv, Types, Stream
  <1>2. Contents(mSendBuffer) \in Seq(0 .. MAX_BYTES)
    BY <1>1, ContentsType
  <1>3. Len(Contents(mSendBuffer)) \in Nat
    BY <1>2, LenProperties
  <1> QED BY <1>1, <1>2, <1>3, ContiguousBound

LEMMA FlushSendOK ==
    ASSUME IInv, NEW t \in Callers, FlushSend(t)
    PROVE  IInv'
  <1>1. /\ GetContiguiousBytes(mSendBuffer) > 0 /\ mSendPendingCount = 0
        /\ mSendPendingCount' = 1
        /\ UNCHANGED <<mConnected, mSendBuffer, posted, delivered>>
    BY DEF FlushSend
  <1>2. PICK c \in Context : NewIoContext(c, Send) /\ pending' = pending \cup {c}
    BY DEF FlushSend
  <1>3. ThreadTypes' /\ \A w \in Workers : thread'[w] = thread[w]
    BY CallerReturns DEF FlushSend, IInv
  <1>4. SameHolders
    BY <1>3 DEF SameHolders, Holds
  <1>5. /\ Send \in Contexts /\ Send.ioType = "IO_SEND"
        /\ Send.buf = GetBufferStart(mSendBuffer) /\ Send.len = GetContiguiousBytes(mSendBuffer)
    <2>1. /\ GetContiguiousBytes(mSendBuffer) \in 1 .. SEND_BUFFER_SIZE
          /\ GetBufferStart(mSendBuffer) \in 0 .. SEND_BUFFER_SIZE
      BY <1>1, SendBufferFacts
    <2> QED BY <2>1 DEF Send, Contexts
  <1>6. /\ References' /\ context' \in [Context -> Contexts]
        /\ context[c] = Free /\ context'[c] = Send
        /\ \A d \in Context : d # c => context'[d] = context[d]
    BY <1>1, <1>2, <1>4, <1>5, NewOperation
  <1>7. /\ c \notin pending
        /\ \A w \in Workers : thread[w].at = "sent" => thread[w].context # c
    BY <1>6, FreeIsNowhere
  <1>8. Types'
    BY <1>1, <1>2, <1>3, <1>6 DEF IInv, Types, ThreadTypes
  <1>9. \A w \in Workers : ~Sent(w)
    BY <1>1, WorkerFacts DEF IInv, Sends, IsOut, Sent
  <1>10. \A d \in pending : context[d].ioType # "IO_SEND"
    BY <1>1 DEF IInv, Types, Sends, IsOut
  <1>11. \A d \in Context : IsOut(d)' <=> d = c
    BY <1>2, <1>3, <1>5, <1>6, <1>9, <1>10 DEF IsOut, Sent, IInv, Types
  <1>12. Sends'
    BY <1>1, <1>3, <1>9, <1>11 DEF Sends, Sent
  <1>13. Stream'
    <2>1. \A d \in pending' : context'[d].ioType = "IO_SEND" => d = c
      BY <1>2, <1>6, <1>10 DEF IInv, Types
    <2>2. Send.len <= GetContiguiousBytes(mSendBuffer)
      BY <1>5, SendBufferFacts
    <2> QED BY <1>1, <1>3, <1>5, <1>6, <1>9, <2>1, <2>2 DEF IInv, Stream, Sent
  <1> QED BY <1>6, <1>8, <1>12, <1>13 DEF IInv

(***************************************************************************)
(* The buffer keeps its oldest bytes and gets new ones behind its contents.*)
(***************************************************************************)
LEMMA BufferGrows ==
    ASSUME IInv, NEW t \in Callers, Becomes(t, Idle), NEW data \in Seq(0 .. MAX_BYTES),
           UNCHANGED <<mConnected, mRefCount, mSendPendingCount, context, pending, delivered>>,
           posted' \in 0 .. MAX_BYTES, Numbered(posted) \o data = Numbered(posted'),
           mSendBuffer' \in Buffers(0 .. MAX_BYTES, SEND_BUFFER_SIZE), Apart(mSendBuffer'),
           Contents(mSendBuffer') = Contents(mSendBuffer) \o data,
           mSendBuffer'.mARegionPointer = mSendBuffer.mARegionPointer,
           mSendBuffer'.mARegionSize >= mSendBuffer.mARegionSize
    PROVE  IInv'
  <1>1. ThreadTypes' /\ \A w \in Workers : thread'[w] = thread[w]
    BY CallerReturns DEF IInv
  <1>2. SameHolders
    BY <1>1 DEF SameHolders, Holds
  <1>3. Types'
    BY <1>1 DEF IInv, Types, ThreadTypes
  <1>4. References'
    BY <1>2, ReferencesKept
  <1>5. Sends'
    <2>1. \A c \in Context : IsOut(c)' <=> IsOut(c)
      BY <1>1 DEF IsOut
    <2> QED BY <1>1, <2>1, SendsKept DEF IInv, Sends
  <1>6. GetContiguiousBytes(mSendBuffer) > 0 =>
           /\ GetContiguiousBytes(mSendBuffer') >= GetContiguiousBytes(mSendBuffer)
           /\ GetContiguiousBytes(mSendBuffer') \in Int
           /\ GetBufferStart(mSendBuffer') = GetBufferStart(mSendBuffer)
    <2> SUFFICES ASSUME GetContiguiousBytes(mSendBuffer) > 0
                 PROVE  /\ GetContiguiousBytes(mSendBuffer') >= GetContiguiousBytes(mSendBuffer)
                        /\ GetContiguiousBytes(mSendBuffer') \in Int
                        /\ GetBufferStart(mSendBuffer') = GetBufferStart(mSendBuffer)
      OBVIOUS
    <2>1. /\ mSendBuffer.mARegionSize > 0 /\ GetContiguiousBytes(mSendBuffer) = mSendBuffer.mARegionSize
          /\ GetBufferStart(mSendBuffer) = mSendBuffer.mARegionPointer
      BY SendBufferFacts, OldestBytes
    <2>2. mSendBuffer.mARegionSize \in Int /\ mSendBuffer'.mARegionSize \in Int
      BY SendBufferFacts DEF Buffers
    <2> QED BY <2>1, <2>2 DEF GetContiguiousBytes, GetBufferStart
  <1>7. \A c \in pending' : context'[c].ioType = "IO_SEND" =>
           /\ context'[c].buf = GetBufferStart(mSendBuffer')
           /\ context'[c].len <= GetContiguiousBytes(mSendBuffer')
    <2> SUFFICES ASSUME NEW c \in pending, context[c].ioType = "IO_SEND"
                 PROVE  /\ context[c].buf = GetBufferStart(mSendBuffer')
                        /\ context[c].len <= GetContiguiousBytes(mSendBuffer')
      OBVIOUS
    <2>1. /\ context[c].len \in 1 .. SEND_BUFFER_SIZE
          /\ context[c].buf = GetBufferStart(mSendBuffer)
          /\ context[c].len <= GetContiguiousBytes(mSendBuffer)
      BY ContextFacts DEF IInv, Types, Stream
    <2> QED BY <1>6, <2>1, SendBufferFacts
  <1>8. \A w \in Workers : Sent(w) =>
           /\ thread[w].transferred \in 1 .. GetContiguiousBytes(mSendBuffer')
           /\ thread[w].transferred \in 0 .. Len(Contents(mSendBuffer))
    <2> SUFFICES ASSUME NEW w \in Workers, Sent(w)
                 PROVE  /\ thread[w].transferred \in 1 .. GetContiguiousBytes(mSendBuffer')
                        /\ thread[w].transferred \in 0 .. Len(Contents(mSendBuffer))
      OBVIOUS
    <2>1. thread[w].transferred \in 1 .. GetContiguiousBytes(mSendBuffer)
      BY DEF IInv, Stream
    <2> QED BY <1>6, <2>1, SendBufferFacts
  <1>9. \A rest \in Seq(0 .. MAX_BYTES) :
           delivered \o rest = Numbered(posted) => delivered \o (rest \o data) = Numbered(posted')
    <2>1. delivered \in Seq(0 .. MAX_BYTES) /\ data \in Seq(0 .. MAX_BYTES)
      BY DEF IInv, Types
    <2>2. \A rest \in Seq(0 .. MAX_BYTES) : \A old, new :
             Joined(delivered, rest, old) /\ Joined(old, data, new) => Joined(delivered, rest \o data, new)
      BY <2>1, StreamGrows
    <2>3. Joined(Numbered(posted), data, Numbered(posted'))
      BY DEF Joined
    <2>4. \A rest \in Seq(0 .. MAX_BYTES) :
             Joined(delivered, rest, Numbered(posted)) => Joined(delivered, rest \o data, Numbered(posted'))
      BY <2>2, <2>3
    <2> QED BY <2>4 DEF Joined
  <1>10. (\A w \in Workers : ~Sent(w)) => delivered \o Contents(mSendBuffer') = Numbered(posted')
    BY <1>9, SendBufferFacts DEF IInv, Stream
  <1>11. ASSUME NEW w \in Workers, Sent(w)
         PROVE  delivered \o SubSeq(Contents(mSendBuffer'), thread[w].transferred + 1,
                                    Len(Contents(mSendBuffer'))) = Numbered(posted')
    <2> DEFINE kept == Contents(mSendBuffer)
               n == thread[w].transferred
               rest == SubSeq(kept, n + 1, Len(kept))
    <2>1. kept \in Seq(0 .. MAX_BYTES) /\ n \in 0 .. Len(kept)
      BY <1>8, <1>11, SendBufferFacts
    <2>2. delivered \o rest = Numbered(posted)
      BY <1>11 DEF IInv, Stream
    <2> HIDE DEF kept, n
    <2>3. rest \in Seq(0 .. MAX_BYTES)
      BY <2>1, RestSplit
    <2>4. SubSeq(kept \o data, n + 1, Len(kept \o data)) = rest \o data
      BY <2>1, RestAppended
    <2>5. delivered \o (rest \o data) = Numbered(posted')
      BY <1>9, <2>2, <2>3
    <2> HIDE DEF rest
    <2>6. delivered \o SubSeq(kept \o data, n + 1, Len(kept \o data)) = Numbered(posted')
      BY <2>4, <2>5
    <2> QED BY <2>6 DEF kept, n
  <1>12. Stream'
    BY <1>1, <1>7, <1>8, <1>10, <1>11 DEF Stream, Sent
  <1> QED BY <1>3, <1>4, <1>5, <1>12 DEF IInv

LEMMA PostSendOK ==
    ASSUME IInv, NEW t \in Callers, NEW len \in Lengths, PostSend(t, len)
    PROVE  IInv'
  <1> DEFINE data == [k \in 1 .. len |-> posted + k]
  <1>0. len \in Nat /\ posted \in Nat /\ posted + len <= MAX_BYTES /\ MAX_BYTES \in Nat
    BY SessionAssumption DEF PostSend, IInv, Types
  <1>1. /\ Becomes(t, Idle)
        /\ UNCHANGED <<mConnected, mRefCount, mSendPendingCount, context, pending, delivered>>
    BY DEF PostSend
  <1>2. CASE GetFreeSpaceSize(mSendBuffer) < len
    <2>1. mSendBuffer' = WithFreeSpace(mSendBuffer) /\ posted' = posted
      BY <1>2 DEF PostSend
    <2>2. /\ mSendBuffer' \in Buffers(0 .. MAX_BYTES, SEND_BUFFER_SIZE) /\ Apart(mSendBuffer')
          /\ mSendBuffer'.mARegionPointer = mSendBuffer.mARegionPointer
          /\ mSendBuffer'.mARegionSize = mSendBuffer.mARegionSize
      BY <2>1, SendBufferFacts, WithFreeSpaceFields
    <2>3. mSendBuffer'.mARegionSize >= mSendBuffer.mARegionSize
      BY <2>2, SendBufferFacts DEF Buffers
    <2>4. Contents(mSendBuffer') = Contents(mSendBuffer) \o <<>>
      BY <2>1, SendBufferFacts, WithFreeSpaceContents, ConcatEmptySeq
    <2>5. Numbered(posted) \o <<>> = Numbered(posted')
      BY <1>0, <2>1, NumberedGrows, ConcatEmptySeq
    <2>6. <<>> \in Seq(0 .. MAX_BYTES) /\ posted' \in 0 .. MAX_BYTES
      BY <2>1 DEF IInv, Types
    <2> QED BY <1>1, <2>2, <2>3, <2>4, <2>5, <2>6, BufferGrows
  <1>3. CASE ~(GetFreeSpaceSize(mSendBuffer) < len)
    <2>1. mSendBuffer' = Append_(mSendBuffer, data) /\ posted' = posted + len
      BY <1>3 DEF PostSend
    <2>2. /\ data \in Seq(1 .. posted + len) /\ Len(data) = len
          /\ Numbered(posted) \o data = Numbered(posted + len)
      BY <1>0, NumberedGrows
    <2> HIDE DEF data
    <2>3. data \in Seq(0 .. MAX_BYTES)
      <3>1. 1 .. posted + len \subseteq 0 .. MAX_BYTES
        BY <1>0
      <3> QED BY <2>2, <3>1, SeqMonotonic
    <2>4. Len(data) <= GetFreeSpaceSize(mSendBuffer)
      <3>1. GetFreeSpaceSize(mSendBuffer) \in Int
        BY SendBufferFacts
           DEF GetFreeSpaceSize, WithFreeSpace, AllocateB, GetBFreeSpace, GetAFreeSpace,
               GetSpaceBeforeA, Buffers, nullptr
      <3> QED BY <1>0, <1>3, <2>2, <3>1
    <2>5. /\ mSendBuffer' \in Buffers(0 .. MAX_BYTES, SEND_BUFFER_SIZE) /\ Apart(mSendBuffer')
      BY <2>1, <2>3, <2>4, SendBufferFacts, AppendApart
    <2>6. /\ mSendBuffer'.mARegionPointer = mSendBuffer.mARegionPointer
          /\ mSendBuffer'.mARegionSize \in {mSendBuffer.mARegionSize, mSendBuffer.mARegionSize + Len(data)}
      BY <2>1, <2>3, <2>4, SendBufferFacts, AppendFields
    <2>7. mSendBuffer'.mARegionSize >= mSendBuffer.mARegionSize
      <3>1. mSendBuffer.mARegionSize \in Int
        BY SendBufferFacts DEF Buffers
      <3> QED BY <1>0, <2>2, <2>6, <3>1
    <2>8. Contents(mSendBuffer') = Contents(mSendBuffer) \o data
      BY <2>1, <2>3, <2>4, SendBufferFacts, AppendContents
    <2>9. posted' \in 0 .. MAX_BYTES
      BY <1>0, <2>1
    <2> QED BY <1>1, <2>1, <2>2, <2>3, <2>5, <2>6, <2>7, <2>8, <2>9, BufferGrows
  <1> QED BY <1>2, <1>3

-----------------------------------------------------------------------------
(***************************************************************************)
(* A worker takes a context from the completion port into its hand.        *)
(***************************************************************************)
LEMMA TakesInHand ==
    ASSUME IInv, NEW w \in Workers, thread[w] = Idle, NEW c \in pending,
           NEW s \in WorkerStates, s.at # "idle", s.context = c, Becomes(w, s),
           pending' = pending \ {c}, context' = context, mRefCount' = mRefCount,
           mConnected' = mConnected
    PROVE  /\ References' /\ ThreadTypes' /\ c \in Context
           /\ thread'[w] = s /\ \A v \in Workers : v # w => thread'[v] = thread[v]
           /\ thread[w].at = "idle"
  <1>1. /\ ThreadTypes' /\ thread'[w] = s
        /\ \A v \in Workers : v # w => thread'[v] = thread[v]
    BY WorkerMoves DEF Becomes, IInv
  <1>2. c \in Context /\ thread[w].at = "idle"
    BY DEF IInv, Types, Idle
  <1>3. \A v \in Workers : \A d \in Context :
           Holds(v, d)' <=> IF v = w THEN d = c ELSE Holds(v, d)
    BY <1>1, <1>2 DEF Holds
  <1>4. \A d \in Context : (IsOperation(d)' <=> IsOperation(d)) /\ (IsLeft(d)' <=> IsLeft(d))
    BY DEF IsOperation, IsLeft
  <1>5. pending' \subseteq Context /\ pending \subseteq Context /\ Used' = Used
    BY DEF IInv, Types, Used
  <1>6. \A v \in Workers : \A d \in Context : Holds(v, d) => d # c
    BY DEF IInv, References
  <1>7. /\ \A d \in pending' : IsOperation(d)'
        /\ \A v \in Workers : \A d \in Context : Holds(v, d)' => d \notin pending' /\ IsOperation(d)'
    BY <1>3, <1>4, <1>5 DEF IInv, References
  <1>8. \A u, v \in Workers : \A d \in Context : Holds(u, d)' /\ Holds(v, d)' => u = v
    BY <1>3, <1>6 DEF IInv, References
  <1>9. \A d \in Context : IsOperation(d)' => d \in pending' \/ \E v \in Workers : Holds(v, d)'
    <2> SUFFICES ASSUME NEW d \in Context, IsOperation(d), d \notin pending'
                 PROVE  \E v \in Workers : Holds(v, d)'
      BY <1>4
    <2>1. CASE d = c
      BY <1>3, <2>1
    <2>2. CASE d # c
      <3>1. PICK v \in Workers : Holds(v, d)
        BY <2>2 DEF IInv, References
      <3>2. v # w
        BY <1>2, <3>1 DEF Holds
      <3> QED BY <1>3, <3>1, <3>2
    <2> QED BY <2>1, <2>2
  <1>10. References'
    BY <1>4, <1>5, <1>7, <1>8, <1>9 DEF IInv, References
  <1> QED BY <1>1, <1>2, <1>10

LEMMA DequeueRecvOK ==
    ASSUME IInv, NEW w \in Workers, NEW c \in Context, DequeueRecv(w, c)
    PROVE  IInv'
  <1> DEFINE at == IF context[c].ioType = "IO_RECV" THEN "closing" ELSE "prerecv"
             s == [at |-> at, context |-> c]
  <1>1. /\ thread[w] = Idle /\ c \in pending /\ context[c].ioType \in {"IO_RECV", "IO_RECV_ZERO"}
        /\ pending' = pending \ {c} /\ Becomes(w, s)
        /\ UNCHANGED <<mConnected, mRefCount, mSendPendingCount, mSendBuffer, context,
                       posted, delivered>>
    BY DEF DequeueRecv
  <1>2. s \in WorkerStates /\ s.at \in {"closing", "prerecv"} /\ s.context = c
    BY DEF WorkerStates
  <1> HIDE DEF s
  <1>3. /\ References' /\ ThreadTypes' /\ thread[w].at = "idle"
        /\ thread'[w] = s /\ \A v \in Workers : v # w => thread'[v] = thread[v]
    BY <1>1, <1>2, TakesInHand
  <1>4. Types'
    BY <1>1, <1>3 DEF IInv, Types, ThreadTypes
  <1>5. \A d \in Context : IsOut(d)' <=> IsOut(d)
    BY <1>1, <1>2, <1>3 DEF IsOut
  <1>6. Sends'
    <2>1. \A v \in Workers : thread[v].at = "closing" => thread'[v].at = "closing"
      BY <1>3
    <2>2. \A v \in Workers : thread'[v].at = "sent" =>
             thread[v].at = "sent" /\ context'[thread'[v].context].ioType = "IO_SEND"
      BY <1>1, <1>2, <1>3 DEF IInv, Sends
    <2> QED BY <1>1, <1>5, <2>1, <2>2, SendsKept
  <1>7. Stream'
    <2>1. \A d \in pending' : context'[d].ioType = "IO_SEND" => d \in pending /\ context'[d] = context[d]
      BY <1>1
    <2>2. \A v \in Workers : (Sent(v)' <=> Sent(v))
                             /\ (Sent(v) => thread'[v].transferred = thread[v].transferred)
      BY <1>2, <1>3 DEF Sent
    <2> QED BY <1>1, <2>1, <2>2, StreamStays
  <1> QED BY <1>3, <1>4, <1>6, <1>7 DEF IInv

LEMMA DequeueSendOK ==
    ASSUME IInv, NEW w \in Workers, NEW c \in Context, NEW n \in 0 .. SEND_BUFFER_SIZE,
           DequeueSend(w, c, n)
    PROVE  IInv'
  <1> DEFINE s == [at |-> IF n = 0 THEN "closing" ELSE "sent", context |-> c, transferred |-> n]
             kept == Contents(mSendBuffer)
             gone == SubSeq(kept, 1, n)
             rest == SubSeq(kept, n + 1, Len(kept))
  <1>1. /\ thread[w] = Idle /\ c \in pending /\ context[c].ioType = "IO_SEND"
        /\ n \in 0 .. context[c].len /\ pending' = pending \ {c} /\ Becomes(w, s)
        /\ delivered' = delivered \o BytesAt(mSendBuffer, context[c].buf, n)
        /\ UNCHANGED <<mConnected, mRefCount, mSendPendingCount, mSendBuffer, context, posted>>
    BY DEF DequeueSend
  <1>2. /\ s \in WorkerStates /\ s.at = (IF n = 0 THEN "closing" ELSE "sent")
        /\ s.context = c /\ s.transferred = n /\ s.at # "idle"
    BY DEF WorkerStates
  <1> HIDE DEF s
  <1>3. /\ References' /\ ThreadTypes' /\ thread[w].at = "idle"
        /\ thread'[w] = s /\ \A v \in Workers : v # w => thread'[v] = thread[v]
    BY <1>1, <1>2, TakesInHand
  <1>4. IsOut(c)
    BY <1>1 DEF IsOut
  <1>5. /\ \A d \in Context : IsOut(d) => d = c
        /\ mSendPendingCount # 0
    BY <1>4 DEF IInv, Sends
  <1>6. \A v \in Workers : ~Sent(v)
    <2> SUFFICES ASSUME NEW v \in Workers, Sent(v) PROVE FALSE
      OBVIOUS
    <2>1. thread[v].at = "sent" /\ thread[v].context \in Context
      BY WorkerFacts DEF Sent, IInv
    <2>2. thread[v].context = c
      BY <1>5, <2>1 DEF IsOut
    <2>3. Holds(v, c)
      BY <2>1, <2>2 DEF Holds
    <2> QED BY <1>1, <2>3 DEF IInv, References
  <1>7. /\ n \in 0 .. GetContiguiousBytes(mSendBuffer) /\ n \in 0 .. Len(kept)
        /\ context[c].buf = GetBufferStart(mSendBuffer) /\ kept \in Seq(0 .. MAX_BYTES)
    <2>1. /\ context[c].buf = GetBufferStart(mSendBuffer)
          /\ context[c].len <= GetContiguiousBytes(mSendBuffer)
          /\ context[c].len \in 1 .. SEND_BUFFER_SIZE
      BY <1>1, ContextFacts DEF IInv, Stream
    <2> QED BY <1>1, <2>1, SendBufferFacts
  <1>8. delivered' = delivered \o gone
    BY <1>1, <1>7, SendBufferFacts, BytesTransferred
  <1>9. gone \in Seq(0 .. MAX_BYTES) /\ rest \in Seq(0 .. MAX_BYTES) /\ gone \o rest = kept
    BY <1>7, RestSplit
  <1>10. delivered \in Seq(0 .. MAX_BYTES) /\ delivered \o kept = Numbered(posted)
    BY <1>6 DEF IInv, Types, Stream
  <1>11. delivered' \o rest = Numbered(posted) /\ delivered' \in Seq(0 .. MAX_BYTES)
    <2> HIDE DEF gone, rest, kept
    <2> DEFINE Byte == 0 .. MAX_BYTES
    <2>0. delivered \in Seq(Byte) /\ gone \in Seq(Byte) /\ rest \in Seq(Byte)
      BY <1>9, <1>10
    <2> HIDE DEF Byte
    <2>1. (delivered \o gone) \o rest = delivered \o (gone \o rest)
      BY <2>0, ConcatAssociative
    <2> QED BY <1>8, <1>9, <1>10, <2>1, ConcatProperties
  <1>12. Types'
    BY <1>1, <1>3, <1>11 DEF IInv, Types, ThreadTypes
  <1>13. \A d \in Context : IsOut(d)' <=> n # 0 /\ d = c
    <2>1. \A d \in pending' : context'[d].ioType # "IO_SEND"
      BY <1>1, <1>5 DEF IsOut, IInv, Types
    <2> QED BY <1>2, <1>3, <1>6, <2>1 DEF IsOut, Sent
  <1>14. Sends'
    <2>1. \A v \in Workers : thread'[v].at = "sent" => context'[thread'[v].context].ioType = "IO_SEND"
      BY <1>1, <1>2, <1>3, <1>6 DEF Sent
    <2>2. n = 0 => thread'[w].at = "closing"
      BY <1>2, <1>3
    <2> QED BY <1>1, <1>5, <1>13, <2>1, <2>2 DEF Sends
  <1>15. Stream'
    <2>1. \A d \in pending' : context'[d].ioType # "IO_SEND"
      BY <1>1, <1>5 DEF IsOut, IInv, Types
    <2>2. \A v \in Workers : Sent(v)' <=> v = w /\ n # 0
      BY <1>2, <1>3, <1>6 DEF Sent
    <2>3. n # 0 => n \in 1 .. GetContiguiousBytes(mSendBuffer)
      BY <1>7
    <2>4. n = 0 => delivered' \o kept = Numbered(posted)
      <3> SUFFICES ASSUME n = 0 PROVE rest = kept
        BY <1>11
      <3>1. rest = SubSeq(kept, 1, Len(kept))
        OBVIOUS
      <3> HIDE DEF kept, rest
      <3> QED BY <1>7, <3>1, SubSeqFull
    <2>5. thread'[w].transferred = n
      BY <1>2, <1>3
    <2>6. (\A v \in Workers : ~Sent(v)') => delivered' \o Contents(mSendBuffer') = Numbered(posted')
      BY <1>1, <2>2, <2>4
    <2>7. \A v \in Workers : Sent(v)' =>
             /\ thread'[v].transferred \in 1 .. GetContiguiousBytes(mSendBuffer')
             /\ delivered' \o SubSeq(Contents(mSendBuffer'), thread'[v].transferred + 1,
                                     Len(Contents(mSendBuffer'))) = Numbered(posted')
      BY <1>1, <1>11, <2>2, <2>3, <2>5
    <2>8. Apart(mSendBuffer')
      BY <1>1, SendBufferFacts
    <2> QED BY <2>1, <2>6, <2>7, <2>8 DEF Stream
  <1> QED BY <1>3, <1>12, <1>14, <1>15 DEF IInv

LEMMA SendCompletionOK ==
    ASSUME IInv, NEW w \in Workers, SendCompletion(w)
    PROVE  IInv'
  <1> DEFINE kept == Contents(mSendBuffer)
             rest(m) == SubSeq(kept, m + 1, Len(kept))
  <1>0. PICK n, c : n = thread[w].transferred /\ c = thread[w].context
    OBVIOUS
  <1>1. /\ thread[w].at = "sent" /\ mSendBuffer' = Remove(mSendBuffer, n)
        /\ mSendPendingCount' = mSendPendingCount - 1
        /\ UNCHANGED <<mConnected, mRefCount, context, pending, posted, delivered>>
    BY <1>0 DEF SendCompletion
  <1>2. PICK at \in {"closing", "prerecv"} : Goes(w, at)
    BY DEF SendCompletion
  <1>3. /\ ThreadTypes' /\ thread'[w].at = at /\ thread'[w].context = thread[w].context
        /\ \A v \in Workers : v # w => thread'[v] = thread[v]
    BY <1>1, <1>2, WorkerGoes DEF IInv
  <1>4. SameHolders
    BY <1>1, <1>3 DEF SameHolders, Holds
  <1>5. References'
    BY <1>1, <1>4, ReferencesKept
  <1>6. IsOut(c) /\ c \in Context
    BY <1>0, <1>1, WorkerFacts DEF IsOut, IInv
  <1>7. /\ \A d \in Context : IsOut(d) => d = c
        /\ mSendPendingCount = 1
    BY <1>6 DEF IInv, Types, Sends
  <1>8. \A v \in Workers : v # w => ~Sent(v)
    <2> SUFFICES ASSUME NEW v \in Workers, Sent(v) PROVE v = w
      OBVIOUS
    <2>1. thread[v].at = "sent" /\ thread[v].context \in Context
      BY WorkerFacts DEF Sent, IInv
    <2>2. thread[v].context = c
      BY <1>7, <2>1 DEF IsOut
    <2>3. Holds(v, c) /\ Holds(w, c)
      BY <1>0, <1>1, <2>1, <2>2 DEF Holds
    <2> QED BY <1>6, <2>3 DEF IInv, References
  <1>9. \A d \in pending : context[d].ioType # "IO_SEND"
    <2> SUFFICES ASSUME NEW d \in pending, context[d].ioType = "IO_SEND" PROVE FALSE
      OBVIOUS
    <2>1. d = c
      BY <1>7 DEF IsOut, IInv, Types
    <2>2. Holds(w, c)
      BY <1>0, <1>1 DEF Holds
    <2> QED BY <1>6, <2>1, <2>2 DEF IInv, References
  <1>10. \A d \in Context : ~IsOut(d)'
    BY <1>1, <1>3, <1>8, <1>9 DEF IsOut, Sent
  <1>11. Sends'
    <2>1. \A v \in Workers : thread'[v].at # "sent"
      BY <1>3, <1>8 DEF Sent
    <2> QED BY <1>1, <1>7, <1>10, <2>1 DEF Sends
  <1>12. n \in Nat /\ n \in 0 .. Len(kept) /\ kept \in Seq(0 .. MAX_BYTES) /\ Len(kept) \in Nat
    <2>1. n \in 1 .. GetContiguiousBytes(mSendBuffer)
      BY <1>0, <1>1 DEF IInv, Stream, Sent
    <2> QED BY <2>1, SendBufferFacts
  <1>13. /\ mSendBuffer' \in Buffers(0 .. MAX_BYTES, SEND_BUFFER_SIZE) /\ Apart(mSendBuffer')
    BY <1>1, <1>12, SendBufferFacts, RemoveFields
  <1>14. Contents(mSendBuffer') = rest(n)
    <2>1. Contents(mSendBuffer') = IF n >= Len(kept) THEN <<>> ELSE rest(n)
      BY <1>1, <1>12, SendBufferFacts, RemoveContents
    <2>2. n >= Len(kept) => rest(n) = <<>>
      BY <1>12, SubSeqEmpty
    <2> QED BY <2>1, <2>2
  <1>15. delivered \o rest(n) = Numbered(posted)
    BY <1>0, <1>1 DEF IInv, Stream, Sent
  <1>16. Types'
    BY <1>1, <1>3, <1>7, <1>13 DEF IInv, Types, ThreadTypes
  <1>17. Stream'
    <2>1. \A v \in Workers : ~Sent(v)'
      BY <1>3, <1>8 DEF Sent
    <2>2. delivered' \o Contents(mSendBuffer') = Numbered(posted')
      BY <1>1, <1>14, <1>15
    <2> QED BY <1>1, <1>9, <1>13, <2>1, <2>2 DEF Stream
  <1> QED BY <1>5, <1>11, <1>16, <1>17 DEF IInv

LEMMA EndOfJobOK ==
    ASSUME IInv, NEW w \in Workers, EndOfJob(w)
    PROVE  IInv'
  <1>0. PICK c : c = thread[w].context
    OBVIOUS
  <1>1. /\ thread[w].at = "deleting" /\ context' = [context EXCEPT ![c] = Free]
        /\ mRefCount' = mRefCount - 1 /\ thread' = [thread EXCEPT ![w] = Idle]
        /\ UNCHANGED <<mConnected, mSendPendingCount, mSendBuffer, pending, posted, delivered>>
    BY <1>0 DEF EndOfJob, DeleteIoContext, ReleaseRef, Becomes
  <1>2. c \in Context /\ Holds(w, c)
    BY <1>0, <1>1, WorkerFacts DEF IInv, Holds
  <1>3. /\ ThreadTypes' /\ thread'[w] = Idle
        /\ \A v \in Workers : v # w => thread'[v] = thread[v]
    <2>1. Idle \in WorkerStates
      BY DEF WorkerStates
    <2> QED BY <1>1, <2>1, WorkerMoves DEF IInv
  <1>4. /\ context' \in [Context -> Contexts] /\ context'[c] = Free
        /\ \A d \in Context : d # c => context'[d] = context[d]
    <2>1. Free \in Contexts
      BY DEF Contexts
    <2> QED BY <1>1, <1>2, <2>1, ContextSet DEF IInv
  <1>5. thread'[w].at = "idle" /\ context'[c].ioType = "free"
    BY <1>3, <1>4 DEF Idle, Free
  <1>6. c \notin pending /\ IsOperation(c) /\ \A v \in Workers : v # w => ~Holds(v, c)
    BY <1>2 DEF IInv, References
  <1>7. context[c] # Free
    BY <1>6 DEF IsOperation, Free
  <1>8. \A v \in Workers : \A d \in Context : Holds(v, d)' <=> v # w /\ Holds(v, d)
    BY <1>3, <1>5 DEF Holds
  <1>9. \A d \in Context : /\ IsOperation(d)' <=> d # c /\ IsOperation(d)
                           /\ IsLeft(d)' <=> IsLeft(d)
    BY <1>4, <1>5, <1>6 DEF IsOperation, IsLeft
  <1>10. References'
    <2>1. Used' = Used \ {c} /\ c \in Used
      BY <1>2, <1>4, <1>7 DEF Used
    <2>2. /\ Cardinality(Used') = Cardinality(Used) - 1
      BY <2>1, UsedFinite, FS_RemoveElement
    <2>3. mRefCount' = 1 + Cardinality(Used')
      BY <1>1, <2>2, UsedFinite DEF IInv, References
    <2>4. pending \subseteq Context
      BY DEF IInv, Types
    <2>5. /\ \A d \in pending' : IsOperation(d)'
          /\ \A v \in Workers : \A d \in Context : Holds(v, d)' => d \notin pending' /\ IsOperation(d)'
      BY <1>1, <1>6, <1>8, <1>9, <2>4 DEF IInv, References
    <2>6. ASSUME NEW d \in Context, IsOperation(d)'
          PROVE  d \in pending' \/ \E v \in Workers : Holds(v, d)'
      <3>1. d # c /\ IsOperation(d)
        BY <1>9, <2>6
      <3>2. CASE d \in pending
        BY <1>1, <3>2
      <3>3. ASSUME NEW v \in Workers, Holds(v, d) PROVE Holds(v, d)'
        <4>1. v # w
          BY <1>0, <3>1, <3>3 DEF Holds
        <4> QED BY <1>8, <3>3, <4>1
      <3> QED BY <3>1, <3>2, <3>3 DEF IInv, References
    <2>7. /\ \A u, v \in Workers : \A d \in Context : Holds(u, d)' /\ Holds(v, d)' => u = v
          /\ \A d, e \in Context : IsLeft(d)' /\ IsLeft(e)' => d = e /\ mConnected' = 0
      BY <1>1, <1>8, <1>9 DEF IInv, References
    <2> QED BY <2>3, <2>5, <2>6, <2>7 DEF References
  <1>11. Types'
    BY <1>1, <1>3, <1>4 DEF IInv, Types, ThreadTypes
  <1>12. \A v \in Workers : /\ thread'[v].at = "sent" <=> thread[v].at = "sent"
                            /\ thread[v].at = "sent" =>
                                  thread'[v] = thread[v] /\ thread[v].context # c
    BY <1>1, <1>3, <1>5, <1>6 DEF Holds
  <1>13. \A d \in Context : IsOut(d)' <=> IsOut(d)
    BY <1>1, <1>4, <1>6, <1>12 DEF IsOut
  <1>14. Sends'
    <2>1. \A v \in Workers : thread[v].at = "closing" => thread'[v].at = "closing"
      BY <1>1, <1>3
    <2>2. \A v \in Workers : thread'[v].at = "sent" =>
             thread[v].at = "sent" /\ context'[thread'[v].context].ioType = "IO_SEND"
      BY <1>4, <1>12, WorkerFacts DEF IInv, Sends
    <2> QED BY <1>1, <1>13, <2>1, <2>2, SendsKept
  <1>15. Stream'
    <2>1. \A d \in pending' : context'[d].ioType = "IO_SEND" => d \in pending /\ context'[d] = context[d]
      BY <1>1, <1>4, <1>6 DEF IInv, Types
    <2> QED BY <1>1, <1>12, <2>1, StreamStays DEF Sent
  <1> QED BY <1>10, <1>11, <1>14, <1>15 DEF IInv

-----------------------------------------------------------------------------
LEMMA NextOK == IInv /\ [Next]_vars => IInv'
  <1> SUFFICES ASSUME IInv, [Next]_vars PROVE IInv'
    OBVIOUS
  <1>1. ASSUME NEW t \in Callers, Calls(t) PROVE IInv'
    BY <1>1, CallOK, DisconnectsOK DEF Calls
  <1>2. ASSUME NEW t \in Callers, Returns(t) PROVE IInv'
    BY <1>2, CallerReceivesOK, PostSendOK, FlushSendRejectedOK, FlushSendOK, DisconnectsOK DEF Returns
  <1>3. ASSUME NEW w \in Workers, DoIocpJob(w) PROVE IInv'
    BY <1>3, DequeueRecvOK, DequeueSendOK, SendCompletionOK, PreReceiveCompletionOK,
       PreRecvAgainOK, CloseConnectionOK, EndOfJobOK
       DEF DoIocpJob, Dequeues, Handles
  <1>4. CASE UNCHANGED vars
    <2>1. /\ UNCHANGED <<mConnected, mRefCount, mSendPendingCount, mSendBuffer,
                         context, pending, posted, delivered>>
          /\ thread' = thread
      BY <1>4 DEF vars
    <2>2. SameHolders /\ ThreadTypes'
      BY <2>1 DEF SameHolders, Holds, ThreadTypes, IInv, Types
    <2> QED BY <2>1, <2>2, OnlyThread
  <1> QED BY <1>1, <1>2, <1>3, <1>4 DEF Next

LEMMA Inductive == Spec => []IInv
  BY InitOK, NextOK, PTL DEF Spec

-----------------------------------------------------------------------------
(***************************************************************************)
(* What the invariant says in the words of the Session module.             *)
(***************************************************************************)
LEMMA HandHolds ==
    ASSUME Types, NEW w \in Workers, NEW c
    PROVE  c \in InHand(w) <=> c \in Context /\ Holds(w, c)
  BY WorkerFacts DEF InHand, Holds

LEMMA AtMostOne ==
    ASSUME NEW S, \A c, d \in S : c = d
    PROVE  \/ S = {} /\ Cardinality(S) = 0
           \/ (\E c : c \in S) /\ Cardinality(S) = 1
  <1>1. CASE S = {}
    BY <1>1, FS_EmptySet
  <1>2. ASSUME NEW c \in S PROVE (\E d : d \in S) /\ Cardinality(S) = 1
    <2>1. S = {c}
      BY <1>2
    <2> QED BY <2>1, FS_Singleton
  <1> QED BY <1>1, <1>2

LEMMA ReferencesHold == IInv => ReferencesExact
  <1> SUFFICES ASSUME IInv PROVE ReferencesExact
    OBVIOUS
  <1> DEFINE held == UNION {InHand(w) : w \in Workers}
             left == {c \in Context : context[c].ioType = "IO_DISCONNECT"}
  <1>1. Types /\ References
    BY DEF IInv
  <1>2. \A c : c \in held <=> c \in Context /\ \E w \in Workers : Holds(w, c)
    BY <1>1, HandHolds
  <1>3. \A c : c \in left <=> c \in Context /\ IsLeft(c)
    BY DEF IsLeft
  <1>4. \A c \in Context : (c \in Used <=> IsOperation(c) \/ IsLeft(c)) /\ ~(IsOperation(c) /\ IsLeft(c))
    BY <1>1, ContextFacts DEF Used, IsOperation, IsLeft
  <1>5. pending \subseteq Context /\ Used \subseteq Context
    BY <1>1 DEF Types, Used
  <1>6. \A v, w \in Workers : v # w => InHand(v) \cap InHand(w) = {}
    BY <1>1, HandHolds DEF References
  <1>7. Cardinality(left) <= 1 - mConnected
    <2>1. \A c, d \in left : c = d /\ mConnected = 0
      BY <1>1, <1>3 DEF References
    <2>2. mConnected \in {0, 1}
      BY <1>1 DEF Types
    <2> HIDE DEF left
    <2>3. CASE left = {}
      BY <2>2, <2>3, FS_EmptySet
    <2>4. CASE left # {}
      <3>1. mConnected = 0
        BY <2>1, <2>4
      <3>2. Cardinality(left) = 1
        BY <2>1, <2>4, AtMostOne
      <3> QED BY <3>1, <3>2
    <2> QED BY <2>3, <2>4
  <1> HIDE DEF held, left
  <1>8. Used = pending \cup held \cup left
    BY <1>1, <1>2, <1>3, <1>4, <1>5 DEF References
  <1>9. pending \cap (held \cup left) = {} /\ held \cap left = {}
    BY <1>1, <1>2, <1>3, <1>4, <1>5 DEF References
  <1>10. mRefCount = 1 + Cardinality(Used)
    BY <1>1 DEF References
  <1> QED BY <1>6, <1>7, <1>8, <1>9, <1>10 DEF ReferencesExact, held, left, Used

LEMMA PendingHolds == IInv => PendingCountExact
  <1> SUFFICES ASSUME IInv PROVE PendingCountExact
    OBVIOUS
  <1>1. Types /\ Sends
    BY DEF IInv
  <1>2. \A c : c \in Outstanding <=> c \in Context /\ IsOut(c)
    <2>1. \A w \in Workers : \A c : thread[w].at = "sent" =>
             (c \in InHand(w) <=> c \in Context /\ thread[w].context = c)
      BY <1>1, HandHolds DEF Holds
    <2>2. pending \subseteq Context
      BY <1>1 DEF Types
    <2> QED BY <2>1, <2>2 DEF Outstanding, IsOut
  <1>3. \/ Outstanding = {} /\ Cardinality(Outstanding) = 0
        \/ (\E c : c \in Outstanding) /\ Cardinality(Outstanding) = 1
    <2>1. \A c, d \in Outstanding : c = d
      BY <1>1, <1>2 DEF Sends
    <2> QED BY <2>1, AtMostOne
  <1>4. mSendPendingCount \in {0, 1}
    BY <1>1 DEF Types
  <1>5. CASE mSendPendingCount = 0
    <2>1. Outstanding = {}
      BY <1>1, <1>2, <1>5 DEF Sends
    <2> QED BY <1>3, <1>5, <2>1 DEF PendingCountExact
  <1>6. CASE mSendPendingCount = 1 /\ \E c \in Context : IsOut(c)
    BY <1>2, <1>3, <1>6 DEF PendingCountExact
  <1>7. CASE mSendPendingCount = 1 /\ \A c \in Context : ~IsOut(c)
    <2>1. Outstanding = {}
      BY <1>2, <1>7
    <2>2. mConnected = 0 \/ \E w \in Workers : thread[w].at = "closing"
      BY <1>1, <1>7 DEF Sends
    <2> QED BY <1>7, <2>1, <2>2 DEF PendingCountExact
  <1> QED BY <1>4, <1>5, <1>6, <1>7

LEMMA StreamHolds == IInv => StreamKept
  <1> SUFFICES ASSUME IInv PROVE StreamKept
    OBVIOUS
  <1> DEFINE done == {w \in Workers : thread[w].at = "sent"}
             kept == Contents(mSendBuffer)
             rest == IF done = {} THEN kept
                     ELSE SubSeq(kept, thread[CHOOSE w \in done : TRUE].transferred + 1, Len(kept))
  <1>1. CASE done = {}
    <2>1. \A w \in Workers : ~Sent(w)
      BY <1>1 DEF Sent
    <2> QED BY <1>1, <2>1 DEF IInv, Stream, StreamKept, Numbered
  <1>2. CASE done # {}
    <2>1. PICK w : w = CHOOSE v \in done : TRUE
      OBVIOUS
    <2>2. w \in Workers /\ Sent(w)
      BY <1>2, <2>1 DEF Sent
    <2>3. delivered \o SubSeq(kept, thread[w].transferred + 1, Len(kept)) = Numbered(posted)
      BY <2>2 DEF IInv, Stream
    <2>4. rest = SubSeq(kept, thread[w].transferred + 1, Len(kept))
      BY <1>2, <2>1
    <2>5. delivered \o rest = Numbered(posted)
      BY <2>3, <2>4
    <2> QED BY <2>5 DEF StreamKept, Numbered
  <1> QED BY <1>1, <1>2

\* The bytes delivered are a part of those posted.
LEMMA DeliveredBound == IInv => Len(delivered) <= posted
  <1> SUFFICES ASSUME IInv PROVE Len(delivered) <= posted
    OBVIOUS
  <1> DEFINE s == Contents(mSendBuffer)
  <1>1. s \in Seq(0 .. MAX_BYTES) /\ Len(s) \in Nat /\ GetContiguiousBytes(mSendBuffer) <= Len(s)
        /\ GetContiguiousBytes(mSendBuffer) \in 0 .. SEND_BUFFER_SIZE /\ SEND_BUFFER_SIZE \in Nat
    BY SendBufferFacts
  <1>2. delivered \in Seq(0 .. MAX_BYTES) /\ posted \in Nat
    BY SessionAssumption DEF IInv, Types
  <1>3. PICK r \in Seq(0 .. MAX_BYTES) : Joined(delivered, r, Numbered(posted))
    <2>1. CASE \A w \in Workers : ~Sent(w)
      <3>1. Joined(delivered, s, Numbered(posted))
        BY <2>1 DEF IInv, Stream, Joined
      <3> QED BY <1>1, <3>1
    <2>2. ASSUME NEW w \in Workers, Sent(w)
          PROVE  \E r \in Seq(0 .. MAX_BYTES) : Joined(delivered, r, Numbered(posted))
      <3>1. thread[w].transferred \in 1 .. GetContiguiousBytes(mSendBuffer)
        BY <2>2 DEF IInv, Stream
      <3>2. thread[w].transferred \in 0 .. Len(s)
        BY <1>1, <3>1
      <3>3. SubSeq(s, thread[w].transferred + 1, Len(s)) \in Seq(0 .. MAX_BYTES)
        BY <1>1, <3>2, RestSplit
      <3>4. Joined(delivered, SubSeq(s, thread[w].transferred + 1, Len(s)), Numbered(posted))
        BY <2>2 DEF IInv, Stream, Joined
      <3> QED BY <3>3, <3>4
    <2> QED BY <2>1, <2>2
  <1> HIDE DEF s
  <1>4. Len(delivered) \in Nat /\ Len(r) \in Nat /\ Len(delivered \o r) = Len(delivered) + Len(r)
    BY <1>2, LenProperties, ConcatProperties
  <1>5. Len(Numbered(posted)) = posted
    BY <1>2 DEF Numbered
  <1>6. Len(delivered) + Len(r) = posted
    BY <1>3, <1>4, <1>5 DEF Joined
  <1> QED BY <1>2, <1>4, <1>6

LEMMA TypesHold == IInv => TypeOK
  <1> SUFFICES ASSUME IInv PROVE TypeOK
    OBVIOUS
  <1>1. Types /\ References
    BY DEF IInv
  <1>2. mRefCount \in 1 .. Cardinality(Context) + 1
    <2>1. Cardinality(Used) \in Nat /\ Cardinality(Used) <= Cardinality(Context)
      BY UsedFinite, FS_Subset, SessionAssumption DEF Used
    <2>2. Cardinality(Context) \in Nat
      BY FS_CardinalityType, SessionAssumption
    <2> QED BY <1>1, <2>1, <2>2 DEF References
  <1>3. \A w \in Workers : thread[w] = Idle
           \/ thread[w].at \in {"sent", "prerecv", "receiving", "closing", "deleting"}
    BY <1>1, WorkerFacts
  <1> QED BY <1>1, <1>2, <1>3, DeliveredBound DEF Types, TypeOK, CallerStates

-----------------------------------------------------------------------------
\* The variables of a session keep their types; above all the count of
\* references never falls below the owner's own, however its methods and
\* the completions of its operations interleave.
THEOREM SessionTypes == Spec => []TypeOK
  BY Inductive, TypesHold, PTL

\* Every context in use is with the completion port, in the hands of one
\* worker or left behind by a disconnect, and holds one reference: none is
\* deleted while an operation uses it, none is deleted twice.
THEOREM ReferencesAreExact == Spec => []ReferencesExact
  BY Inductive, ReferencesHold, PTL

\* FlushSend never starts a send while another is outstanding, and
\* mSendPendingCount is wrong only about a session that is disconnected or
\* about to be.
THEOREM OneSendAtATime == Spec => []PendingCountExact
  BY Inductive, PendingHolds, PTL

\* The network takes the bytes posted in order, each once, through partial
\* sends, and those not yet taken stay in the send buffer.
THEOREM StreamIsKept == Spec => []StreamKept
  BY Inductive, StreamHolds, PTL
=============================================================================
