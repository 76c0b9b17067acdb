-------------------------- MODULE EchoServerProofs --------------------------
(***************************************************************************)
(* The echo server for any sets of workers and callers and every size of   *)
(* the buffer: none of its assertions fails, a connection ends once, the   *)
(* session outlives its operations, its buffer and its operations stay in  *)
(* bounds, and the echo is what arrived until receives overlap.            *)
(***************************************************************************)
EXTENDS EchoServer, CircularBufferProofs, FiniteSetTheorems

WorkerAts == {"IO_ACCEPT", "IO_DISCONNECT", "configuring", "received", "sending", "postsend",
              "sent", "receiving", "prerecv", "closing"}

IoContexts == [ioType : {"IO_ACCEPT", "IO_RECV", "IO_SEND", "IO_DISCONNECT"},
               buf : -1 .. BUFSIZE, len : 0 .. BUFSIZE]

ThreadStates == [at : WorkerAts \cup {"idle", "postrecv"}, context : Nat,
                 transferred : 0 .. BUFSIZE]

\* The contexts that were made.
Made == 1 .. Len(context)

ThreadTypes ==
    /\ thread \in [Threads -> ThreadStates]
    /\ \A t \in Callers : thread[t].at \in {"idle", "postrecv"}
    /\ \A w \in Workers :
          thread[w] = Idle \/ (thread[w].at \in WorkerAts /\ thread[w].context \in Made)

Early == {"initialising", "starting", "listening", "accepting"}

Ends == {"up", "exited", "fault", "overrun"}

Types ==
    /\ mConnected \in {0, 1} /\ mRefCount \in Int
    /\ context \in Seq(IoContexts) /\ pending \subseteq Made
    /\ ThreadTypes
    /\ main \in Early \cup {"owning"} /\ process \in Ends
    /\ running \subseteq Workers /\ free \in BOOLEAN

Accept(c) == context[c].ioType = "IO_ACCEPT"
Disc(c) == context[c].ioType = "IO_DISCONNECT"

Holds(w, c) == thread[w].at # "idle" /\ thread[w].context = c

\* A context that is not pending any more is in the hands of one worker at most.
Hands ==
    /\ \A w \in Workers : \A c \in Made : Holds(w, c) => c \notin pending
    /\ \A v, w \in Workers : \A c \in Made : Holds(v, c) /\ Holds(w, c) => v = w
    /\ \A w \in Workers : \A c \in Made :
          Holds(w, c) => /\ thread[w].at = "IO_ACCEPT" => Accept(c)
                         /\ Disc(c) <=> thread[w].at = "IO_DISCONNECT"

\* The accept has not completed.
Accepting ==
    \/ context = <<>>
    \/ 1 \in pending
    \/ \E w \in Workers : thread[w].at = "IO_ACCEPT"

\* One accept, then at most one disconnection.
Connection ==
    /\ context # <<>> => main \in {"accepting", "owning"} /\ ~free
    /\ main = "owning" => context # <<>>
    /\ \A t \in Threads : thread[t].at # "idle" => context # <<>>
    /\ \A c \in Made : Accept(c) <=> c = 1
    /\ Accepting => mConnected = 0 /\ \A c \in Made : ~Disc(c)
    /\ ~Accepting => mConnected = 1 \/ \E c \in Made : Disc(c)
    /\ \A c, d \in Made : Disc(c) /\ Disc(d) => c = d /\ mConnected = 0

\* The disconnection has completed.
Ended == \E c \in Made : Disc(c) /\ c \notin pending /\ \A w \in Workers : ~Holds(w, c)

\* The owner of the session has taken its reference.
Owned == context # <<>> /\ main # "owning"

Counted == mRefCount = Len(context) + (IF Owned THEN 1 ELSE 0) - (IF Ended THEN 1 ELSE 0)

LInv == Types /\ Hands /\ Connection /\ Counted

-----------------------------------------------------------------------------
(***************************************************************************)
(* The data, whatever receives are posted: the buffer and the operations   *)
(* stay inside the array.                                                  *)
(***************************************************************************)
DataTypes ==
    /\ mBuffer \in Buffers(0 .. MAX_BYTES, BUFSIZE)
    /\ arrived \in 0 .. MAX_BYTES /\ echoed \in Seq(0 .. MAX_BYTES)
    /\ overlapped \in BOOLEAN

Inside(c) ==
    /\ context[c].buf = nullptr => context[c].len = 0
    /\ context[c].buf # nullptr => context[c].buf + context[c].len <= BUFSIZE

Placed == DataTypes /\ Apart(mBuffer) /\ \A c \in Made : Inside(c)

(***************************************************************************)
(* The data before receives overlap: one receive or send at a time.        *)
(***************************************************************************)

DataAts == {"postrecv", "received", "sending", "postsend", "sent"}

IsData(c) == c \in pending /\ context[c].buf # nullptr

OneEcho ==
    /\ \A c, d \in Made : IsData(c) /\ IsData(d) => c = d
    /\ \A s, t \in Threads : thread[s].at \in DataAts /\ thread[t].at \in DataAts => s = t
    /\ \A c \in Made : \A t \in Threads : ~(IsData(c) /\ thread[t].at \in DataAts)

Got(w) == thread[w].at = "received"
Sent(w) == thread[w].at = "sent"

\* The operation under way names the room, or the bytes, that the buffer has now.
Room(n) == WithFreeSpace(mBuffer) = mBuffer /\ n <= GetFreeSpaceSize(mBuffer)

Aims(c) ==
    /\ IsData(c) /\ context[c].ioType = "IO_RECV" =>
          context[c].buf = GetBuffer(mBuffer) /\ Room(context[c].len)
    /\ IsData(c) /\ context[c].ioType = "IO_SEND" =>
          context[c].buf = GetBufferStart(mBuffer) /\ context[c].len <= GetContiguiousBytes(mBuffer)

Newest(n) == BytesAt(mBuffer, GetBuffer(mBuffer), n) = [i \in 1 .. n |-> (arrived - n) + i]

Rest(n) == SubSeq(Contents(mBuffer), n + 1, Len(Contents(mBuffer)))

Stream ==
    /\ \A c \in Made : Aims(c)
    /\ \A w \in Workers : Got(w) => /\ thread[w].transferred \in 1 .. arrived
                                    /\ Room(thread[w].transferred) /\ Newest(thread[w].transferred)
                                    /\ Joined(echoed, Contents(mBuffer), Numbered(arrived - thread[w].transferred))
    /\ \A w \in Workers : Sent(w) => /\ thread[w].transferred \in 1 .. GetContiguiousBytes(mBuffer)
                                     /\ Joined(echoed, Rest(thread[w].transferred), Numbered(arrived))
    /\ (\A w \in Workers : ~Got(w) /\ ~Sent(w)) => Joined(echoed, Contents(mBuffer), Numbered(arrived))

DInv == OneEcho /\ Stream /\ process # "overrun"

IInv == LInv /\ Placed /\ (~overlapped => DInv)

-----------------------------------------------------------------------------
(***************************************************************************)
(* The threads and the contexts.                                           *)
(***************************************************************************)
LEMMA ThreadFacts ==
    ASSUME Types, NEW t \in Threads
    PROVE  /\ thread[t] \in ThreadStates
           /\ t \in Workers => (thread[t] = Idle <=> thread[t].at = "idle")
           /\ t \in Workers /\ thread[t].at # "idle" =>
                 thread[t].at \in WorkerAts /\ thread[t].context \in Made
           /\ t \in Callers => thread[t].at \in {"idle", "postrecv"}
           /\ thread[t] = Idle => thread[t].at = "idle"
  <1>1. "idle" \notin WorkerAts /\ Idle.at = "idle"
    BY DEF WorkerAts, Idle
  <1> QED BY <1>1 DEF Types, ThreadTypes

LEMMA LengthFacts ==
    ASSUME Types
    PROVE  /\ Len(context) \in Nat /\ (context = <<>> <=> Len(context) = 0)
           /\ (context # <<>> <=> 1 \in Made) /\ 0 \notin Made /\ DOMAIN context = Made
           /\ \A c \in Made : context[c] \in IoContexts
  <1>1. context \in Seq(IoContexts)
    BY DEF Types
  <1>2. Len(context) \in Nat /\ (context = <<>> <=> Len(context) = 0) /\ DOMAIN context = 1 .. Len(context)
    BY <1>1, LenProperties, EmptySeq
  <1>3. \A c \in 1 .. Len(context) : context[c] \in IoContexts
    BY <1>1, ElementOfSeq
  <1> QED BY <1>2, <1>3 DEF Made

\* A context is made.
LEMMA Appended ==
    ASSUME Types, NEW io \in IoContexts, context' = Append(context, io)
    PROVE  /\ context' \in Seq(IoContexts) /\ Len(context') = Len(context) + 1
           /\ Made' = Made \cup {Len(context) + 1} /\ Len(context) + 1 \notin Made
           /\ \A c \in Made : context'[c] = context[c]
           /\ context'[Len(context) + 1] = io
           /\ context' # <<>>
  <1>1. context \in Seq(IoContexts) /\ Len(context) \in Nat
    BY LengthFacts DEF Types
  <1>2. /\ context' \in Seq(IoContexts) /\ Len(context') = Len(context) + 1
        /\ \A c \in 1 .. Len(context) : context'[c] = context[c]
        /\ context'[Len(context) + 1] = io /\ context' # <<>>
    BY <1>1, AppendProperties
  <1>3. Made' = Made \cup {Len(context) + 1} /\ Len(context) + 1 \notin Made
    BY <1>1, <1>2 DEF Made
  <1> QED BY <1>2, <1>3 DEF Made

\* Thread t goes on in a way that neither begins nor ends the handling of an
\* accept or a disconnection.
Quiet(t, s) ==
    /\ s \in ThreadStates /\ thread' = [thread EXCEPT ![t] = s]
    /\ t \in Callers => s.at \in {"idle", "postrecv"}
    /\ t \in Workers =>
          /\ thread[t].at \notin {"idle", "IO_ACCEPT", "IO_DISCONNECT"}
          /\ \/ s = Idle
             \/ /\ s.at \in WorkerAts \ {"IO_ACCEPT", "IO_DISCONNECT"}
                /\ s.context = thread[t].context

LEMMA QuietHands ==
    ASSUME LInv, NEW t \in Threads, NEW s, Quiet(t, s), Made \subseteq Made'
    PROVE  /\ ThreadTypes'
           /\ thread'[t] = s /\ \A v \in Threads : v # t => thread'[v] = thread[v]
           /\ \A w \in Workers : \A c : Holds(w, c)' => Holds(w, c) /\ c \in Made
           /\ \A w \in Workers : \A c \in Made : Disc(c) => (Holds(w, c)' <=> Holds(w, c))
           /\ \A w \in Workers : /\ thread'[w].at = "IO_ACCEPT" <=> thread[w].at = "IO_ACCEPT"
                                 /\ thread'[w].at = "IO_DISCONNECT" <=> thread[w].at = "IO_DISCONNECT"
           /\ \A w \in Workers : w # t \/ s = Idle \/ s.context = thread[w].context
  <1>1. Types /\ Hands
    BY DEF LInv
  <1>2. thread' \in [Threads -> ThreadStates] /\ thread'[t] = s
        /\ \A v \in Threads : v # t => thread'[v] = thread[v]
    BY <1>1 DEF Quiet, Types, ThreadTypes
  <1>3. Callers \cap Workers = {} /\ Callers \subseteq Threads /\ Workers \subseteq Threads
    BY ClientSessionAssumption DEF Threads
  <1>4. ThreadTypes'
    <2>1. \A v \in Callers : thread'[v].at \in {"idle", "postrecv"}
      BY <1>1, <1>2, <1>3 DEF Quiet, Types, ThreadTypes
    <2>2. ASSUME NEW w \in Workers
          PROVE  thread'[w] = Idle \/ (thread'[w].at \in WorkerAts /\ thread'[w].context \in Made')
      <3>1. CASE w # t
        BY <1>1, <1>2, <1>3, <3>1 DEF Types, ThreadTypes
      <3>2. CASE w = t
        <4>1. thread[t].context \in Made
          BY <1>1, <3>2, ThreadFacts DEF Quiet
        <4> QED BY <1>2, <3>2, <4>1 DEF Quiet
      <3> QED BY <3>1, <3>2
    <2> QED BY <1>2, <2>1, <2>2 DEF ThreadTypes
  <1>5. Idle.at = "idle"
    BY DEF Idle
  <1>6. \A w \in Workers : \A c : Holds(w, c)' => Holds(w, c) /\ c \in Made
    <2> SUFFICES ASSUME NEW w \in Workers, NEW c, Holds(w, c)' PROVE Holds(w, c) /\ c \in Made
      OBVIOUS
    <2>1. Holds(w, c)
      <3>1. CASE w # t
        BY <1>2, <1>3, <3>1 DEF Holds
      <3>2. CASE w = t
        BY <1>2, <1>5, <3>2 DEF Holds, Quiet
      <3> QED BY <3>1, <3>2
    <2>2. c \in Made
      BY <1>1, <1>3, <2>1, ThreadFacts DEF Holds
    <2> QED BY <2>1, <2>2
  <1>7. \A w \in Workers : /\ thread'[w].at = "IO_ACCEPT" <=> thread[w].at = "IO_ACCEPT"
                           /\ thread'[w].at = "IO_DISCONNECT" <=> thread[w].at = "IO_DISCONNECT"
    BY <1>2, <1>3, <1>5 DEF Quiet
  <1>8. \A w \in Workers : \A c \in Made : Disc(c) => (Holds(w, c)' <=> Holds(w, c))
    <2> SUFFICES ASSUME NEW w \in Workers, NEW c \in Made, Disc(c), Holds(w, c) PROVE Holds(w, c)'
      BY <1>6
    <2>1. thread[w].at = "IO_DISCONNECT"
      BY <1>1 DEF Hands
    <2>2. w # t
      BY <2>1 DEF Quiet
    <2> QED BY <1>2, <1>3, <2>2 DEF Holds
  <1>9. \A w \in Workers : w # t \/ s = Idle \/ s.context = thread[w].context
    BY DEF Quiet
  <1> QED BY <1>2, <1>4, <1>6, <1>7, <1>8, <1>9

\* The contexts stay, and those made are receives and sends.
Grows ==
    /\ context' \in Seq(IoContexts) /\ Made \subseteq Made' /\ pending' \subseteq Made'
    /\ context' # <<>> => context # <<>>
    /\ \A c \in Made : context'[c] = context[c] /\ (c \in pending' <=> c \in pending)
    /\ \A c \in Made' : c \notin Made => context'[c].ioType \in {"IO_RECV", "IO_SEND"}
    /\ mRefCount' - mRefCount = Len(context') - Len(context)
    /\ mRefCount' \in Int

LEMMA QuietOK ==
    ASSUME LInv, NEW t \in Threads, NEW s, Quiet(t, s), Grows,
           UNCHANGED <<mConnected, main, process, running, free>>,
           s.at # "idle" => context # <<>>
    PROVE  LInv'
  <1>1. Types /\ Hands /\ Connection /\ Counted
    BY DEF LInv
  <1>2. Made \subseteq Made'
    BY DEF Grows
  <1>3. /\ ThreadTypes'
        /\ thread'[t] = s /\ \A v \in Threads : v # t => thread'[v] = thread[v]
        /\ \A w \in Workers : \A c : Holds(w, c)' => Holds(w, c) /\ c \in Made
        /\ \A w \in Workers : \A c \in Made : Disc(c) => (Holds(w, c)' <=> Holds(w, c))
        /\ \A w \in Workers : /\ thread'[w].at = "IO_ACCEPT" <=> thread[w].at = "IO_ACCEPT"
                              /\ thread'[w].at = "IO_DISCONNECT" <=> thread[w].at = "IO_DISCONNECT"
    BY <1>2, QuietHands
  <1>4. Types'
    BY <1>1, <1>3 DEF Types, Grows
  <1>5. \A c \in Made' : /\ Disc(c)' <=> c \in Made /\ Disc(c)
                         /\ Accept(c)' <=> c \in Made /\ Accept(c)
    BY DEF Grows, Disc, Accept
  <1>6. Hands'
    <2>1. \A w \in Workers : \A c \in Made' : Holds(w, c)' => c \notin pending'
      BY <1>1, <1>3 DEF Hands, Grows
    <2>2. \A v, w \in Workers : \A c \in Made' : Holds(v, c)' /\ Holds(w, c)' => v = w
      BY <1>1, <1>3 DEF Hands
    <2>3. \A w \in Workers : \A c \in Made' :
             Holds(w, c)' => /\ thread'[w].at = "IO_ACCEPT" => Accept(c)'
                             /\ Disc(c)' <=> thread'[w].at = "IO_DISCONNECT"
      BY <1>1, <1>2, <1>3, <1>5 DEF Hands
    <2> QED BY <2>1, <2>2, <2>3 DEF Hands
  <1>7. context' # <<>> <=> context # <<>>
    <2>1. ASSUME context # <<>> PROVE context' # <<>>
      <3>1. 1 \in Made'
        BY <1>1, <1>2, <2>1, LengthFacts
      <3> QED BY <3>1 DEF Made
    <2> QED BY <2>1 DEF Grows
  <1>8. Accepting' <=> Accepting
    <2>1. CASE context = <<>>
      BY <1>7, <2>1 DEF Accepting
    <2>2. CASE context # <<>>
      <3>1. 1 \in Made
        BY <1>1, <2>2, LengthFacts
      <3>2. 1 \in pending' <=> 1 \in pending
        BY <3>1 DEF Grows
      <3> QED BY <1>3, <1>7, <3>2 DEF Accepting
    <2> QED BY <2>1, <2>2
  <1>9. Connection'
    <2>1. /\ context' # <<>> => main' \in {"accepting", "owning"} /\ ~free'
          /\ main' = "owning" => context' # <<>>
      BY <1>1, <1>7 DEF Connection
    <2>2. \A v \in Threads : thread'[v].at # "idle" => context' # <<>>
      BY <1>1, <1>3, <1>7 DEF Connection
    <2>3. \A c \in Made' : Accept(c)' <=> c = 1
      <3>1. ASSUME 1 \in Made' PROVE 1 \in Made
        <4>1. context' # <<>>
          BY <1>4, <3>1, LengthFacts DEF Made, Types
        <4> QED BY <1>1, <1>7, <4>1, LengthFacts
      <3> QED BY <1>1, <1>5, <3>1 DEF Connection
    <2>4. /\ Accepting' => mConnected' = 0 /\ \A c \in Made' : ~Disc(c)'
          /\ ~Accepting' => mConnected' = 1 \/ \E c \in Made' : Disc(c)'
          /\ \A c, d \in Made' : Disc(c)' /\ Disc(d)' => c = d /\ mConnected' = 0
      BY <1>1, <1>2, <1>5, <1>8 DEF Connection
    <2> QED BY <2>1, <2>2, <2>3, <2>4 DEF Connection
  <1>10. Counted'
    <2>1. Ended' <=> Ended
      BY <1>2, <1>3, <1>5 DEF Ended, Grows
    <2>2. Len(context) \in Nat /\ Len(context') \in Nat /\ mRefCount \in Int
      BY <1>1, <1>4, LenProperties DEF Types
    <2>3. mRefCount' - mRefCount = Len(context') - Len(context) /\ mRefCount' \in Int
      BY DEF Grows
    <2>4. Owned' <=> Owned
      BY <1>7 DEF Owned
    <2>5. PICK o, e : o = (IF Owned THEN 1 ELSE 0) /\ e = (IF Ended THEN 1 ELSE 0)
      OBVIOUS
    <2>6. mRefCount' = Len(context') + o - e
      <3>1. mRefCount = Len(context) + o - e /\ o \in Int /\ e \in Int
        BY <1>1, <2>5 DEF Counted
      <3> QED BY <2>2, <2>3, <3>1
    <2>7. o = (IF Owned' THEN 1 ELSE 0) /\ e = (IF Ended' THEN 1 ELSE 0)
      BY <2>1, <2>4, <2>5
    <2> QED BY <2>6, <2>7 DEF Counted
  <1> QED BY <1>4, <1>6, <1>9, <1>10 DEF LInv

\* Nothing of the session changes.
LEMMA MainOK ==
    ASSUME LInv, UNCHANGED session, main' = main \/ main' \in Early,
           process' \in Ends, running' \subseteq Workers, free' \in BOOLEAN,
           context # <<>> => main' = main /\ free' = free
    PROVE  LInv'
  <1>1. UNCHANGED <<mConnected, mRefCount, context, pending, thread>>
    BY DEF session
  <1>2. Types'
    BY <1>1 DEF LInv, Types, ThreadTypes, Made
  <1>3. Hands'
    BY <1>1 DEF LInv, Hands, Holds, Made, Accept, Disc
  <1>4. Made' = Made /\ (Accepting' <=> Accepting)
    BY <1>1 DEF Made, Accepting
  <1>5. Connection'
    BY <1>1, <1>4 DEF LInv, Connection, Accept, Disc, Early
  <1>6. Ended' <=> Ended
    BY <1>1, <1>4 DEF Ended, Disc, Holds
  <1>7. Counted'
    <2>1. Owned' <=> Owned
      BY <1>1 DEF LInv, Connection, Owned
    <2> QED BY <1>1, <1>6, <2>1 DEF LInv, Counted
  <1> QED BY <1>2, <1>3, <1>5, <1>7 DEF LInv

\* A worker takes a context off the completion port.
LEMMA TakesOK ==
    ASSUME LInv, NEW w \in Workers, NEW c \in pending, NEW n \in 0 .. BUFSIZE,
           NEW at \in WorkerAts, Takes(w, c, at, n),
           at = "IO_ACCEPT" <=> Accept(c), at = "IO_DISCONNECT" <=> Disc(c)
    PROVE  /\ LInv' /\ c \in Made /\ thread[w].at = "idle"
           /\ thread'[w].at = at /\ thread'[w].transferred = n /\ thread'[w].context = c
           /\ \A v \in Threads : v # w => thread'[v] = thread[v]
  <1> DEFINE s == [at |-> at, context |-> c, transferred |-> n]
  <1>1. Types /\ Hands /\ Connection /\ Counted /\ w \in Threads /\ Workers \subseteq Threads
    BY DEF LInv, Threads
  <1>2. /\ thread[w] = Idle /\ pending' = pending \ {c} /\ thread' = [thread EXCEPT ![w] = s]
        /\ UNCHANGED <<mConnected, mRefCount, context, main, process, running, free>>
    BY DEF Takes, Becomes
  <1>3. c \in Made /\ c \in Nat /\ Made' = Made
    BY <1>1, <1>2 DEF Types, Made
  <1>4. s \in ThreadStates /\ s.at = at /\ s.context = c /\ s.transferred = n
    BY <1>3 DEF ThreadStates
  <1> HIDE DEF s
  <1>5. /\ thread' \in [Threads -> ThreadStates] /\ thread'[w] = s
        /\ \A v \in Threads : v # w => thread'[v] = thread[v]
    BY <1>1, <1>2, <1>4 DEF Types, ThreadTypes
  <1>6. "idle" \notin WorkerAts /\ thread[w].at = "idle"
    BY <1>2 DEF WorkerAts, Idle
  <1>7. w \notin Callers /\ Callers \subseteq Threads
    BY ClientSessionAssumption DEF Threads
  <1>8. Types'
    <2>1. \A v \in Callers : thread'[v].at \in {"idle", "postrecv"}
      BY <1>1, <1>5, <1>7 DEF Types, ThreadTypes
    <2>2. \A v \in Workers : thread'[v] = Idle \/ (thread'[v].at \in WorkerAts /\ thread'[v].context \in Made')
      BY <1>1, <1>3, <1>4, <1>5 DEF Types, ThreadTypes
    <2>3. ThreadTypes'
      BY <1>5, <2>1, <2>2 DEF ThreadTypes
    <2> QED BY <1>1, <1>2, <1>3, <2>3 DEF Types
  <1>9. /\ \A d : Holds(w, d)' <=> d = c
        /\ \A d : ~Holds(w, d)
        /\ \A v \in Workers : \A d : v # w => (Holds(v, d)' <=> Holds(v, d))
    BY <1>1, <1>4, <1>5, <1>6 DEF Holds
  <1>10. \A v \in Workers : ~Holds(v, c)
    BY <1>1, <1>3 DEF Hands
  <1>11. \A d : (Disc(d)' <=> Disc(d)) /\ (Accept(d)' <=> Accept(d))
    BY <1>2 DEF Disc, Accept
  <1>12. Hands'
    <2>1. \A v \in Workers : \A d \in Made' : Holds(v, d)' => d \notin pending'
      BY <1>1, <1>2, <1>3, <1>9 DEF Hands
    <2>2. \A u, v \in Workers : \A d \in Made' : Holds(u, d)' /\ Holds(v, d)' => u = v
      BY <1>1, <1>3, <1>9, <1>10 DEF Hands
    <2>3. \A v \in Workers : \A d \in Made' :
             Holds(v, d)' => /\ thread'[v].at = "IO_ACCEPT" => Accept(d)'
                             /\ Disc(d)' <=> thread'[v].at = "IO_DISCONNECT"
      BY <1>1, <1>3, <1>4, <1>5, <1>9, <1>11 DEF Hands
    <2> QED BY <2>1, <2>2, <2>3 DEF Hands
  <1>13. context # <<>>
    BY <1>1, <1>3, LengthFacts DEF Made
  <1>14. Accepting' <=> Accepting
    <2>1. Accept(c) <=> c = 1
      BY <1>1, <1>3 DEF Connection
    <2>2. \A v \in Workers : v # w => (thread'[v].at = "IO_ACCEPT" <=> thread[v].at = "IO_ACCEPT")
      BY <1>1, <1>5
    <2>3. CASE c = 1
      <3>1. Accepting
        BY <2>3 DEF Accepting
      <3>2. thread'[w].at = "IO_ACCEPT"
        BY <1>4, <1>5, <2>1, <2>3
      <3> QED BY <3>1, <3>2 DEF Accepting
    <2>4. CASE c # 1
      <3>1. thread'[w].at # "IO_ACCEPT" /\ thread[w].at # "IO_ACCEPT"
        BY <1>4, <1>5, <1>6, <2>1, <2>4
      <3> QED BY <1>2, <2>2, <2>4, <3>1 DEF Accepting
    <2> QED BY <2>3, <2>4
  <1>15. Connection'
    <2>1. \A v \in Threads : thread'[v].at # "idle" => context' # <<>>
      BY <1>2, <1>13
    <2> QED BY <1>1, <1>2, <1>3, <1>11, <1>14, <2>1 DEF Connection
  <1>16. Ended' <=> Ended
    <2>1. ASSUME NEW d \in Made
          PROVE  (d \notin pending' /\ \A v \in Workers : ~Holds(v, d)')
                    <=> (d \notin pending /\ \A v \in Workers : ~Holds(v, d))
      BY <1>2, <1>9
    <2> QED BY <1>3, <1>11, <2>1 DEF Ended
  <1>17. Counted'
    BY <1>1, <1>2, <1>16 DEF Counted, Owned
  <1>18. LInv'
    BY <1>2, <1>8, <1>12, <1>15, <1>17 DEF LInv
  <1> QED BY <1>3, <1>4, <1>5, <1>6, <1>18

\* The first request of a connected session makes the disconnection.
LEMMA DisconnectOK ==
    ASSUME LInv, mConnected = 1, mConnected' = 0,
           NewIoContext(Plain("IO_DISCONNECT")), Started,
           NEW t \in Threads, NEW s, Quiet(t, s) \/ thread' = thread,
           UNCHANGED <<main, process, running, free>>
    PROVE  LInv' /\ context # <<>>
  <1>1. Types /\ Hands /\ Connection /\ Counted
    BY DEF LInv
  <1>2. PICK d : d = Len(context) + 1
    OBVIOUS
  <1>3. /\ context' = Append(context, Plain("IO_DISCONNECT")) /\ mRefCount' = mRefCount + 1
        /\ pending' = pending \cup {d}
    BY <1>2 DEF NewIoContext, AddRef, Started
  <1>4. Plain("IO_DISCONNECT") \in IoContexts /\ Plain("IO_DISCONNECT").ioType = "IO_DISCONNECT"
    BY ClientSessionAssumption DEF Plain, IoContexts, nullptr
  <1>5. /\ context' \in Seq(IoContexts) /\ Len(context') = Len(context) + 1
        /\ Made' = Made \cup {d} /\ d \notin Made
        /\ \A c \in Made : context'[c] = context[c]
        /\ context'[d] = Plain("IO_DISCONNECT") /\ context' # <<>>
    BY <1>1, <1>2, <1>3, <1>4, Appended
  <1>6. ~Accepting /\ context # <<>>
    BY <1>1 DEF Connection, Accepting
  <1>7. 1 \in Made /\ d # 1
    BY <1>1, <1>5, <1>6, LengthFacts
  <1>8. \A c \in Made : ~Disc(c)
    BY <1>1 DEF Connection
  <1>9. /\ \A c \in Made' : Disc(c)' <=> c = d
        /\ \A c \in Made' : Accept(c)' <=> c \in Made /\ Accept(c)
    BY <1>4, <1>5, <1>8 DEF Disc, Accept
  <1>10. /\ ThreadTypes'
         /\ \A w \in Workers : \A c : Holds(w, c)' => Holds(w, c) /\ c \in Made
         /\ \A w \in Workers : /\ thread'[w].at = "IO_ACCEPT" <=> thread[w].at = "IO_ACCEPT"
                               /\ thread'[w].at = "IO_DISCONNECT" <=> thread[w].at = "IO_DISCONNECT"
    <2>1. CASE Quiet(t, s)
      BY <1>5, <2>1, QuietHands
    <2>2. CASE thread' = thread
      <3>1. ThreadTypes'
        BY <1>1, <1>5, <2>2 DEF Types, ThreadTypes
      <3>2. \A w \in Workers : \A c : Holds(w, c) => c \in Made
        BY <1>1, ThreadFacts DEF Holds, Threads
      <3>3. \A w \in Workers : \A c : Holds(w, c)' <=> Holds(w, c)
        BY <2>2 DEF Holds
      <3> QED BY <2>2, <3>1, <3>2, <3>3
    <2> QED BY <2>1, <2>2
  <1>11. Types'
    BY <1>1, <1>3, <1>5, <1>10 DEF Types
  <1>12. Hands'
    <2>1. \A w \in Workers : \A c \in Made' : Holds(w, c)' => c \notin pending'
      BY <1>1, <1>3, <1>5, <1>10 DEF Hands
    <2>2. \A v, w \in Workers : \A c \in Made' : Holds(v, c)' /\ Holds(w, c)' => v = w
      BY <1>1, <1>10 DEF Hands
    <2>3. \A w \in Workers : \A c \in Made' :
             Holds(w, c)' => /\ thread'[w].at = "IO_ACCEPT" => Accept(c)'
                             /\ Disc(c)' <=> thread'[w].at = "IO_DISCONNECT"
      BY <1>1, <1>5, <1>8, <1>9, <1>10 DEF Hands
    <2> QED BY <2>1, <2>2, <2>3 DEF Hands
  <1>13. ~Accepting'
    BY <1>3, <1>5, <1>6, <1>7, <1>10 DEF Accepting
  <1>14. Connection'
    <2>1. \A c \in Made' : Accept(c)' <=> c = 1
      BY <1>1, <1>5, <1>7, <1>9 DEF Connection
    <2>2. main' \in {"accepting", "owning"} /\ ~free'
      BY <1>1, <1>6 DEF Connection
    <2>3. d \in Made' /\ Disc(d)'
      BY <1>5, <1>9
    <2>4. \A c, e \in Made' : Disc(c)' /\ Disc(e)' => c = e /\ mConnected' = 0
      BY <1>9
    <2> QED BY <1>5, <1>13, <2>1, <2>2, <2>3, <2>4 DEF Connection
  <1>15. Counted'
    <2>1. ~Ended /\ ~Ended'
      BY <1>3, <1>8, <1>9 DEF Ended
    <2>2. Len(context) \in Nat /\ mRefCount \in Int
      BY <1>1, LengthFacts DEF Types
    <2>3. Owned' <=> Owned
      BY <1>5, <1>6 DEF Owned
    <2> QED BY <1>1, <1>3, <1>5, <2>1, <2>2, <2>3 DEF Counted
  <1> QED BY <1>6, <1>11, <1>12, <1>14, <1>15 DEF LInv

LEMMA LInitOK == Init => LInv
  <1> SUFFICES ASSUME Init PROVE LInv
    OBVIOUS
  <1>1. /\ mConnected = 0 /\ mRefCount = 0 /\ context = <<>> /\ pending = {}
        /\ thread = [t \in Threads |-> Idle]
        /\ main = "initialising" /\ process = "up" /\ running = {} /\ free = FALSE
    BY DEF Init, SessionInit
  <1>2. Idle \in ThreadStates /\ Idle.at = "idle"
    BY ClientSessionAssumption DEF Idle, ThreadStates
  <1>3. \A t \in Threads : thread[t] = Idle /\ thread[t].at = "idle"
    BY <1>1, <1>2
  <1>4. ThreadTypes
    BY <1>1, <1>2, <1>3 DEF ThreadTypes, Threads
  <1>5. Made = {} /\ Len(context) = 0 /\ context \in Seq(IoContexts)
    BY <1>1 DEF Made
  <1>6. Types
    <2>1. free \in BOOLEAN
      BY <1>1, Zenon
    <2>2. mConnected \in {0, 1} /\ mRefCount \in Int /\ pending \subseteq Made
      BY <1>1
    <2>3. main \in Early /\ process \in Ends /\ running \subseteq Workers
      BY <1>1 DEF Early, Ends
    <2> QED BY <1>4, <1>5, <2>1, <2>2, <2>3 DEF Types
  <1>7. Hands /\ Connection
    BY <1>1, <1>3, <1>5 DEF Hands, Connection, Accepting
  <1>8. Counted
    BY <1>1, <1>5 DEF Counted, Ended, Owned
  <1> QED BY <1>1, <1>6, <1>7, <1>8 DEF LInv

LEMMA AcceptSessionsOK ==
    ASSUME LInv, AcceptSessions
    PROVE  /\ LInv' /\ context = <<>> /\ context' = <<Plain("IO_ACCEPT")>> /\ Made' = {1}
           /\ thread' = thread /\ \A t \in Threads : thread[t].at = "idle"
  <1>1. Types /\ Hands /\ Connection /\ Counted
    BY DEF LInv
  <1>2. /\ main = "accepting" /\ main' = "owning" /\ free /\ free' = FALSE
        /\ context' = Append(context, Plain("IO_ACCEPT")) /\ mRefCount' = mRefCount + 1
        /\ pending' = pending \cup {Len(context) + 1}
        /\ UNCHANGED <<mConnected, thread, process, running>>
    BY DEF AcceptSessions, PostAccept, NewIoContext, AddRef, Started
  <1>3. context = <<>>
    BY <1>1, <1>2 DEF Connection
  <1>4. Made = {} /\ Len(context) = 0 /\ pending = {}
    BY <1>1, <1>3 DEF Made, Types
  <1>5. Plain("IO_ACCEPT") \in IoContexts /\ Plain("IO_ACCEPT").ioType = "IO_ACCEPT"
    BY ClientSessionAssumption DEF Plain, IoContexts, nullptr
  <1>6. /\ context' = <<Plain("IO_ACCEPT")>> /\ context' \in Seq(IoContexts) /\ Len(context') = 1
        /\ Made' = {1} /\ pending' = {1} /\ context'[1] = Plain("IO_ACCEPT") /\ context' # <<>>
    BY <1>2, <1>3, <1>4, <1>5 DEF Made
  <1>7. \A t \in Threads : thread[t].at = "idle" /\ thread'[t] = thread[t]
    BY <1>1, <1>2, <1>3 DEF Connection
  <1>8. Types'
    <2>1. ThreadTypes'
      BY <1>1, <1>2, <1>4, <1>6 DEF Types, ThreadTypes
    <2>2. free' \in BOOLEAN
      BY <1>2, Zenon
    <2>3. mRefCount' \in Int /\ pending' \subseteq Made'
      BY <1>1, <1>2, <1>6 DEF Types
    <2>4. /\ mConnected' \in {0, 1} /\ main' \in Early \cup {"owning"}
          /\ process' \in Ends /\ running' \subseteq Workers
      BY <1>1, <1>2 DEF Types
    <2> QED BY <1>6, <2>1, <2>2, <2>3, <2>4 DEF Types
  <1>9. \A w \in Workers : \A c : ~Holds(w, c)'
    BY <1>7 DEF Holds, Threads
  <1>10. Accept(1)' /\ ~Disc(1)'
    BY <1>5, <1>6 DEF Accept, Disc
  <1>11. Hands'
    BY <1>9 DEF Hands
  <1>12. mConnected = 0
    BY <1>1, <1>3 DEF Connection, Accepting
  <1>13. Connection'
    BY <1>2, <1>6, <1>10, <1>12 DEF Connection, Accepting
  <1>14. Counted'
    <2>1. ~Ended /\ ~Ended'
      BY <1>4, <1>6, <1>10 DEF Ended
    <2> QED BY <1>1, <1>2, <1>3, <1>4, <1>6, <2>1 DEF Counted, Owned
  <1> QED BY <1>2, <1>3, <1>6, <1>7, <1>8, <1>11, <1>13, <1>14 DEF LInv

LEMMA OwnSessionOK ==
    ASSUME LInv, OwnSession
    PROVE  LInv'
  <1>1. Types /\ Hands /\ Connection /\ Counted
    BY DEF LInv
  <1>2. /\ main = "owning" /\ main' = "accepting" /\ mRefCount' = mRefCount + 1
        /\ UNCHANGED <<mConnected, context, pending, thread, process, running, free>>
    BY DEF OwnSession, AddRef
  <1>3. Types'
    BY <1>1, <1>2 DEF Types, ThreadTypes, Made, Early
  <1>4. Hands'
    BY <1>1, <1>2 DEF Hands, Holds, Made, Accept, Disc
  <1>5. Made' = Made /\ (Accepting' <=> Accepting) /\ (Ended' <=> Ended)
    BY <1>2 DEF Made, Accepting, Ended, Disc, Holds
  <1>6. Connection'
    BY <1>1, <1>2, <1>5 DEF Connection, Accept, Disc
  <1>7. Counted'
    <2>1. ~Owned /\ Owned' /\ mRefCount \in Int /\ Len(context) \in Nat
      BY <1>1, <1>2, LengthFacts DEF Owned, Connection, Types
    <2> QED BY <1>1, <1>2, <1>5, <2>1 DEF Counted
  <1> QED BY <1>3, <1>4, <1>6, <1>7 DEF LInv

LEMMA GoesTo ==
    ASSUME Types, NEW t \in Threads, NEW at, Goes(t, at), NEW s, s = [thread[t] EXCEPT !.at = at]
    PROVE  /\ thread' = [thread EXCEPT ![t] = s]
           /\ s.at = at /\ s.context = thread[t].context /\ s.transferred = thread[t].transferred
           /\ at \in WorkerAts \cup {"idle", "postrecv"} => s \in ThreadStates
  <1>1. thread' = [thread EXCEPT ![t] = s]
    BY DEF Goes, Types, ThreadTypes
  <1>2. thread[t] \in ThreadStates
    BY ThreadFacts
  <1> QED BY <1>1, <1>2 DEF ThreadStates

LEMMA AcceptCompletionOK ==
    ASSUME LInv, NEW w \in Workers, AcceptCompletion(w)
    PROVE  /\ LInv' /\ process' = process /\ thread'[w].at = "configuring"
           /\ \A v \in Threads : v # w => thread'[v] = thread[v]
  <1>1. Types /\ Hands /\ Connection /\ Counted /\ w \in Threads /\ Workers \subseteq Threads
    BY DEF LInv, Threads
  <1>2. /\ thread[w].at = "IO_ACCEPT" /\ mConnected' = 1
        /\ process' = IF mConnected = 1 THEN "assert" ELSE process
        /\ Goes(w, "configuring")
        /\ UNCHANGED <<mRefCount, context, pending, main, running, free>>
    BY DEF AcceptCompletion
  <1>3. PICK s : s = [thread[w] EXCEPT !.at = "configuring"]
    OBVIOUS
  <1>4. /\ thread' = [thread EXCEPT ![w] = s] /\ s \in ThreadStates
        /\ s.at = "configuring" /\ s.context = thread[w].context
    BY <1>1, <1>2, <1>3, GoesTo DEF WorkerAts
  <1>5. /\ thread' \in [Threads -> ThreadStates] /\ thread'[w] = s
        /\ \A v \in Threads : v # w => thread'[v] = thread[v]
    BY <1>1, <1>4 DEF Types, ThreadTypes
  <1>6. PICK c \in Made : c = thread[w].context
    BY <1>1, <1>2, ThreadFacts
  <1>7. Holds(w, c)
    BY <1>2, <1>6 DEF Holds
  <1>8. c = 1 /\ 1 \notin pending
    BY <1>1, <1>2, <1>7 DEF Hands, Connection
  <1>9. /\ mConnected = 0 /\ process' = process /\ \A d \in Made : ~Disc(d)
    BY <1>1, <1>2 DEF Accepting, Connection
  <1>10. Made' = Made /\ \A d : (Disc(d)' <=> Disc(d)) /\ (Accept(d)' <=> Accept(d))
    BY <1>2 DEF Made, Disc, Accept
  <1>11. w \notin Callers /\ Callers \subseteq Threads
    BY ClientSessionAssumption DEF Threads
  <1>12. Types'
    <2>1. \A v \in Callers : thread'[v].at \in {"idle", "postrecv"}
      BY <1>1, <1>5, <1>11 DEF Types, ThreadTypes
    <2>2. \A v \in Workers : thread'[v] = Idle \/ (thread'[v].at \in WorkerAts /\ thread'[v].context \in Made')
      BY <1>1, <1>4, <1>5, <1>6, <1>10 DEF Types, ThreadTypes, WorkerAts
    <2>3. ThreadTypes'
      BY <1>5, <2>1, <2>2 DEF ThreadTypes
    <2> QED BY <1>1, <1>2, <1>9, <1>10, <2>3 DEF Types
  <1>13. \A v \in Workers : \A d : Holds(v, d)' <=> Holds(v, d)
    BY <1>1, <1>2, <1>4, <1>5 DEF Holds
  <1>14. \A v \in Workers : thread[v].at = "IO_ACCEPT" => v = w
    <2> SUFFICES ASSUME NEW v \in Workers, thread[v].at = "IO_ACCEPT" PROVE v = w
      OBVIOUS
    <2>1. PICK d \in Made : d = thread[v].context
      BY <1>1, ThreadFacts
    <2>2. Holds(v, d)
      BY <2>1 DEF Holds
    <2>3. d = 1
      BY <1>1, <2>2 DEF Hands, Connection
    <2> QED BY <1>1, <1>7, <1>8, <2>2, <2>3 DEF Hands
  <1>15. ~Accepting'
    <2>1. context' # <<>>
      BY <1>1, <1>2, <1>6, LengthFacts DEF Made
    <2>2. \A v \in Workers : thread'[v].at # "IO_ACCEPT"
      BY <1>1, <1>4, <1>5, <1>14
    <2> QED BY <1>2, <1>8, <2>1, <2>2 DEF Accepting
  <1>16. Hands'
    <2>1. \A v \in Workers : \A d \in Made' : Holds(v, d)' => d \notin pending'
      BY <1>1, <1>2, <1>10, <1>13 DEF Hands
    <2>2. \A u, v \in Workers : \A d \in Made' : Holds(u, d)' /\ Holds(v, d)' => u = v
      BY <1>1, <1>10, <1>13 DEF Hands
    <2>3. \A v \in Workers : \A d \in Made' :
             Holds(v, d)' => /\ thread'[v].at = "IO_ACCEPT" => Accept(d)'
                             /\ Disc(d)' <=> thread'[v].at = "IO_DISCONNECT"
      BY <1>1, <1>2, <1>4, <1>5, <1>10, <1>13 DEF Hands
    <2> QED BY <2>1, <2>2, <2>3 DEF Hands
  <1>17. Connection'
    <2>1. context' # <<>>
      BY <1>1, <1>2, <1>6, LengthFacts DEF Made
    <2> QED BY <1>1, <1>2, <1>9, <1>10, <1>15, <2>1 DEF Connection
  <1>18. Counted'
    <2>1. ~Ended /\ ~Ended'
      BY <1>9, <1>10 DEF Ended
    <2> QED BY <1>1, <1>2, <2>1 DEF Counted, Owned
  <1> QED BY <1>4, <1>5, <1>9, <1>12, <1>16, <1>17, <1>18 DEF LInv

LEMMA DisconnectCompletionOK ==
    ASSUME LInv, NEW w \in Workers, DisconnectCompletion(w)
    PROVE  /\ LInv' /\ process' = process /\ thread'[w] = Idle
           /\ \A v \in Threads : v # w => thread'[v] = thread[v]
  <1>1. Types /\ Hands /\ Connection /\ Counted /\ w \in Threads /\ Workers \subseteq Threads
    BY DEF LInv, Threads
  <1>2. /\ thread[w].at = "IO_DISCONNECT" /\ ReleaseRef /\ thread' = [thread EXCEPT ![w] = Idle]
        /\ UNCHANGED <<context, pending, main, running>>
    BY DEF DisconnectCompletion, Becomes
  <1>3. PICK c \in Made : c = thread[w].context
    BY <1>1, <1>2, ThreadFacts
  <1>4. Holds(w, c) /\ Disc(c) /\ c \notin pending /\ \A v \in Workers : Holds(v, c) => v = w
    <2>1. Holds(w, c)
      BY <1>2, <1>3 DEF Holds
    <2> QED BY <1>1, <1>2, <2>1 DEF Hands
  <1>5. (\A d \in Made : Disc(d) <=> d = c) /\ mConnected = 0
    BY <1>1, <1>4 DEF Connection
  <1>6. ~Ended
    BY <1>4, <1>5 DEF Ended
  <1>7. Len(context) \in Nat /\ Len(context) >= 2
    <2>1. context # <<>> /\ 1 \in Made /\ Len(context) \in Nat
      BY <1>1, <1>3, LengthFacts DEF Made
    <2>2. Accept(1)
      BY <1>1, <2>1 DEF Connection
    <2>3. c # 1
      BY <1>4, <2>2 DEF Accept, Disc
    <2> QED BY <2>1, <2>3 DEF Made
  <1>8. mRefCount \in Nat /\ mRefCount >= 2
    BY <1>1, <1>6, <1>7 DEF Counted
  <1>9. mRefCount' = mRefCount - 1 /\ process' = process /\ UNCHANGED <<mConnected, free>>
    BY <1>2, <1>7, <1>8 DEF ReleaseRef
  <1>10. Idle \in ThreadStates /\ Idle.at = "idle"
    BY ClientSessionAssumption DEF Idle, ThreadStates
  <1>11. /\ thread' \in [Threads -> ThreadStates] /\ thread'[w] = Idle
         /\ \A v \in Threads : v # w => thread'[v] = thread[v]
    BY <1>1, <1>2, <1>10 DEF Types, ThreadTypes
  <1>12. Made' = Made /\ \A d : (Disc(d)' <=> Disc(d)) /\ (Accept(d)' <=> Accept(d))
    BY <1>2 DEF Made, Disc, Accept
  <1>13. Types'
    <2>1. \A v \in Callers : v \in Threads /\ v # w
      BY ClientSessionAssumption DEF Threads
    <2>2. \A v \in Callers : thread'[v].at \in {"idle", "postrecv"}
      BY <1>1, <1>11, <2>1 DEF Types, ThreadTypes
    <2>3. \A v \in Workers : thread'[v] = Idle \/ (thread'[v].at \in WorkerAts /\ thread'[v].context \in Made')
      BY <1>1, <1>11, <1>12 DEF Types, ThreadTypes
    <2>4. ThreadTypes'
      BY <1>11, <2>2, <2>3 DEF ThreadTypes
    <2> QED BY <1>1, <1>2, <1>9, <1>12, <2>4 DEF Types
  <1>14. /\ \A d : ~Holds(w, d)'
         /\ \A v \in Workers : \A d : v # w => (Holds(v, d)' <=> Holds(v, d))
    BY <1>1, <1>10, <1>11 DEF Holds
  <1>15. Hands'
    <2>1. \A v \in Workers : \A d \in Made' : Holds(v, d)' => d \notin pending'
      BY <1>1, <1>2, <1>12, <1>14 DEF Hands
    <2>2. \A u, v \in Workers : \A d \in Made' : Holds(u, d)' /\ Holds(v, d)' => u = v
      BY <1>1, <1>12, <1>14 DEF Hands
    <2>3. \A v \in Workers : \A d \in Made' :
             Holds(v, d)' => /\ thread'[v].at = "IO_ACCEPT" => Accept(d)'
                             /\ Disc(d)' <=> thread'[v].at = "IO_DISCONNECT"
      BY <1>1, <1>11, <1>12, <1>14 DEF Hands
    <2> QED BY <2>1, <2>2, <2>3 DEF Hands
  <1>16. Accepting' <=> Accepting
    <2>1. \A v \in Workers : thread'[v].at = "IO_ACCEPT" <=> thread[v].at = "IO_ACCEPT"
      BY <1>1, <1>2, <1>10, <1>11
    <2> QED BY <1>2, <2>1 DEF Accepting
  <1>17. Connection'
    <2>1. \A v \in Threads : thread'[v].at # "idle" => context' # <<>>
      BY <1>1, <1>2, <1>10, <1>11 DEF Connection
    <2> QED BY <1>1, <1>2, <1>9, <1>12, <1>16, <2>1 DEF Connection
  <1>18. Counted'
    <2>1. Ended'
      BY <1>2, <1>4, <1>5, <1>12, <1>14 DEF Ended
    <2>2. Owned' <=> Owned
      BY <1>2 DEF Owned
    <2> QED BY <1>1, <1>2, <1>6, <1>7, <1>8, <1>9, <2>1, <2>2 DEF Counted
  <1> QED BY <1>9, <1>11, <1>13, <1>15, <1>17, <1>18 DEF LInv

-----------------------------------------------------------------------------
(***************************************************************************)
(* What leaves the data alone.                                             *)
(***************************************************************************)
Kept(c) == c \in Made /\ context'[c] = context[c] /\ (c \in pending' => c \in pending)

\* Thread t has no result of a receive or a send, neither before nor after.
Passive(t) ==
    /\ thread[t].at \notin {"received", "sent"} /\ thread'[t].at \notin {"received", "sent"}
    /\ thread'[t].at \in DataAts => thread[t].at \in DataAts

LEMMA OneEchoFrame ==
    ASSUME OneEcho, \A c \in Made' : IsData(c)' => c \in Made /\ IsData(c),
           \A t \in Threads : thread'[t].at \in DataAts => thread[t].at \in DataAts
    PROVE  OneEcho'
  BY DEF OneEcho

LEMMA StreamFrame ==
    ASSUME Stream, UNCHANGED <<mBuffer, arrived, echoed>>,
           \A c \in Made' : Kept(c) \/ Aims(c)',
           \A w \in Workers :
              \/ thread'[w] = thread[w]
              \/ /\ thread[w].at \notin {"received", "sent"}
                 /\ thread'[w].at \notin {"received", "sent"}
    PROVE  Stream'
  <1>1. \A c \in Made' : Aims(c)'
    BY DEF Stream, Aims, Kept, IsData, Room
  <1>2. \A w \in Workers : /\ Got(w)' <=> Got(w)
                           /\ Sent(w)' <=> Sent(w)
                           /\ Got(w) \/ Sent(w) => thread'[w] = thread[w]
    BY DEF Got, Sent
  <1>4. \A w \in Workers : Got(w)' =>
           /\ thread'[w].transferred \in 1 .. arrived'
           /\ Room(thread[w].transferred)' /\ Newest(thread[w].transferred)'
           /\ Joined(echoed', Contents(mBuffer'), Numbered(arrived' - thread'[w].transferred))
    BY <1>2 DEF Stream, Room, Newest
  <1> QED BY <1>1, <1>2, <1>4 DEF Stream, Room, Newest, Rest

LEMMA DataFrame ==
    ASSUME IInv, UNCHANGED <<mBuffer, arrived, echoed, overlapped>>,
           process' = process \/ process' # "overrun",
           \A c \in Made' : Kept(c) \/ (Aims(c)' /\ Inside(c)' /\ ~IsData(c)'),
           \A t \in Threads : thread'[t] = thread[t] \/ Passive(t)
    PROVE  Placed' /\ (~overlapped' => DInv')
  <1>1. ASSUME DInv PROVE DInv'
    <2>1. OneEcho'
      <3>1. \A c \in Made' : IsData(c)' => c \in Made /\ IsData(c)
        BY DEF Kept, IsData
      <3>2. \A t \in Threads : thread'[t].at \in DataAts => thread[t].at \in DataAts
        BY DEF Passive
      <3> QED BY <1>1, <3>1, <3>2, OneEchoFrame DEF DInv
    <2>2. Stream'
      <3>1. \A w \in Workers :
                \/ thread'[w] = thread[w]
                \/ /\ thread[w].at \notin {"received", "sent"}
                   /\ thread'[w].at \notin {"received", "sent"}
        BY DEF Passive, Threads
      <3> QED BY <1>1, <3>1, StreamFrame DEF DInv
    <2> QED BY <1>1, <2>1, <2>2 DEF DInv
  <1>2. Placed'
    <2>1. \A c \in Made' : Inside(c)'
      BY DEF IInv, Placed, Kept, Inside
    <2> QED BY <2>1 DEF IInv, Placed, DataTypes
  <1> QED BY <1>1, <1>2 DEF IInv

\* A step that changes the data proves its parts apart.
LEMMA DataStep ==
    ASSUME IInv, LInv', Placed', overlapped' = overlapped, DInv => DInv'
    PROVE  IInv'
  BY DEF IInv

\* The steps of the threads that take the session no further.
LEMMA ReturnsQuiet ==
    ASSUME Types, NEW w \in Workers, thread[w].at \notin {"idle", "IO_ACCEPT", "IO_DISCONNECT"},
           Becomes(w, Idle)
    PROVE  Quiet(w, Idle) /\ Idle.at = "idle"
  <1>1. Idle \in ThreadStates /\ Idle.at = "idle"
    BY ClientSessionAssumption DEF Idle, ThreadStates
  <1> QED BY <1>1 DEF Quiet, Becomes

LEMMA GoesQuiet ==
    ASSUME Types, NEW w \in Workers, thread[w].at \notin {"idle", "IO_ACCEPT", "IO_DISCONNECT"},
           NEW at \in WorkerAts \ {"IO_ACCEPT", "IO_DISCONNECT"}, Goes(w, at),
           NEW s, s = [thread[w] EXCEPT !.at = at]
    PROVE  /\ Quiet(w, s) /\ s.at = at
           /\ s.context = thread[w].context /\ s.transferred = thread[w].transferred
  <1>1. w \in Threads /\ w \notin Callers
    BY ClientSessionAssumption DEF Threads
  <1> QED BY <1>1, GoesTo DEF Quiet

LEMMA QuietMoves ==
    ASSUME LInv, NEW t \in Threads, NEW s, Quiet(t, s)
    PROVE  thread'[t] = s /\ \A v \in Threads : v # t => thread'[v] = thread[v]
  BY DEF Quiet, LInv, Types, ThreadTypes

LEMMA SameContexts ==
    ASSUME LInv, UNCHANGED <<context, pending, mRefCount>>
    PROVE  Grows /\ Made' = Made
  <1>1. Made' = Made
    BY DEF Made
  <1>2. Types /\ Len(context) \in Nat
    BY LengthFacts DEF LInv
  <1> QED BY <1>1, <1>2 DEF Grows, Types

\* A receive or a send is made, and may have been started.
LEMMA NewDataGrows ==
    ASSUME LInv, context # <<>>, NEW io \in IoContexts, io.ioType \in {"IO_RECV", "IO_SEND"},
           NewDataContext(io), Started \/ UNCHANGED pending,
           NEW c, c = Len(context) + 1
    PROVE  /\ Grows /\ Made' = Made \cup {c} /\ c \notin Made /\ context'[c] = io
           /\ \A d \in Made : Kept(d)
           /\ c \notin pending /\ (Started => c \in pending')
  <1>1. Types
    BY DEF LInv
  <1>2. context' = Append(context, io) /\ mRefCount' = mRefCount + 1
    BY DEF NewDataContext, NewIoContext, AddRef
  <1>3. /\ context' \in Seq(IoContexts) /\ Len(context') = Len(context) + 1
        /\ Made' = Made \cup {c} /\ c \notin Made
        /\ \A d \in Made : context'[d] = context[d]
        /\ context'[c] = io /\ context' # <<>>
    BY <1>1, <1>2, Appended
  <1>4. pending \subseteq Made /\ (pending' = pending \cup {c} \/ pending' = pending)
    BY <1>1 DEF Types, Started
  <1>5. Len(context) \in Nat /\ mRefCount \in Int
    BY <1>1, LengthFacts DEF Types
  <1>6. mRefCount' - mRefCount = Len(context') - Len(context) /\ mRefCount' \in Int
    BY <1>2, <1>3, <1>5
  <1>7. Grows
    BY <1>3, <1>4, <1>6 DEF Grows
  <1> QED BY <1>3, <1>4, <1>7 DEF Kept, Started

\* A plain context names no bytes.
LEMMA PlainAims ==
    ASSUME NEW c, NEW type, context'[c] = Plain(type)
    PROVE  Aims(c)' /\ Inside(c)' /\ ~IsData(c)'
  BY DEF Aims, Inside, IsData, Plain

LEMMA RequestOK ==
    ASSUME IInv, DisconnectRequest, NEW t \in Threads,
           \/ Quiet(t, Idle) /\ thread[t].at \notin {"received", "sent"}
           \/ thread' = thread,
           UNCHANGED <<mBuffer, arrived, echoed, main, process, running, free, overlapped>>
    PROVE  IInv'
  <1>1. LInv /\ Types /\ Idle.at = "idle"
    BY DEF IInv, LInv, Idle
  <1>2. \A v \in Threads : thread'[v] = thread[v] \/ Passive(v)
    BY <1>1, QuietMoves DEF Passive, DataAts
  <1>3. CASE mConnected = 0 /\ UNCHANGED <<mConnected, context, mRefCount, pending>>
    <2>1. Grows /\ Made' = Made /\ \A c \in Made' : Kept(c)
      BY <1>1, <1>3, SameContexts DEF Kept
    <2>2. LInv'
      <3>1. CASE Quiet(t, Idle)
        BY <1>1, <1>3, <2>1, <3>1, QuietOK
      <3>2. CASE thread' = thread
        <4>1. UNCHANGED session
          BY <1>3, <3>2 DEF session
        <4>2. process' \in Ends /\ running' \subseteq Workers /\ free' \in BOOLEAN
          BY <1>1 DEF LInv, Types
        <4> QED BY <1>1, <4>1, <4>2, MainOK
      <3> QED BY <3>1, <3>2
    <2> QED BY <1>1, <1>2, <2>1, <2>2, DataFrame DEF IInv
  <1>4. CASE mConnected = 1 /\ mConnected' = 0 /\ NewIoContext(Plain("IO_DISCONNECT")) /\ Started
    <2>1. LInv'
      BY <1>1, <1>4, DisconnectOK
    <2>2. Plain("IO_DISCONNECT") \in IoContexts
      BY ClientSessionAssumption DEF Plain, IoContexts, nullptr
    <2>3. PICK d : d = Len(context) + 1
      OBVIOUS
    <2>4. /\ Made' = Made \cup {d} /\ d \notin Made /\ context'[d] = Plain("IO_DISCONNECT")
          /\ \A c \in Made : context'[c] = context[c]
      BY <1>1, <1>4, <2>2, <2>3, Appended DEF NewIoContext
    <2>5. \A c \in Made : Kept(c)
      BY <1>4, <2>3, <2>4 DEF Kept, Started
    <2>6. Aims(d)' /\ Inside(d)' /\ ~IsData(d)'
      BY <2>4, PlainAims
    <2> QED BY <1>1, <1>2, <2>1, <2>4, <2>5, <2>6, DataFrame DEF IInv
  <1> QED BY <1>3, <1>4 DEF DisconnectRequest

\* A worker goes on without a step of the session.
LEMMA WorkerGoesOK ==
    ASSUME IInv, NEW w \in Workers, thread[w].at \notin {"idle", "IO_ACCEPT", "IO_DISCONNECT"},
           NEW at \in WorkerAts \ {"IO_ACCEPT", "IO_DISCONNECT"}, Goes(w, at),
           thread[w].at \notin {"received", "sent"}, at \notin {"received", "sent"},
           at \in DataAts => thread[w].at \in DataAts,
           UNCHANGED <<mConnected, mRefCount, mBuffer, context, pending, arrived, echoed,
                       main, process, running, free, overlapped>>
    PROVE  IInv'
  <1>1. LInv /\ Placed /\ Types /\ w \in Threads
    BY DEF IInv, LInv, Threads
  <1>2. PICK s : s = [thread[w] EXCEPT !.at = at]
    OBVIOUS
  <1>3. Quiet(w, s) /\ s.at = at
    BY <1>1, <1>2, GoesQuiet
  <1>4. Grows /\ Made' = Made /\ \A c \in Made' : Kept(c)
    BY <1>1, SameContexts DEF Kept
  <1>5. context # <<>>
    BY <1>1 DEF LInv, Connection
  <1>6. LInv'
    BY <1>1, <1>3, <1>4, <1>5, QuietOK
  <1>7. thread'[w] = s /\ \A v \in Threads : v # w => thread'[v] = thread[v]
    BY <1>1, <1>3, QuietMoves
  <1>8. \A v \in Threads : thread'[v] = thread[v] \/ Passive(v)
    BY <1>3, <1>7 DEF Passive
  <1> QED BY <1>1, <1>4, <1>6, <1>8, DataFrame DEF IInv

LEMMA AcceptSucceedsOK ==
    ASSUME IInv, NEW w \in Workers, AcceptSucceeds(w)
    PROVE  IInv'
  <1>1. LInv /\ Placed /\ Types /\ w \in Threads
    BY DEF IInv, LInv, Threads
  <1>2. /\ thread[w].at = "configuring"
        /\ UNCHANGED <<mConnected, mRefCount, mBuffer, context, pending, arrived, echoed,
                       main, process, running, free, overlapped>>
    BY DEF AcceptSucceeds
  <1>3. CASE Goes(w, "prerecv")
    BY <1>2, <1>3, WorkerGoesOK DEF WorkerAts, DataAts
  <1>4. CASE Becomes(w, Idle)
    <2>1. Quiet(w, Idle) /\ Idle.at = "idle"
      BY <1>1, <1>2, <1>4, ReturnsQuiet
    <2>2. Grows /\ Made' = Made /\ \A c \in Made' : Kept(c)
      BY <1>1, <1>2, SameContexts DEF Kept
    <2>3. LInv'
      BY <1>1, <1>2, <2>1, <2>2, QuietOK
    <2>4. \A v \in Threads : thread'[v] = thread[v] \/ Passive(v)
      BY <1>1, <1>2, <2>1, QuietMoves DEF Passive, DataAts
    <2> QED BY <1>1, <1>2, <2>2, <2>3, <2>4, DataFrame DEF IInv
  <1> QED BY <1>3, <1>4 DEF AcceptSucceeds

LEMMA PreRecvOK ==
    ASSUME IInv, NEW w \in Workers, PreRecv(w), UNCHANGED <<main, process, running, free, overlapped>>
    PROVE  IInv'
  <1>1. LInv /\ Placed /\ Types /\ w \in Threads
    BY DEF IInv, LInv, Threads
  <1>2. /\ thread[w].at = "prerecv" /\ NewDataContext(Plain("IO_RECV")) /\ Started
        /\ Becomes(w, Idle) /\ UNCHANGED <<mConnected, mBuffer, arrived, echoed>>
    BY DEF PreRecv
  <1>3. Plain("IO_RECV") \in IoContexts /\ Plain("IO_RECV").ioType = "IO_RECV"
    BY ClientSessionAssumption DEF Plain, IoContexts, nullptr
  <1>4. context # <<>>
    BY <1>1, <1>2 DEF LInv, Connection
  <1>5. PICK c : c = Len(context) + 1
    OBVIOUS
  <1>6. /\ Grows /\ Made' = Made \cup {c} /\ c \notin Made /\ context'[c] = Plain("IO_RECV")
        /\ \A d \in Made : Kept(d)
    BY <1>1, <1>2, <1>3, <1>4, <1>5, NewDataGrows
  <1>7. Quiet(w, Idle) /\ Idle.at = "idle"
    BY <1>1, <1>2, ReturnsQuiet
  <1>8. LInv'
    BY <1>1, <1>2, <1>6, <1>7, QuietOK
  <1>9. Aims(c)' /\ Inside(c)' /\ ~IsData(c)'
    BY <1>6, PlainAims
  <1>10. \A v \in Threads : thread'[v] = thread[v] \/ Passive(v)
    BY <1>1, <1>2, <1>7, QuietMoves DEF Passive, DataAts
  <1> QED BY <1>1, <1>2, <1>6, <1>8, <1>9, <1>10, DataFrame DEF IInv

-----------------------------------------------------------------------------
(***************************************************************************)
(* The steps of a receive and of a send.                                   *)
(***************************************************************************)
LEMMA BufferFacts ==
    ASSUME IInv
    PROVE  /\ BUFSIZE \in Nat /\ mBuffer \in Buffers(0 .. MAX_BYTES, BUFSIZE) /\ Apart(mBuffer)
           /\ Contents(mBuffer) \in Seq(0 .. MAX_BYTES) /\ Len(Contents(mBuffer)) \in Nat
           /\ MAX_BYTES \in Nat /\ arrived \in Nat /\ echoed \in Seq(0 .. MAX_BYTES)
  <1>1. /\ BUFSIZE \in Nat /\ mBuffer \in Buffers(0 .. MAX_BYTES, BUFSIZE) /\ Apart(mBuffer)
        /\ MAX_BYTES \in Nat /\ arrived \in Nat /\ echoed \in Seq(0 .. MAX_BYTES)
    BY ClientSessionAssumption DEF IInv, Placed, DataTypes
  <1>2. Contents(mBuffer) \in Seq(0 .. MAX_BYTES)
    BY <1>1, ContentsType
  <1>3. Len(Contents(mBuffer)) \in Nat
    BY <1>2, LenProperties
  <1> QED BY <1>1, <1>2, <1>3

\* A thread that handles the data does so alone.
LEMMA Alone ==
    ASSUME OneEcho, NEW t \in Threads, thread[t].at \in DataAts
    PROVE  /\ \A c \in Made : ~IsData(c)
           /\ \A v \in Threads : v # t => thread[v].at \notin DataAts
           /\ \A v \in Workers : v # t => ~Got(v) /\ ~Sent(v)
  BY DEF OneEcho, Got, Sent, DataAts, Threads

\* And so does an operation.
LEMMA OnlyOperation ==
    ASSUME OneEcho, NEW c \in Made, IsData(c)
    PROVE  /\ \A d \in Made : IsData(d) => d = c
           /\ \A v \in Threads : thread[v].at \notin DataAts
           /\ \A v \in Workers : ~Got(v) /\ ~Sent(v)
  BY DEF OneEcho, Got, Sent, DataAts, Threads

LEMMA CallPostRecvOK ==
    ASSUME IInv, NEW t \in Callers, CallPostRecv(t)
    PROVE  IInv'
  <1>1. LInv /\ Placed /\ Types /\ t \in Threads
    BY DEF IInv, LInv, Threads
  <1>2. PICK at : at = IF mConnected = 1 THEN "postrecv" ELSE "idle"
    OBVIOUS
  <1>3. /\ thread[t] = Idle /\ Goes(t, at)
        /\ overlapped' = (overlapped \/ (mConnected = 1 /\ Echoing))
        /\ UNCHANGED <<mConnected, mRefCount, mBuffer, context, pending, arrived, echoed,
                       main, process, running, free>>
    BY <1>2 DEF CallPostRecv, IsConnected
  <1>4. PICK s : s = [thread[t] EXCEPT !.at = at]
    OBVIOUS
  <1>5. /\ thread' = [thread EXCEPT ![t] = s] /\ s.at = at /\ s \in ThreadStates
    BY <1>1, <1>2, <1>3, <1>4, GoesTo
  <1>6. Quiet(t, s)
    <2>1. t \notin Workers
      BY ClientSessionAssumption
    <2> QED BY <1>2, <1>5, <2>1 DEF Quiet
  <1>7. Grows /\ Made' = Made /\ \A c \in Made' : Kept(c)
    BY <1>1, <1>3, SameContexts DEF Kept
  <1>8. at # "idle" => context # <<>>
    BY <1>1, <1>2 DEF LInv, Connection, Accepting
  <1>9. LInv'
    BY <1>1, <1>3, <1>5, <1>6, <1>7, <1>8, QuietOK
  <1>10. thread'[t] = s /\ \A v \in Threads : v # t => thread'[v] = thread[v]
    BY <1>1, <1>6, QuietMoves
  <1>11. Placed'
    <2>1. overlapped' \in BOOLEAN
      BY <1>3, Zenon
    <2> QED BY <1>1, <1>3, <1>7, <2>1 DEF Placed, DataTypes, Inside
  <1>12. ASSUME ~overlapped' PROVE DInv'
    <2>1. DInv /\ OneEcho /\ Stream
      BY <1>3, <1>12 DEF IInv, DInv
    <2>2. OneEcho'
      <3>1. CASE mConnected = 1
        <4>1. ~Echoing
          BY <1>3, <1>12, <3>1
        <4>2. \A v \in Threads : thread[v].at \notin DataAts
          BY <4>1 DEF Echoing, DataAts
        <4>3. \A c \in Made' : ~IsData(c)'
          BY <1>3, <4>1 DEF Echoing, IsData
        <4>4. \A v \in Threads : thread'[v].at \in DataAts => v = t
          BY <1>10, <4>2
        <4> QED BY <4>3, <4>4 DEF OneEcho
      <3>2. CASE mConnected # 1
        <4>1. s.at = "idle"
          BY <1>2, <1>5, <3>2
        <4>2. \A v \in Threads : thread'[v].at \in DataAts => thread[v].at \in DataAts
          BY <1>10, <4>1 DEF DataAts
        <4>3. \A c \in Made' : IsData(c)' => c \in Made /\ IsData(c)
          BY <1>7 DEF Kept, IsData
        <4> QED BY <2>1, <4>2, <4>3, OneEchoFrame
      <3> QED BY <3>1, <3>2
    <2>3. Stream'
      <3>1. \A w \in Workers : w \in Threads /\ w # t
        BY ClientSessionAssumption DEF Threads
      <3> QED BY <1>3, <1>7, <1>10, <2>1, <3>1, StreamFrame
    <2> QED BY <1>3, <2>1, <2>2, <2>3 DEF DInv
  <1> QED BY <1>9, <1>11, <1>12 DEF IInv

LEMMA PostRecvOK ==
    ASSUME IInv, NEW t \in Callers, PostRecv(t), UNCHANGED <<main, process, running, free, overlapped>>
    PROVE  IInv'
  <1>1. LInv /\ Placed /\ Types /\ t \in Threads
    BY DEF IInv, LInv, Threads
  <1>2. PICK b, io, c : /\ b = WithFreeSpace(mBuffer) /\ c = Len(context) + 1
                        /\ io = [ioType |-> "IO_RECV", buf |-> GetBuffer(b),
                                 len |-> GetFreeSpaceSize(mBuffer)]
    OBVIOUS
  <1>3. /\ thread[t].at = "postrecv" /\ mBuffer' = b /\ NewDataContext(io)
        /\ Started \/ UNCHANGED pending
        /\ Becomes(t, Idle) /\ UNCHANGED <<mConnected, arrived, echoed>>
    BY <1>2 DEF PostRecv
  <1>4. /\ WithFreeSpace(b) = b /\ GetFreeSpaceSize(b) = GetFreeSpaceSize(mBuffer)
        /\ GetFreeSpaceSize(mBuffer) \in 0 .. BUFSIZE /\ GetBuffer(b) \in 0 .. BUFSIZE
        /\ GetBuffer(b) + GetFreeSpaceSize(mBuffer) <= BUFSIZE
    BY <1>2, BufferFacts, RoomMade
  <1>5. b \in Buffers(0 .. MAX_BYTES, BUFSIZE) /\ Apart(b) /\ Contents(b) = Contents(mBuffer)
    BY <1>2, BufferFacts, WithFreeSpaceFields, WithFreeSpaceContents
  <1>6. /\ io \in IoContexts /\ io.ioType = "IO_RECV" /\ io.buf = GetBuffer(b)
        /\ io.len = GetFreeSpaceSize(b) /\ io.buf # nullptr
    BY <1>2, <1>4 DEF IoContexts, nullptr
  <1>7. context # <<>>
    BY <1>1, <1>3 DEF LInv, Connection
  <1>8. /\ Grows /\ Made' = Made \cup {c} /\ c \notin Made /\ context'[c] = io
        /\ \A d \in Made : Kept(d)
    BY <1>1, <1>2, <1>3, <1>6, <1>7, NewDataGrows
  <1>9. Quiet(t, Idle) /\ Idle.at = "idle"
    <2>1. t \notin Workers
      BY ClientSessionAssumption
    <2>2. Idle \in ThreadStates /\ Idle.at = "idle"
      BY ClientSessionAssumption DEF Idle, ThreadStates
    <2> QED BY <1>3, <2>1, <2>2 DEF Quiet, Becomes
  <1>10. LInv'
    BY <1>1, <1>3, <1>8, <1>9, QuietOK
  <1>11. thread'[t] = Idle /\ \A v \in Threads : v # t => thread'[v] = thread[v]
    BY <1>1, <1>9, QuietMoves
  <1>12. Placed'
    <2>1. Inside(c)'
      BY <1>2, <1>4, <1>6, <1>8 DEF Inside
    <2>2. \A d \in Made : Inside(d)'
      BY <1>1, <1>8 DEF Placed, Inside, Kept
    <2> QED BY <1>1, <1>3, <1>5, <1>8, <2>1, <2>2 DEF Placed, DataTypes
  <1>13. ASSUME DInv PROVE DInv'
    <2>1. /\ \A d \in Made : ~IsData(d)
          /\ \A v \in Threads : v # t => thread[v].at \notin DataAts
          /\ \A v \in Workers : v # t => ~Got(v) /\ ~Sent(v)
      BY <1>1, <1>3, <1>13, Alone DEF DInv, DataAts
    <2>2. /\ \A d \in Made' : IsData(d)' => d = c
          /\ \A v \in Threads : thread'[v].at \notin DataAts
      BY <1>8, <1>9, <1>11, <2>1 DEF IsData, Kept, DataAts
    <2>3. OneEcho'
      BY <2>2 DEF OneEcho
    <2>4. \A w \in Workers : w \in Threads /\ w # t /\ ~Got(w) /\ ~Sent(w) /\ ~Got(w)' /\ ~Sent(w)'
      <3>1. \A w \in Workers : w \in Threads /\ w # t
        BY ClientSessionAssumption DEF Threads
      <3> QED BY <1>11, <2>1, <3>1 DEF Got, Sent
    <2>5. \A d \in Made : Aims(d)'
      BY <1>8, <2>1 DEF Kept, IsData, Aims
    <2>6. Aims(c)'
      <3>1. GetFreeSpaceSize(b) <= GetFreeSpaceSize(b)
        BY <1>4
      <3>2. Room(io.len)'
        BY <1>3, <1>4, <1>6, <3>1 DEF Room
      <3> QED BY <1>3, <1>6, <1>8, <3>2 DEF Aims
    <2>7. Joined(echoed', Contents(mBuffer'), Numbered(arrived'))
      <3>1. Joined(echoed, Contents(mBuffer), Numbered(arrived))
        BY <1>13, <2>4 DEF DInv, Stream
      <3> QED BY <1>3, <1>5, <3>1
    <2>8. Stream'
      BY <1>8, <2>4, <2>5, <2>6, <2>7 DEF Stream
    <2> QED BY <1>13, <2>3, <2>8 DEF DInv
  <1> QED BY <1>10, <1>12, <1>13, DataStep

LEMMA DequeueOK ==
    ASSUME IInv, NEW w \in Workers, NEW c \in pending, Dequeue(w, c)
    PROVE  IInv'
  <1>1. LInv /\ Placed /\ Types /\ w \in Threads
    BY DEF IInv, LInv, Threads
  <1>2. PICK at \in {"IO_ACCEPT", "IO_DISCONNECT"} : at = context[c].ioType
    BY DEF Dequeue
  <1>3. Takes(w, c, at, 0) /\ UNCHANGED <<mBuffer, arrived, echoed>>
    BY <1>2 DEF Dequeue
  <1>4. at \in WorkerAts /\ (at = "IO_ACCEPT" <=> Accept(c)) /\ (at = "IO_DISCONNECT" <=> Disc(c))
    BY <1>2 DEF WorkerAts, Accept, Disc
  <1>5. 0 \in 0 .. BUFSIZE
    BY BufferFacts
  <1>6. /\ LInv' /\ thread[w].at = "idle" /\ thread'[w].at = at
        /\ \A v \in Threads : v # w => thread'[v] = thread[v]
    BY <1>1, <1>3, <1>4, <1>5, TakesOK
  <1>7. \A v \in Threads : thread'[v] = thread[v] \/ Passive(v)
    BY <1>2, <1>6 DEF Passive, DataAts
  <1>8. (\A d \in Made' : Kept(d)) /\ process' = process /\ overlapped' = overlapped
    BY <1>3 DEF Takes, Kept, Made
  <1> QED BY <1>1, <1>3, <1>6, <1>7, <1>8, DataFrame DEF IInv

LEMMA DequeueRecvOK ==
    ASSUME IInv, NEW w \in Workers, NEW c \in pending, NEW n \in 0 .. BUFSIZE, DequeueRecv(w, c, n)
    PROVE  IInv'
  <1>1. LInv /\ Placed /\ Types /\ w \in Threads /\ c \in Made
    BY DEF IInv, LInv, Types, Threads
  <1>2. PICK data : data = [i \in 1 .. n |-> arrived + i]
    OBVIOUS
  <1>3. /\ context[c].ioType = "IO_RECV" /\ n \in 1 .. context[c].len /\ arrived + n <= MAX_BYTES
        /\ Takes(w, c, "received", n) /\ mBuffer' = Memcpy(mBuffer, context[c].buf, data)
        /\ arrived' = arrived + n /\ UNCHANGED echoed
    BY <1>2 DEF DequeueRecv
  <1>4. "received" \in WorkerAts /\ ~Accept(c) /\ ~Disc(c)
    BY <1>3 DEF WorkerAts, Accept, Disc
  <1>5. /\ LInv' /\ thread[w].at = "idle" /\ thread'[w].at = "received"
        /\ thread'[w].transferred = n
        /\ \A v \in Threads : v # w => thread'[v] = thread[v]
    BY <1>1, <1>3, <1>4, TakesOK
  <1>6. /\ Made' = Made /\ context' = context /\ pending' = pending \ {c}
        /\ process' = process /\ overlapped' = overlapped
    BY <1>3 DEF Takes, Made
  <1>7. n \in Nat /\ arrived \in Nat /\ arrived' \in 0 .. MAX_BYTES /\ (arrived + n) - n = arrived
    BY <1>3, BufferFacts
  <1>8. data \in Seq(0 .. MAX_BYTES) /\ Len(data) = n
    <2>1. \A i \in 1 .. n : arrived + i \in 0 .. MAX_BYTES
      <3>1. MAX_BYTES \in Nat
        BY BufferFacts
      <3> QED BY <1>3, <1>7, <3>1
    <2> QED BY <1>2, <1>7, <2>1
  <1>9. context[c].buf \in Int /\ context[c].len \in Nat
    BY <1>1, LengthFacts DEF IoContexts
  <1>10. Placed'
    <2>1. mBuffer' \in Buffers(0 .. MAX_BYTES, BUFSIZE) /\ Apart(mBuffer')
      BY <1>3, <1>8, <1>9, BufferFacts, MemcpyType
    <2> QED BY <1>1, <1>3, <1>6, <1>7, <2>1 DEF Placed, DataTypes, Inside
  <1>11. ASSUME DInv PROVE DInv'
    <2>1. Aims(c)
      BY <1>1, <1>11 DEF DInv, Stream
    <2>2. IsData(c)
      BY <1>1, <1>3, <1>9 DEF Placed, Inside, IsData
    <2>3. /\ context[c].buf = GetBuffer(mBuffer) /\ WithFreeSpace(mBuffer) = mBuffer
          /\ context[c].len <= GetFreeSpaceSize(mBuffer)
      BY <1>3, <2>1, <2>2 DEF Aims, Room
    <2>4. n <= GetFreeSpaceSize(mBuffer)
      <3>1. GetFreeSpaceSize(mBuffer) \in Nat
        BY BufferFacts, RoomMade
      <3> QED BY <1>3, <1>7, <1>9, <2>3, <3>1
    <2>5. /\ WithFreeSpace(mBuffer') = mBuffer'
          /\ GetFreeSpaceSize(mBuffer') = GetFreeSpaceSize(mBuffer)
          /\ GetBuffer(mBuffer') = GetBuffer(mBuffer) /\ Contents(mBuffer') = Contents(mBuffer)
          /\ BytesAt(mBuffer', GetBuffer(mBuffer'), n) = data
      BY <1>3, <1>8, <2>3, <2>4, BufferFacts, RoomFilled
    <2>6. /\ \A d \in Made : IsData(d) => d = c
          /\ \A v \in Threads : thread[v].at \notin DataAts
          /\ \A v \in Workers : ~Got(v) /\ ~Sent(v)
      BY <1>1, <1>11, <2>2, OnlyOperation DEF DInv
    <2>7. /\ \A d \in Made' : ~IsData(d)'
          /\ \A v \in Threads : thread'[v].at \in DataAts => v = w
      BY <1>5, <1>6, <2>6 DEF IsData
    <2>8. OneEcho'
      BY <2>7 DEF OneEcho
    <2>9. \A v \in Workers : ~Sent(v)' /\ (Got(v)' <=> v = w)
      BY <1>5, <2>6 DEF Got, Sent, Threads
    <2>10. \A d \in Made' : Aims(d)'
      BY <2>7 DEF Aims
    <2>11. n \in 1 .. arrived' /\ Room(n)' /\ Newest(n)'
      <3>1. n \in 1 .. arrived' /\ arrived' - n = arrived
        BY <1>3, <1>7
      <3>2. Room(n)'
        BY <2>4, <2>5 DEF Room
      <3>3. Newest(n)'
        BY <1>2, <2>5, <3>1 DEF Newest
      <3> QED BY <3>1, <3>2, <3>3
    <2>12. Joined(echoed', Contents(mBuffer'), Numbered(arrived' - n))
      <3>1. Joined(echoed, Contents(mBuffer), Numbered(arrived))
        BY <1>11, <2>6 DEF DInv, Stream
      <3>2. arrived' - n = arrived
        BY <1>3, <1>7
      <3> QED BY <1>3, <2>5, <3>1, <3>2
    <2>13. Stream'
      <3>1. \A v \in Workers : Got(v)' =>
               /\ thread'[v].transferred \in 1 .. arrived'
               /\ Room(thread[v].transferred)' /\ Newest(thread[v].transferred)'
               /\ Joined(echoed', Contents(mBuffer'), Numbered(arrived' - thread'[v].transferred))
        BY <1>5, <2>9, <2>11, <2>12 DEF Room, Newest
      <3> QED BY <2>9, <2>10, <3>1 DEF Stream
    <2> QED BY <1>6, <1>11, <2>8, <2>13 DEF DInv
  <1> QED BY <1>5, <1>6, <1>10, <1>11, DataStep

\* A failed receive writes no more than zeros to its room.
LEMMA DequeueErrorOK ==
    ASSUME IInv, NEW w \in Workers, NEW c \in pending, NEW n \in 0 .. BUFSIZE, DequeueError(w, c, n)
    PROVE  IInv'
  <1>1. LInv /\ Placed /\ Types /\ w \in Threads /\ c \in Made
    BY DEF IInv, LInv, Types, Threads
  <1>2. PICK data : data = [i \in 1 .. n |-> 0]
    OBVIOUS
  <1>3. /\ context[c].ioType \in {"IO_RECV", "IO_SEND"} /\ n <= context[c].len
        /\ Takes(w, c, "closing", 0)
        /\ mBuffer' = IF context[c].ioType = "IO_RECV"
                      THEN Memcpy(mBuffer, context[c].buf, data) ELSE mBuffer
        /\ UNCHANGED <<arrived, echoed>>
    BY <1>2 DEF DequeueError
  <1>4. "closing" \in WorkerAts /\ ~Accept(c) /\ ~Disc(c) /\ 0 \in 0 .. BUFSIZE
    BY <1>3, BufferFacts DEF WorkerAts, Accept, Disc
  <1>5. /\ LInv' /\ thread[w].at = "idle" /\ thread'[w].at = "closing"
        /\ \A v \in Threads : v # w => thread'[v] = thread[v]
    BY <1>1, <1>3, <1>4, TakesOK
  <1>6. /\ Made' = Made /\ context' = context /\ pending' = pending \ {c}
        /\ process' = process /\ overlapped' = overlapped /\ \A d \in Made' : Kept(d)
    BY <1>3 DEF Takes, Kept, Made
  <1>7. \A v \in Threads : thread'[v] = thread[v] \/ Passive(v)
    BY <1>5 DEF Passive, DataAts
  <1>8. /\ n \in Nat /\ data \in Seq(0 .. MAX_BYTES) /\ Len(data) = n
        /\ context[c].buf \in Int /\ context[c].len \in Nat
    <2>1. PICK Byte : Byte = 0 .. MAX_BYTES
      OBVIOUS
    <2>3. n \in Nat /\ 0 \in Byte
      BY <2>1, BufferFacts
    <2>4. data \in Seq(Byte) /\ Len(data) = n
      BY <1>2, <2>3
    <2>2. context[c].buf \in Int /\ context[c].len \in Nat
      BY <1>1, LengthFacts DEF IoContexts
    <2> QED BY <2>1, <2>2, <2>3, <2>4
  <1>9. CASE mBuffer' = mBuffer
    BY <1>3, <1>5, <1>6, <1>7, <1>9, DataFrame DEF IInv
  <1>10. CASE mBuffer' # mBuffer
    <2>1. context[c].ioType = "IO_RECV" /\ mBuffer' = Memcpy(mBuffer, context[c].buf, data)
      BY <1>3, <1>10
    <2>2. n # 0
      BY <1>8, <1>10, <2>1, BufferFacts, NothingWritten
    <2>3. Placed'
      <3>1. mBuffer' \in Buffers(0 .. MAX_BYTES, BUFSIZE) /\ Apart(mBuffer')
        BY <1>8, <2>1, BufferFacts, MemcpyType
      <3> QED BY <1>1, <1>3, <1>6, <3>1 DEF Placed, DataTypes, Inside
    <2>4. ASSUME DInv PROVE DInv'
      <3>1. Aims(c)
        BY <1>1, <2>4 DEF DInv, Stream
      <3>2. IsData(c)
        BY <1>1, <1>3, <1>8, <2>2 DEF Placed, Inside, IsData
      <3>3. /\ context[c].buf = GetBuffer(mBuffer) /\ WithFreeSpace(mBuffer) = mBuffer
            /\ context[c].len <= GetFreeSpaceSize(mBuffer)
        BY <2>1, <3>1, <3>2 DEF Aims, Room
      <3>4. n <= GetFreeSpaceSize(mBuffer)
        <4>1. GetFreeSpaceSize(mBuffer) \in Nat
          BY BufferFacts, RoomMade
        <4> QED BY <1>3, <1>8, <3>3, <4>1
      <3>5. Contents(mBuffer') = Contents(mBuffer)
        BY <1>8, <2>1, <3>3, <3>4, BufferFacts, RoomFilled
      <3>6. /\ \A d \in Made : IsData(d) => d = c
            /\ \A v \in Threads : thread[v].at \notin DataAts
            /\ \A v \in Workers : ~Got(v) /\ ~Sent(v)
        BY <1>1, <2>4, <3>2, OnlyOperation DEF DInv
      <3>7. /\ \A d \in Made' : ~IsData(d)'
            /\ \A v \in Threads : thread'[v].at \notin DataAts
        BY <1>5, <1>6, <3>6 DEF IsData, DataAts
      <3>8. \A v \in Workers : ~Got(v)' /\ ~Sent(v)'
        BY <3>7 DEF Got, Sent, Threads, DataAts
      <3>9. Joined(echoed', Contents(mBuffer'), Numbered(arrived'))
        BY <1>3, <2>4, <3>5, <3>6 DEF DInv, Stream
      <3>10. OneEcho' /\ Stream'
        BY <3>7, <3>8, <3>9 DEF OneEcho, Stream, Aims
      <3> QED BY <1>6, <2>4, <3>10 DEF DInv
    <2> QED BY <1>5, <1>6, <2>3, <2>4, DataStep
  <1> QED BY <1>9, <1>10

\* What Fits says where the room has been asked for.
LEMMA FitsRoom ==
    ASSUME NEW n, WithFreeSpace(mBuffer) = mBuffer
    PROVE  Fits(mBuffer, n) <=> n <= GetFreeSpaceSize(mBuffer)
  BY DEF Fits, GetFreeSpaceSize

LEMMA RecvCompletionOK ==
    ASSUME IInv, NEW w \in Workers, RecvCompletion(w), UNCHANGED <<main, process, running, free, overlapped>>
    PROVE  IInv'
  <1>1. LInv /\ Placed /\ Types /\ w \in Threads
    BY DEF IInv, LInv, Threads
  <1>2. PICK n : n = thread[w].transferred
    OBVIOUS
  <1>3. /\ thread[w].at = "received" /\ Fits(mBuffer, n) /\ mBuffer' = Commit(mBuffer, n)
        /\ Goes(w, "sending")
        /\ UNCHANGED <<mConnected, mRefCount, context, pending, arrived, echoed>>
    BY <1>2 DEF RecvCompletion
  <1>4. PICK s : s = [thread[w] EXCEPT !.at = "sending"]
    OBVIOUS
  <1>5. Quiet(w, s) /\ s.at = "sending"
    BY <1>1, <1>3, <1>4, GoesQuiet DEF WorkerAts
  <1>6. Grows /\ Made' = Made /\ \A c \in Made' : Kept(c)
    BY <1>1, <1>3, SameContexts DEF Kept
  <1>7. LInv'
    BY <1>1, <1>3, <1>5, <1>6, QuietOK DEF LInv, Connection
  <1>8. thread'[w] = s /\ \A v \in Threads : v # w => thread'[v] = thread[v]
    BY <1>1, <1>5, QuietMoves
  <1>9. Placed'
    <2>1. n \in Nat
      <3>1. thread[w] \in ThreadStates
        BY <1>1 DEF Types, ThreadTypes
      <3> QED BY <1>2, <3>1, BufferFacts DEF ThreadStates
    <2>2. mBuffer' \in Buffers(0 .. MAX_BYTES, BUFSIZE) /\ Apart(mBuffer')
      BY <1>3, <2>1, BufferFacts, CommitType DEF Fits
    <2> QED BY <1>1, <1>3, <1>6, <2>2 DEF Placed, DataTypes, Inside
  <1>10. ASSUME DInv PROVE DInv'
    <2>1. PICK m : m = arrived - n
      OBVIOUS
    <2>2. PICK data : data = [i \in 1 .. n |-> m + i]
      OBVIOUS
    <2>3. /\ n \in 1 .. arrived /\ WithFreeSpace(mBuffer) = mBuffer /\ n <= GetFreeSpaceSize(mBuffer)
          /\ BytesAt(mBuffer, GetBuffer(mBuffer), n) = data
          /\ Joined(echoed, Contents(mBuffer), Numbered(m))
      BY <1>2, <1>3, <1>10, <2>1, <2>2 DEF DInv, Stream, Got, Room, Newest
    <2>4. n \in Nat /\ m \in Nat /\ m + n = arrived /\ arrived \in 0 .. MAX_BYTES
      <3>1. arrived \in 0 .. MAX_BYTES /\ MAX_BYTES \in Nat
        BY <1>1, ClientSessionAssumption DEF Placed, DataTypes
      <3> QED BY <2>1, <2>3, <3>1
    <2>5. Len(data) = n /\ Numbered(m) \o data = Numbered(arrived)
      BY <2>2, <2>4, NumberedGrows
    <2>6. data \in Seq(0 .. MAX_BYTES)
      <3>1. \A i \in 1 .. n : m + i \in 0 .. MAX_BYTES
        <4>1. MAX_BYTES \in Nat
          BY ClientSessionAssumption
        <4> QED BY <2>4, <4>1
      <3> QED BY <2>2, <2>4, <3>1
    <2>7. Contents(mBuffer') = Contents(mBuffer) \o data
      <3>1. PICK b, Byte : b = mBuffer /\ Byte = 0 .. MAX_BYTES
        OBVIOUS
      <3>2. /\ BUFSIZE \in Nat /\ b \in Buffers(Byte, BUFSIZE) /\ Apart(b) /\ WithFreeSpace(b) = b
            /\ data \in Seq(Byte) /\ Len(data) <= GetFreeSpaceSize(b)
        BY <2>3, <2>5, <2>6, <3>1, BufferFacts
      <3>3. BytesAt(b, GetBuffer(b), Len(data)) = data
        BY <2>3, <2>5, <3>1
      <3>4. Contents(Commit(b, Len(data))) = Contents(b) \o data
        BY <3>2, <3>3, RoomCommitted
      <3> QED BY <1>3, <2>5, <3>1, <3>4
    <2>8. Joined(echoed', Contents(mBuffer'), Numbered(arrived'))
      <3>1. Joined(Numbered(m), data, Numbered(arrived))
        BY <2>5 DEF Joined
      <3>2. Joined(echoed, Contents(mBuffer) \o data, Numbered(arrived))
        BY <2>3, <2>6, <3>1, BufferFacts, StreamGrows
      <3> QED BY <1>3, <2>7, <3>2
    <2>9. /\ \A c \in Made : ~IsData(c)
          /\ \A v \in Threads : v # w => thread[v].at \notin DataAts
          /\ \A v \in Workers : v # w => ~Got(v) /\ ~Sent(v)
      BY <1>1, <1>3, <1>10, Alone DEF DInv, DataAts
    <2>10. /\ \A c \in Made' : ~IsData(c)'
           /\ \A v \in Threads : thread'[v].at \in DataAts => v = w
           /\ \A v \in Workers : ~Got(v)' /\ ~Sent(v)'
      BY <1>3, <1>5, <1>6, <1>8, <2>9 DEF IsData, Got, Sent, Threads
    <2>11. OneEcho'
      BY <2>10 DEF OneEcho
    <2>12. Stream'
      BY <2>8, <2>10 DEF Aims, Stream
    <2> QED BY <1>10, <2>11, <2>12 DEF DInv
  <1> QED BY <1>7, <1>9, <1>10, DataStep

\* Only where receives have overlapped does a commit find too little room.
LEMMA RecvOverrunsOK ==
    ASSUME IInv, NEW w \in Workers, RecvOverruns(w)
    PROVE  IInv' /\ overlapped
  <1>1. LInv /\ Placed /\ Types
    BY DEF IInv, LInv
  <1>2. /\ thread[w].at = "received" /\ ~Fits(mBuffer, thread[w].transferred)
        /\ process' = "overrun"
        /\ UNCHANGED session /\ UNCHANGED <<main, running, free, overlapped>>
    BY DEF RecvOverruns
  <1>3. overlapped
    <2>1. ASSUME DInv PROVE FALSE
      <3>1. Room(thread[w].transferred)
        BY <1>2, <2>1 DEF DInv, Stream, Got
      <3> QED BY <1>2, <3>1, FitsRoom DEF Room
    <2> QED BY <2>1 DEF IInv
  <1>4. LInv'
    BY <1>1, <1>2, MainOK DEF Types, Ends
  <1>5. Placed'
    BY <1>1, <1>2 DEF session, Placed, DataTypes, Made, Inside
  <1> QED BY <1>2, <1>3, <1>4, <1>5 DEF IInv

\* A session without bytes has no place to send from.
LEMMA NothingToSend ==
    ASSUME IInv, GetContiguiousBytes(mBuffer) = 0
    PROVE  GetBufferStart(mBuffer) = nullptr
  <1>1. mBuffer.mARegionSize \in Nat
    BY BufferFacts DEF Buffers
  <1>2. mBuffer.mARegionSize = 0
    BY <1>1 DEF GetContiguiousBytes
  <1> QED BY <1>2, BufferFacts DEF Apart, GetBufferStart

LEMMA PostSendOK ==
    ASSUME IInv, NEW w \in Workers, PostSend(w), UNCHANGED <<main, process, running, free, overlapped>>
    PROVE  IInv'
  <1>1. LInv /\ Placed /\ Types /\ w \in Threads
    BY DEF IInv, LInv, Threads
  <1>2. PICK io, c : /\ io = [ioType |-> "IO_SEND", buf |-> GetBufferStart(mBuffer),
                              len |-> GetContiguiousBytes(mBuffer)]
                     /\ c = Len(context) + 1
    OBVIOUS
  <1>3. /\ thread[w].at = "postsend" /\ NewDataContext(io)
        /\ \/ Started /\ Becomes(w, Idle)
           \/ UNCHANGED pending /\ Goes(w, "closing")
        /\ UNCHANGED <<mConnected, mBuffer, arrived, echoed>>
    BY <1>2 DEF PostSend
  <1>4. /\ GetContiguiousBytes(mBuffer) \in 0 .. BUFSIZE
        /\ GetContiguiousBytes(mBuffer) > 0 => GetBufferStart(mBuffer) \in 0 .. BUFSIZE
    BY BufferFacts, ContiguousBound
  <1>5. /\ GetBufferStart(mBuffer) \in -1 .. BUFSIZE
        /\ GetBufferStart(mBuffer) = nullptr <=> GetContiguiousBytes(mBuffer) = 0
    <2>1. BUFSIZE \in Nat
      BY ClientSessionAssumption
    <2> QED BY <1>4, <2>1, NothingToSend DEF nullptr
  <1>6. /\ io \in IoContexts /\ io.ioType = "IO_SEND" /\ io.buf = GetBufferStart(mBuffer)
        /\ io.len = GetContiguiousBytes(mBuffer)
    BY <1>2, <1>4, <1>5 DEF IoContexts
  <1>7. context # <<>>
    BY <1>1, <1>3 DEF LInv, Connection
  <1>8. /\ Grows /\ Made' = Made \cup {c} /\ c \notin Made /\ context'[c] = io
        /\ c \notin pending /\ \A d \in Made : Kept(d)
    BY <1>1, <1>2, <1>3, <1>6, <1>7, NewDataGrows
  <1>9. PICK s : Quiet(w, s) /\ s.at \in {"idle", "closing"}
    <2>1. CASE Becomes(w, Idle)
      BY <1>1, <1>3, <2>1, ReturnsQuiet
    <2>2. CASE Goes(w, "closing")
      <3>1. PICK z : z = [thread[w] EXCEPT !.at = "closing"]
        OBVIOUS
      <3>2. Quiet(w, z) /\ z.at = "closing"
        BY <1>1, <1>3, <2>2, <3>1, GoesQuiet DEF WorkerAts
      <3> QED BY <3>2
    <2> QED BY <1>3, <2>1, <2>2
  <1>10. LInv'
    BY <1>1, <1>3, <1>7, <1>8, <1>9, QuietOK
  <1>11. thread'[w] = s /\ \A v \in Threads : v # w => thread'[v] = thread[v]
    BY <1>1, <1>9, QuietMoves
  <1>12. Inside(c)' /\ Aims(c)'
    <2>1. io.len <= GetContiguiousBytes(mBuffer)
      BY <1>4, <1>6
    <2>2. io.buf = nullptr => io.len = 0
      BY <1>5, <1>6
    <2>3. io.buf # nullptr => io.buf + io.len <= BUFSIZE
      <3>1. SUFFICES ASSUME io.buf # nullptr PROVE io.buf + io.len <= BUFSIZE
        OBVIOUS
      <3>2. GetContiguiousBytes(mBuffer) > 0
        BY <1>4, <1>5, <1>6, <3>1
      <3>3. /\ GetContiguiousBytes(mBuffer) = mBuffer.mARegionSize
            /\ GetBufferStart(mBuffer) = mBuffer.mARegionPointer
        BY <3>2, BufferFacts, OldestBytes
      <3>4. mBuffer.mARegionPointer + mBuffer.mARegionSize <= BUFSIZE
        BY BufferFacts DEF Apart, Buffers
      <3> QED BY <1>6, <3>3, <3>4
    <2>4. context'[c].ioType # "IO_RECV"
      BY <1>6, <1>8
    <2> QED BY <1>3, <1>6, <1>8, <2>1, <2>2, <2>3, <2>4 DEF Aims, Inside
  <1>13. Placed'
    <2>1. \A d \in Made : Inside(d)'
      BY <1>1, <1>8 DEF Placed, Inside, Kept
    <2> QED BY <1>1, <1>3, <1>8, <1>12, <2>1 DEF Placed, DataTypes
  <1>14. ASSUME DInv PROVE DInv'
    <2>1. /\ \A d \in Made : ~IsData(d)
          /\ \A v \in Threads : v # w => thread[v].at \notin DataAts
      BY <1>1, <1>3, <1>14, Alone DEF DInv, DataAts
    <2>2. /\ \A d \in Made' : IsData(d)' => d = c
          /\ \A v \in Threads : thread'[v].at \notin DataAts
      BY <1>8, <1>9, <1>11, <2>1 DEF IsData, Kept, DataAts
    <2>3. OneEcho'
      BY <2>2 DEF OneEcho
    <2>4. \A v \in Workers : \/ thread'[v] = thread[v]
                             \/ /\ thread[v].at \notin {"received", "sent"}
                                /\ thread'[v].at \notin {"received", "sent"}
      BY <1>3, <1>9, <1>11 DEF Threads
    <2>5. Stream'
      BY <1>3, <1>8, <1>12, <1>14, <2>4, StreamFrame DEF DInv
    <2> QED BY <1>14, <2>3, <2>5 DEF DInv
  <1> QED BY <1>10, <1>13, <1>14, DataStep

\* n of the oldest bytes are taken: the rest is still joined to them.
LEMMA SendTakes ==
    ASSUME NEW S, NEW sent \in Seq(S), NEW s \in Seq(S), NEW n \in 0 .. Len(s), NEW all,
           Joined(sent, s, all)
    PROVE  /\ sent \o SubSeq(s, 1, n) \in Seq(S)
           /\ Joined(sent \o SubSeq(s, 1, n), SubSeq(s, n + 1, Len(s)), all)
  <1>1. PICK gone, rest : gone = SubSeq(s, 1, n) /\ rest = SubSeq(s, n + 1, Len(s))
    OBVIOUS
  <1>2. gone \o rest = s
    BY <1>1, RestSplit
  <1>0. gone \in Seq(S) /\ rest \in Seq(S)
    BY <1>1, RestSplit
  <1>3. (sent \o gone) \o rest = sent \o (gone \o rest)
    BY <1>0, ConcatAssociative
  <1>4. sent \o s = all
    BY DEF Joined
  <1>5. (sent \o gone) \o rest = all
    BY <1>2, <1>3, <1>4
  <1>6. sent \o gone \in Seq(S)
    BY <1>0, ConcatProperties
  <1> QED BY <1>1, <1>5, <1>6 DEF Joined

LEMMA DequeueSendOK ==
    ASSUME IInv, NEW w \in Workers, NEW c \in pending, NEW n \in 0 .. BUFSIZE, DequeueSend(w, c, n)
    PROVE  IInv'
  <1>1. LInv /\ Placed /\ Types /\ w \in Threads /\ c \in Made
    BY DEF IInv, LInv, Types, Threads
  <1>2. PICK bytes : bytes = BytesAt(mBuffer, context[c].buf, n)
    OBVIOUS
  <1>3. /\ context[c].ioType = "IO_SEND" /\ n \in 1 .. context[c].len
        /\ Takes(w, c, "sent", n) /\ echoed' = echoed \o bytes
        /\ UNCHANGED <<mBuffer, arrived>>
    BY <1>2 DEF DequeueSend
  <1>4. "sent" \in WorkerAts /\ ~Accept(c) /\ ~Disc(c)
    BY <1>3 DEF WorkerAts, Accept, Disc
  <1>5. /\ LInv' /\ thread[w].at = "idle" /\ thread'[w].at = "sent" /\ thread'[w].transferred = n
        /\ \A v \in Threads : v # w => thread'[v] = thread[v]
    BY <1>1, <1>3, <1>4, TakesOK
  <1>6. /\ Made' = Made /\ context' = context /\ pending' = pending \ {c}
        /\ process' = process /\ overlapped' = overlapped
    BY <1>3 DEF Takes, Made
  <1>7. n \in Nat /\ n # 0 /\ context[c].buf \in -1 .. BUFSIZE /\ context[c].len \in Nat
    <2>1. BUFSIZE \in Nat /\ context[c] \in IoContexts
      BY <1>1, BufferFacts, LengthFacts
    <2> QED BY <1>3, <2>1 DEF IoContexts
  <1>8. context[c].buf # nullptr /\ context[c].buf + context[c].len <= BUFSIZE
    BY <1>1, <1>3, <1>7 DEF Placed, Inside
  <1>9. Placed'
    <2>1. PICK Byte : Byte = 0 .. MAX_BYTES
      OBVIOUS
    <2>2. context[c].buf \in Nat /\ context[c].buf + n <= BUFSIZE
      <3>1. BUFSIZE \in Nat
        BY BufferFacts
      <3> QED BY <1>3, <1>7, <1>8, <3>1 DEF nullptr
    <2>3. mBuffer \in Buffers(Byte, BUFSIZE) /\ BUFSIZE \in Nat /\ echoed \in Seq(Byte)
      BY <2>1, BufferFacts
    <2>4. bytes \in Seq(Byte)
      BY <1>2, <1>7, <2>2, <2>3, BytesAtType
    <2>5. echoed' \in Seq(Byte)
      BY <1>3, <2>3, <2>4, ConcatProperties
    <2> QED BY <1>1, <1>3, <1>6, <2>1, <2>5 DEF Placed, DataTypes, Inside
  <1>10. ASSUME DInv PROVE DInv'
    <2>1. PICK kept : kept = Contents(mBuffer)
      OBVIOUS
    <2>2. IsData(c)
      BY <1>8 DEF IsData
    <2>3. context[c].buf = GetBufferStart(mBuffer) /\ context[c].len <= GetContiguiousBytes(mBuffer)
      BY <1>1, <1>3, <1>10, <2>2 DEF DInv, Stream, Aims
    <2>4. /\ n \in 0 .. GetContiguiousBytes(mBuffer) /\ n \in 0 .. Len(kept)
          /\ n \in 1 .. GetContiguiousBytes(mBuffer)
      <3>1. GetContiguiousBytes(mBuffer) \in Nat /\ GetContiguiousBytes(mBuffer) <= Len(kept)
        BY <2>1, BufferFacts, ContiguousBound
      <3>2. Len(kept) \in Nat
        BY <2>1, BufferFacts
      <3> QED BY <1>3, <1>7, <2>3, <3>1, <3>2
    <2>5. echoed' = echoed \o SubSeq(kept, 1, n)
      BY <1>2, <1>3, <2>1, <2>3, <2>4, BufferFacts, BytesTransferred
    <2>6. /\ \A d \in Made : IsData(d) => d = c
          /\ \A v \in Threads : thread[v].at \notin DataAts
          /\ \A v \in Workers : ~Got(v) /\ ~Sent(v)
      BY <1>1, <1>10, <2>2, OnlyOperation DEF DInv
    <2>7. Joined(echoed', SubSeq(kept, n + 1, Len(kept)), Numbered(arrived))
      <3>1. Joined(echoed, kept, Numbered(arrived))
        BY <1>10, <2>1, <2>6 DEF DInv, Stream
      <3>2. PICK Byte : Byte = 0 .. MAX_BYTES
        OBVIOUS
      <3>3. echoed \in Seq(Byte) /\ kept \in Seq(Byte)
        BY <2>1, <3>2, BufferFacts
      <3> QED BY <2>4, <2>5, <3>1, <3>3, SendTakes
    <2>8. /\ \A d \in Made' : ~IsData(d)'
          /\ \A v \in Threads : thread'[v].at \in DataAts => v = w
      BY <1>5, <1>6, <2>6 DEF IsData
    <2>9. OneEcho'
      BY <2>8 DEF OneEcho
    <2>10. \A v \in Workers : ~Got(v)' /\ (Sent(v)' <=> v = w)
      BY <1>5, <2>6 DEF Got, Sent, Threads
    <2>11. \A d \in Made' : Aims(d)'
      BY <2>8 DEF Aims
    <2>12. Stream'
      <3>1. Joined(echoed', Rest(n)', Numbered(arrived'))
        BY <1>3, <2>1, <2>7 DEF Rest
      <3>2. \A v \in Workers : Sent(v)' =>
               /\ thread'[v].transferred \in 1 .. GetContiguiousBytes(mBuffer')
               /\ Joined(echoed', Rest(thread[v].transferred)', Numbered(arrived'))
        BY <1>3, <1>5, <2>4, <2>10, <3>1 DEF Rest
      <3> QED BY <2>10, <2>11, <3>2 DEF Stream
    <2> QED BY <1>6, <1>10, <2>9, <2>12 DEF DInv
  <1> QED BY <1>5, <1>6, <1>9, <1>10, DataStep

LEMMA SendCompletionOK ==
    ASSUME IInv, NEW w \in Workers, SendCompletion(w), UNCHANGED <<main, process, running, free, overlapped>>
    PROVE  IInv'
  <1>1. LInv /\ Placed /\ Types /\ w \in Threads
    BY DEF IInv, LInv, Threads
  <1>2. PICK n : n = thread[w].transferred
    OBVIOUS
  <1>3. /\ thread[w].at = "sent" /\ mBuffer' = Remove(mBuffer, n)
        /\ UNCHANGED <<mConnected, mRefCount, context, pending, arrived, echoed>>
    BY <1>2 DEF SendCompletion
  <1>4. PICK at \in {"closing", "receiving"} : Goes(w, at)
    BY DEF SendCompletion
  <1>5. PICK s : s = [thread[w] EXCEPT !.at = at]
    OBVIOUS
  <1>6. Quiet(w, s) /\ s.at = at
    BY <1>1, <1>3, <1>4, <1>5, GoesQuiet DEF WorkerAts
  <1>7. Grows /\ Made' = Made /\ \A c \in Made' : Kept(c)
    BY <1>1, <1>3, SameContexts DEF Kept
  <1>8. LInv'
    BY <1>1, <1>3, <1>6, <1>7, QuietOK DEF LInv, Connection
  <1>9. thread'[w] = s /\ \A v \in Threads : v # w => thread'[v] = thread[v]
    BY <1>1, <1>6, QuietMoves
  <1>10. n \in Nat
    <2>1. thread[w] \in ThreadStates
      BY <1>1 DEF Types, ThreadTypes
    <2> QED BY <1>2, <2>1, BufferFacts DEF ThreadStates
  <1>11. Placed'
    <2>1. mBuffer' \in Buffers(0 .. MAX_BYTES, BUFSIZE) /\ Apart(mBuffer')
      BY <1>3, <1>10, BufferFacts, RemoveFields
    <2> QED BY <1>1, <1>3, <1>7, <2>1 DEF Placed, DataTypes, Inside
  <1>12. ASSUME DInv PROVE DInv'
    <2>1. PICK kept : kept = Contents(mBuffer)
      OBVIOUS
    <2>2. n \in 1 .. GetContiguiousBytes(mBuffer) /\ Joined(echoed, Rest(n), Numbered(arrived))
      BY <1>2, <1>3, <1>12 DEF DInv, Stream, Sent
    <2>3. n \in 0 .. Len(kept) /\ kept \in Seq(0 .. MAX_BYTES) /\ Len(kept) \in Nat
      <3>1. GetContiguiousBytes(mBuffer) \in Nat /\ GetContiguiousBytes(mBuffer) <= Len(kept)
        BY <2>1, BufferFacts, ContiguousBound
      <3>2. kept \in Seq(0 .. MAX_BYTES) /\ Len(kept) \in Nat
        BY <2>1, BufferFacts
      <3> QED BY <2>2, <3>1, <3>2
    <2>4. Contents(mBuffer') = Rest(n)
      <3>1. PICK rest : rest = SubSeq(kept, n + 1, Len(kept))
        OBVIOUS
      <3>2. Contents(mBuffer') = IF n >= Len(kept) THEN <<>> ELSE rest
        BY <1>3, <1>10, <2>1, <3>1, BufferFacts, RemoveContents
      <3>3. n >= Len(kept) => rest = <<>>
        BY <1>10, <2>3, <3>1, SubSeqEmpty
      <3> QED BY <2>1, <3>1, <3>2, <3>3 DEF Rest
    <2>5. Joined(echoed', Contents(mBuffer'), Numbered(arrived'))
      BY <1>3, <2>2, <2>4
    <2>6. /\ \A c \in Made : ~IsData(c)
          /\ \A v \in Threads : v # w => thread[v].at \notin DataAts
          /\ \A v \in Workers : v # w => ~Got(v) /\ ~Sent(v)
      BY <1>1, <1>3, <1>12, Alone DEF DInv, DataAts
    <2>7. /\ \A c \in Made' : ~IsData(c)'
          /\ \A v \in Threads : thread'[v].at \notin DataAts
          /\ \A v \in Workers : ~Got(v)' /\ ~Sent(v)'
      BY <1>3, <1>4, <1>6, <1>7, <1>9, <2>6 DEF IsData, Got, Sent, Threads, DataAts
    <2>8. OneEcho'
      BY <2>7 DEF OneEcho
    <2>9. Stream'
      BY <2>5, <2>7 DEF Aims, Stream
    <2> QED BY <1>12, <2>8, <2>9 DEF DInv
  <1> QED BY <1>8, <1>11, <1>12, DataStep

-----------------------------------------------------------------------------
LEMMA InitOK == Init => IInv
  <1> SUFFICES ASSUME Init PROVE IInv
    OBVIOUS
  <1>1. LInv
    BY LInitOK
  <1>2. /\ mBuffer = Construct(BUFSIZE, 0) /\ context = <<>> /\ pending = {}
        /\ thread = [t \in Threads |-> Idle] /\ arrived = 0 /\ echoed = <<>>
        /\ overlapped = FALSE /\ process = "up"
    BY DEF Init, SessionInit
  <1>3. BUFSIZE \in Nat /\ MAX_BYTES \in Nat /\ 0 \in 0 .. MAX_BYTES
    BY ClientSessionAssumption
  <1>4. /\ mBuffer \in Buffers(0 .. MAX_BYTES, BUFSIZE) /\ Apart(mBuffer)
        /\ Contents(mBuffer) = <<>>
    BY <1>2, <1>3, ConstructFields
  <1>5. \A t \in Threads : thread[t].at = "idle"
    BY <1>2 DEF Idle
  <1>6. Made = {}
    BY <1>2 DEF Made
  <1>7. Placed
    <2>1. overlapped \in BOOLEAN
      BY <1>2
    <2>2. arrived \in 0 .. MAX_BYTES /\ echoed \in Seq(0 .. MAX_BYTES)
      BY <1>2, <1>3
    <2> QED BY <1>4, <1>6, <2>1, <2>2 DEF Placed, DataTypes
  <1>8. OneEcho
    BY <1>5, <1>6 DEF OneEcho, DataAts
  <1>9. Stream
    <2>1. \A w \in Workers : ~Got(w) /\ ~Sent(w)
      BY <1>5 DEF Got, Sent, Threads
    <2>2. Numbered(0) = <<>>
      BY DEF Numbered
    <2>3. <<>> \o <<>> = <<>>
      OBVIOUS
    <2>4. Joined(echoed, Contents(mBuffer), Numbered(arrived))
      BY <1>2, <1>4, <2>2, <2>3 DEF Joined
    <2> QED BY <1>6, <2>1, <2>4 DEF Stream
  <1> QED BY <1>1, <1>2, <1>7, <1>8, <1>9 DEF IInv, DInv

\* The main thread and a worker that finds nothing change no session.
LEMMA UnchangedSessionOK ==
    ASSUME IInv, UNCHANGED session,
           overlapped' = overlapped, main' = main \/ main' \in Early,
           process' \in Ends, process' = process \/ process' # "overrun",
           running' \subseteq Workers, free' \in BOOLEAN,
           context # <<>> => main' = main /\ free' = free
    PROVE  IInv'
  <1>1. LInv'
    BY MainOK DEF IInv
  <1>2. UNCHANGED <<mBuffer, arrived, echoed, context, pending, thread>>
    BY DEF session
  <1>3. \A c \in Made' : Kept(c)
    BY <1>2 DEF Kept, Made
  <1>4. Placed' /\ (~overlapped' => DInv')
    BY <1>2, <1>3, DataFrame DEF IInv
  <1> QED BY <1>1, <1>4 DEF IInv

LEMMA StutterOK ==
    ASSUME IInv, UNCHANGED vars
    PROVE  IInv'
  <1>1. UNCHANGED session /\ UNCHANGED <<main, process, running, free, overlapped>>
    BY DEF vars
  <1>2. process' \in Ends /\ running' \subseteq Workers /\ free' \in BOOLEAN
    BY <1>1 DEF IInv, LInv, Types
  <1> QED BY <1>1, <1>2, UnchangedSessionOK

LEMMA MainThreadOK ==
    ASSUME IInv, process = "up", Main
    PROVE  IInv'
  <1>1. LInv /\ Types /\ Connection
    BY DEF IInv, LInv
  <1>2. CASE Initialize
    <2>1. UNCHANGED session /\ running' = running /\ overlapped' = overlapped
      BY <1>2 DEF Initialize
    <2>2. context = <<>>
      BY <1>1, <1>2 DEF Initialize, Connection
    <2>3. free' \in BOOLEAN
      BY <1>1, <1>2, Zenon DEF Initialize, PrepareSessions, Types
    <2>4. /\ main' \in Early /\ process' \in Ends /\ process' # "overrun" /\ running' \subseteq Workers
      BY <1>1, <1>2, <2>1 DEF Initialize, Types, Early, Ends
    <2> QED BY <2>1, <2>2, <2>3, <2>4, UnchangedSessionOK
  <1>3. ASSUME NEW w \in Workers, BeginThread(w) PROVE IInv'
    <2>1. UNCHANGED session /\ free' = free /\ overlapped' = overlapped
      BY <1>3 DEF BeginThread
    <2>2. context = <<>>
      BY <1>1, <1>3 DEF BeginThread, Connection
    <2>3. free' \in BOOLEAN
      BY <1>1, <2>1 DEF Types
    <2>4. /\ main' \in Early /\ process' \in Ends /\ process' # "overrun" /\ running' \subseteq Workers
      BY <1>1, <1>3 DEF BeginThread, Types, Early, Ends
    <2> QED BY <2>1, <2>2, <2>3, <2>4, UnchangedSessionOK
  <1>4. CASE StartAccept
    <2>1. UNCHANGED session /\ UNCHANGED <<free, running, overlapped>>
      BY <1>4 DEF StartAccept
    <2>2. context = <<>>
      BY <1>1, <1>4 DEF StartAccept, Connection
    <2>3. free' \in BOOLEAN /\ running' \subseteq Workers
      BY <1>1, <2>1 DEF Types
    <2>4. /\ main' \in Early /\ process' \in Ends /\ process' # "overrun"
      BY <1>1, <1>4 DEF StartAccept, Types, Early, Ends
    <2> QED BY <2>1, <2>2, <2>3, <2>4, UnchangedSessionOK
  <1>5. CASE AcceptSessions
    <2>1. /\ LInv' /\ context = <<>> /\ context' = <<Plain("IO_ACCEPT")>> /\ Made' = {1}
          /\ thread' = thread
      BY <1>1, <1>5, AcceptSessionsOK
    <2>2. context'[1] = Plain("IO_ACCEPT")
      BY <2>1
    <2>3. Aims(1)' /\ Inside(1)' /\ ~IsData(1)'
      BY <2>2, PlainAims
    <2>4. UNCHANGED <<mBuffer, arrived, echoed, process, overlapped>>
      BY <1>5 DEF AcceptSessions
    <2> QED BY <2>1, <2>3, <2>4, DataFrame DEF IInv
  <1>6. CASE OwnSession
    <2>1. LInv'
      BY <1>1, <1>6, OwnSessionOK
    <2>2. UNCHANGED <<mBuffer, arrived, echoed, process, overlapped, context, pending, thread>>
      BY <1>6 DEF OwnSession
    <2>3. \A c \in Made' : Kept(c)
      BY <2>2 DEF Kept, Made
    <2> QED BY <2>1, <2>2, <2>3, DataFrame DEF IInv
  <1> QED BY <1>2, <1>3, <1>4, <1>5, <1>6 DEF Main

LEMMA CallerOK ==
    ASSUME IInv, NEW t \in Callers, Caller(t)
    PROVE  IInv'
  <1>1. CASE Disconnect(t)
    <2>1. DisconnectRequest /\ thread' = thread
          /\ UNCHANGED <<mBuffer, arrived, echoed, main, process, running, free, overlapped>>
      BY <1>1 DEF Disconnect
    <2> QED BY <2>1, RequestOK DEF Threads
  <1> QED BY <1>1, CallPostRecvOK, PostRecvOK DEF Caller

LEMMA WorkerClosesOK ==
    ASSUME IInv, NEW w \in Workers, thread[w].at \in {"configuring", "closing"},
           DisconnectRequest, Becomes(w, Idle),
           UNCHANGED <<mBuffer, arrived, echoed, main, process, running, free, overlapped>>
    PROVE  IInv'
  <1>1. Quiet(w, Idle) /\ w \in Threads
    BY ReturnsQuiet DEF IInv, LInv, Threads
  <1> QED BY <1>1, RequestOK

LEMMA CompletesOK ==
    ASSUME IInv, NEW w \in Workers, Completes(w)
    PROVE  IInv'
  <1>1. UNCHANGED <<main, process, running, free, overlapped>>
    BY DEF Completes
  <1>2. ASSUME thread[w].at = "sending", IsConnected(w, "postsend", "closing") PROVE IInv'
    <2>1. PICK at \in {"postsend", "closing"} : Goes(w, at)
      BY <1>2 DEF IsConnected
    <2>2. UNCHANGED <<mConnected, mRefCount, mBuffer, context, pending, arrived, echoed>>
      BY <1>2 DEF IsConnected
    <2> QED BY <1>1, <1>2, <2>1, <2>2, WorkerGoesOK DEF WorkerAts, DataAts
  <1>3. ASSUME thread[w].at = "receiving", IsConnected(w, "prerecv", "closing") PROVE IInv'
    <2>1. PICK at \in {"prerecv", "closing"} : Goes(w, at)
      BY <1>3 DEF IsConnected
    <2>2. UNCHANGED <<mConnected, mRefCount, mBuffer, context, pending, arrived, echoed>>
      BY <1>3 DEF IsConnected
    <2> QED BY <1>1, <1>3, <2>1, <2>2, WorkerGoesOK DEF WorkerAts, DataAts
  <1> QED BY <1>1, <1>2, <1>3, RecvCompletionOK, PostSendOK, SendCompletionOK, PreRecvOK
          DEF Completes

LEMMA WorkerOK ==
    ASSUME IInv, process = "up", NEW w \in Workers, IoWorkerThread(w)
    PROVE  IInv'
  <1>1. LInv /\ Placed /\ Types
    BY DEF IInv, LInv
  <1>2. CASE Timeout(w)
    <2>1. UNCHANGED session /\ process' = "fault" /\ UNCHANGED <<main, running, free, overlapped>>
      BY <1>2 DEF Timeout
    <2>2. process' \in Ends /\ running' \subseteq Workers /\ free' \in BOOLEAN
      BY <1>1, <2>1 DEF Types, Ends
    <2> QED BY <2>1, <2>2, UnchangedSessionOK
  <1>3. CASE AcceptCompletion(w)
    <2>1. /\ LInv' /\ process' = process /\ thread'[w].at = "configuring"
          /\ \A v \in Threads : v # w => thread'[v] = thread[v]
      BY <1>1, <1>3, AcceptCompletionOK
    <2>2. thread[w].at = "IO_ACCEPT" /\ UNCHANGED <<mBuffer, context, pending, arrived, echoed, overlapped>>
      BY <1>3 DEF AcceptCompletion
    <2>3. \A c \in Made' : Kept(c)
      BY <2>2 DEF Kept, Made
    <2>4. \A v \in Threads : thread'[v] = thread[v] \/ Passive(v)
      BY <2>1, <2>2 DEF Passive, DataAts
    <2> QED BY <1>1, <2>1, <2>2, <2>3, <2>4, DataFrame DEF IInv
  <1>4. CASE DisconnectCompletion(w)
    <2>1. /\ LInv' /\ process' = process /\ thread'[w] = Idle /\ Idle.at = "idle"
          /\ \A v \in Threads : v # w => thread'[v] = thread[v]
      BY <1>1, <1>4, DisconnectCompletionOK DEF Idle
    <2>2. thread[w].at = "IO_DISCONNECT" /\ UNCHANGED <<mBuffer, context, pending, arrived, echoed, overlapped>>
      BY <1>4 DEF DisconnectCompletion
    <2>3. \A c \in Made' : Kept(c)
      BY <2>2 DEF Kept, Made
    <2>4. \A v \in Threads : thread'[v] = thread[v] \/ Passive(v)
      BY <2>1, <2>2 DEF Passive, DataAts
    <2> QED BY <1>1, <2>1, <2>2, <2>3, <2>4, DataFrame DEF IInv
  <1>5. CASE AcceptFails(w)
    BY <1>5, WorkerClosesOK DEF AcceptFails
  <1>6. CASE CloseConnection(w)
    BY <1>6, WorkerClosesOK DEF CloseConnection
  <1> QED BY <1>2, <1>3, <1>4, <1>5, <1>6, DequeueOK, DequeueRecvOK, DequeueSendOK,
             DequeueErrorOK, AcceptSucceedsOK, CompletesOK, RecvOverrunsOK DEF IoWorkerThread

LEMMA NextOK == IInv /\ [Next]_vars => IInv'
  BY StutterOK, MainThreadOK, CallerOK, WorkerOK DEF Next

LEMMA Inductive == Spec => []IInv
  BY InitOK, NextOK, PTL DEF Spec

-----------------------------------------------------------------------------
(***************************************************************************)
(* What the invariant says in the words of the EchoServer module.          *)
(***************************************************************************)
LEMMA ContextSets ==
    ASSUME Types, NEW type, NEW c
    PROVE  c \in Context({type}) <=> c \in Made /\ context[c].ioType = type
  BY LengthFacts DEF Context

LEMMA OneDisconnectHolds == IInv => OneDisconnect
  <1> SUFFICES ASSUME IInv PROVE OneDisconnect
    OBVIOUS
  <1> DEFINE accepted == {c \in Context({"IO_ACCEPT"}) : c \notin pending
                            /\ \A w \in Workers : thread[w].at = "IO_ACCEPT" => thread[w].context # c}
             ended == Context({"IO_DISCONNECT"})
  <1>1. Types /\ Hands /\ Connection /\ Workers \subseteq Threads
    BY DEF IInv, LInv, Threads
  <1>2. \A c : c \in ended <=> c \in Made /\ Disc(c)
    BY <1>1, ContextSets DEF Disc
  <1>3. \A c : c \in Context({"IO_ACCEPT"}) <=> c \in Made /\ Accept(c)
    BY <1>1, ContextSets DEF Accept
  <1>4. Accepting => accepted = {}
    <2> SUFFICES ASSUME Accepting, NEW c \in accepted PROVE FALSE
      OBVIOUS
    <2>1. c \in Made /\ c = 1 /\ context # <<>> /\ c \notin pending
      BY <1>1, <1>3, LengthFacts DEF Connection
    <2>2. PICK w \in Workers : thread[w].at = "IO_ACCEPT"
      BY <2>1 DEF Accepting
    <2>3. thread[w].context \in Made /\ Holds(w, thread[w].context)
      BY <1>1, <2>2, ThreadFacts DEF Holds
    <2>4. thread[w].context = 1
      BY <1>1, <2>2, <2>3 DEF Hands, Connection
    <2> QED BY <2>1, <2>2, <2>4
  <1>5. ~Accepting => accepted = {1}
    <2> SUFFICES ASSUME ~Accepting PROVE accepted = {1}
      OBVIOUS
    <2>1. 1 \in Made /\ 1 \notin pending /\ \A w \in Workers : thread[w].at # "IO_ACCEPT"
      BY <1>1, LengthFacts DEF Accepting
    <2>2. \A c \in Made : Accept(c) <=> c = 1
      BY <1>1 DEF Connection
    <2>3. \A c : c \in accepted <=> c \in Made /\ Accept(c) /\ c \notin pending
      BY <1>3, <2>1
    <2> HIDE DEF accepted
    <2> QED BY <2>1, <2>2, <2>3
  <1> HIDE DEF accepted, ended
  <1>6. mConnected + Cardinality(ended) = Cardinality(accepted)
    <2>1. CASE Accepting
      <3>1. mConnected = 0 /\ ended = {} /\ accepted = {}
        BY <1>1, <1>2, <1>4, <2>1 DEF Connection
      <3> QED BY <3>1, FS_EmptySet
    <2>2. CASE ~Accepting /\ \A c \in Made : ~Disc(c)
      <3>1. mConnected = 1 /\ ended = {} /\ accepted = {1}
        BY <1>1, <1>2, <1>5, <2>2 DEF Connection
      <3>2. Cardinality(ended) = 0 /\ Cardinality(accepted) = 1
        BY <3>1, FS_EmptySet, FS_Singleton
      <3> QED BY <3>1, <3>2
    <2>3. ASSUME ~Accepting, NEW c \in Made, Disc(c)
          PROVE  mConnected + Cardinality(ended) = Cardinality(accepted)
      <3>1. mConnected = 0 /\ ended = {c} /\ accepted = {1}
        BY <1>1, <1>2, <1>5, <2>3 DEF Connection
      <3>2. Cardinality(ended) = 1 /\ Cardinality(accepted) = 1
        BY <3>1, FS_Singleton
      <3> QED BY <3>1, <3>2
    <2> QED BY <2>1, <2>2, <2>3
  <1> QED BY <1>6 DEF OneDisconnect, accepted, ended

LEMMA ReferencesHold == IInv => ReferencesKept
  <1> SUFFICES ASSUME IInv PROVE ReferencesKept
    OBVIOUS
  <1> DEFINE released == Context({"IO_DISCONNECT"}) \ (pending \cup InHand)
  <1>1. Types /\ Hands /\ Connection /\ Counted /\ Workers \subseteq Threads
    BY DEF IInv, LInv, Threads
  <1>2. \A c \in Made : c \in InHand <=> \E w \in Workers : Holds(w, c)
    <2>1. \A w \in Workers : thread[w].at = "idle" => thread[w].context = 0
      BY <1>1, ThreadFacts DEF Idle
    <2>2. 0 \notin Made
      BY <1>1, LengthFacts
    <2> QED BY <2>1, <2>2 DEF InHand, Holds
  <1>3. \A c : c \in released <=>
           c \in Made /\ Disc(c) /\ c \notin pending /\ \A w \in Workers : ~Holds(w, c)
    BY <1>1, <1>2, ContextSets DEF Disc
  <1> HIDE DEF released
  <1>4. Cardinality(released) = IF Ended THEN 1 ELSE 0
    <2>1. CASE ~Ended
      <3>1. released = {}
        BY <1>3, <2>1 DEF Ended
      <3> QED BY <2>1, <3>1, FS_EmptySet
    <2>2. CASE Ended
      <3>1. PICK c \in Made : Disc(c) /\ c \notin pending /\ \A w \in Workers : ~Holds(w, c)
        BY <2>2 DEF Ended
      <3>2. released = {c}
        BY <1>1, <1>3, <3>1 DEF Connection
      <3> QED BY <2>2, <3>2, FS_Singleton
    <2> QED BY <2>1, <2>2
  <1>5. \A c : c \in Context({"IO_ACCEPT"}) <=> c \in Made /\ Accept(c)
    BY <1>1, ContextSets DEF Accept
  <1>6. Cardinality(Context({"IO_ACCEPT"})) = IF context = <<>> THEN 0 ELSE 1
    <2>1. CASE context = <<>>
      <3>1. Context({"IO_ACCEPT"}) = {}
        BY <1>5, <2>1 DEF Made
      <3> QED BY <2>1, <3>1, FS_EmptySet
    <2>2. CASE context # <<>>
      <3>1. 1 \in Made /\ \A c \in Made : Accept(c) <=> c = 1
        BY <1>1, <2>2, LengthFacts DEF Connection
      <3>2. Context({"IO_ACCEPT"}) = {1}
        BY <1>5, <3>1
      <3> QED BY <2>2, <3>2, FS_Singleton
    <2> QED BY <2>1, <2>2
  <1>7. (IF main = "owning" THEN Cardinality(Context({"IO_ACCEPT"})) - 1
                            ELSE Cardinality(Context({"IO_ACCEPT"})))
           = IF Owned THEN 1 ELSE 0
    BY <1>1, <1>6 DEF Connection, Owned
  <1> QED BY <1>1, <1>4, <1>7 DEF ReferencesKept, Counted, released

\* The bytes not yet echoed are those kept, but for the ones just sent.
LEMMA EchoHolds == IInv => EchoKept
  <1> SUFFICES ASSUME IInv PROVE EchoKept
    OBVIOUS
  <1>0. \A c \in DOMAIN context : context[c].buf # nullptr => context[c].buf + context[c].len <= BUFSIZE
    BY LengthFacts DEF IInv, LInv, Placed, Inside
  <1> DEFINE got  == {w \in Workers : thread[w].at = "received"}
             sent == {w \in Workers : thread[w].at = "sent"}
             n(ws) == IF ws = {} THEN 0 ELSE thread[CHOOSE w \in ws : TRUE].transferred
             kept == Contents(mBuffer)
  <1>2. (\A w : w \in got <=> w \in Workers /\ Got(w)) /\ \A w : w \in sent <=> w \in Workers /\ Sent(w)
    BY DEF Got, Sent
  <1>3. kept \in Seq(0 .. MAX_BYTES) /\ Len(kept) \in Nat /\ arrived \in Nat /\ Apart(mBuffer)
    BY BufferFacts
  <1>4. SubSeq(kept, 0 + 1, Len(kept)) = kept
    <2>1. 0 + 1 = 1
      OBVIOUS
    <2> HIDE DEF kept
    <2> QED BY <1>3, <2>1, SubSeqFull
  <1>5. arrived - 0 = arrived
    BY <1>3
  <1> HIDE DEF got, sent, kept
  <1>6. ASSUME ~overlapped PROVE Joined(echoed, SubSeq(kept, n(sent) + 1, Len(kept)), Numbered(arrived - n(got)))
    <2>0. OneEcho /\ Stream
      BY <1>6 DEF IInv, DInv
    <2>1. CASE got = {} /\ sent = {}
      <3>1. Joined(echoed, kept, Numbered(arrived))
        BY <2>0, <1>2, <2>1 DEF Stream, kept
      <3>2. n(got) = 0 /\ n(sent) = 0
        BY <2>1
      <3> QED BY <1>4, <1>5, <3>1, <3>2
    <2>2. CASE got # {}
      <3>1. PICK w : w = CHOOSE v \in got : TRUE
        OBVIOUS
      <3>2. w \in got
        BY <2>2, <3>1
      <3>3. w \in Workers /\ w \in Threads /\ Got(w) /\ thread[w].at \in DataAts
        BY <1>2, <3>2 DEF Got, DataAts, Threads
      <3>4. sent = {}
        <4>1. \A v \in Workers : v # w => ~Sent(v)
          BY <2>0, <3>3, Alone
        <4> QED BY <1>2, <3>3, <4>1 DEF Got, Sent
      <3>5. n(got) = thread[w].transferred /\ n(sent) = 0
        BY <2>2, <3>1, <3>4
      <3>6. Joined(echoed, kept, Numbered(arrived - thread[w].transferred))
        BY <2>0, <3>3 DEF Stream, kept
      <3> QED BY <1>4, <3>5, <3>6
    <2>3. CASE sent # {}
      <3>1. PICK w : w = CHOOSE v \in sent : TRUE
        OBVIOUS
      <3>2. w \in sent
        BY <2>3, <3>1
      <3>3. w \in Workers /\ w \in Threads /\ Sent(w) /\ thread[w].at \in DataAts
        BY <1>2, <3>2 DEF Sent, DataAts, Threads
      <3>4. got = {}
        <4>1. \A v \in Workers : v # w => ~Got(v)
          BY <2>0, <3>3, Alone
        <4> QED BY <1>2, <3>3, <4>1 DEF Got, Sent
      <3>5. n(sent) = thread[w].transferred /\ n(got) = 0
        BY <2>3, <3>1, <3>4
      <3>6. Joined(echoed, SubSeq(kept, thread[w].transferred + 1, Len(kept)), Numbered(arrived))
        BY <2>0, <3>3 DEF Stream, Rest, kept
      <3> QED BY <1>5, <3>5, <3>6
    <2> QED BY <2>1, <2>2, <2>3
  <1>7. ~overlapped => process # "overrun"
    BY DEF IInv, DInv
  <1>8. ~overlapped =>
           echoed \o SubSeq(kept, n(sent) + 1, Len(kept)) = [i \in 1 .. arrived - n(got) |-> i]
    BY <1>6 DEF Joined, Numbered
  <1> QED BY <1>0, <1>3, <1>7, <1>8, Zenon DEF EchoKept, got, sent, kept

LEMMA TypesHold == IInv => TypeOK
  <1> SUFFICES ASSUME IInv PROVE TypeOK
    OBVIOUS
  <1>1. Types /\ Counted /\ DataTypes
    BY DEF IInv, LInv, Placed
  <1>2. mRefCount \in Nat
    <2>1. Len(context) \in Nat
      BY <1>1, LengthFacts
    <2>2. Ended => Len(context) >= 1
      BY <2>1 DEF Ended, Made
    <2> QED BY <1>1, <2>1, <2>2 DEF Counted
  <1>3. /\ \A c \in DOMAIN context : context[c] \in IoContexts
        /\ pending \subseteq DOMAIN context
    BY <1>1, LengthFacts DEF Types
  <1>4. \A t \in Threads :
          thread[t].at \in {"idle", "postrecv", "IO_ACCEPT", "IO_DISCONNECT", "configuring",
                            "received", "sending", "postsend", "sent", "receiving",
                            "prerecv", "closing"}
    BY <1>1, ThreadFacts DEF ThreadStates, WorkerAts
  <1> QED BY <1>1, <1>2, <1>3, <1>4 DEF Types, DataTypes, TypeOK, IoContexts, Early, Ends

-----------------------------------------------------------------------------
\* The variables of the server and its session keep their types: the flag is
\* 0 or 1 and the count of references not below 0 whichever threads race,
\* and every size and pointer of the buffer is inside the array.
THEOREM EchoTypes == Spec => []TypeOK
  BY Inductive, TypesHold, PTL

\* No CRASH_ASSERT fails, whichever workers and callers run: neither that of
\* AcceptCompletion nor those that follow the release of a reference.
THEOREM NoAssertFails == Spec => []AssertsHold
  <1>1. IInv => AssertsHold
    BY DEF IInv, LInv, Types, Ends, AssertsHold
  <1> QED BY <1>1, Inductive, PTL

\* DisconnectRequest makes one disconnection for a connection, however many
\* threads ask for its end at once.
THEOREM DisconnectsOnce == Spec => []OneDisconnect
  BY Inductive, OneDisconnectHolds, PTL

\* The session holds a reference for every context that was made and, once
\* OwnSession has taken it, that of its owner, less the one which the
\* completed disconnection has released: it outlives its operations.
THEOREM SessionOutlivesOperations == Spec => []ReferencesKept
  BY Inductive, ReferencesHold, PTL

\* Whatever receives the callers post, the regions of the buffer stay apart
\* and every operation inside the array as long as the process is up; and
\* until a receive is posted while data is under way no commit overruns and
\* the bytes that arrive go back in their order, each at most once.
THEOREM EchoIsKept == Spec => []EchoKept
  BY Inductive, EchoHolds, PTL
=============================================================================
