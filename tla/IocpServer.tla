---------------------------- MODULE IocpServer ----------------------------
(***************************************************************************)
(* The life of the server process of win-iocp-mssql-usage: the main thread *)
(* (EduEchoServer.cpp) initialises the IocpManager, creates its worker     *)
(* threads suspended, resumes them, accepts sessions, and finalises; the   *)
(* workers (IoWorkerThread, WorkerThread::Run) poll the completion port.   *)
(* What a worker does with a completion is in Session.                     *)
(*                                                                         *)
(* main names the statement the main thread is about to run:               *)
(*   initialising, beginning, making, resuming, accepting, finalising,     *)
(*   deleting, and exited when it has returned (the process is then gone). *)
(* A worker is absent, suspended, ready (resumed, not yet in Run), polling *)
(* or stopped: strayed when it did not find its WorkerThread, crashed when *)
(* it read a context that is null.                                         *)
(***************************************************************************)
EXTENDS Integers

CONSTANTS MAX_IOTHREAD,
          Processors     \* the numbers of processors a machine may have

ASSUME ServerAssumption ==
    /\ MAX_IOTHREAD \in Nat \ {0}
    /\ Processors \subseteq Nat \ {0}

VARIABLES main,
          i,                \* the index of the loops of StartIoThreads
          mIoThreadCount,
          mCompletionPort,  \* null, open or closed
          mWorkerThread,    \* the elements of the array that are set
          alive,            \* *GIocpManager has not been deleted
          worker            \* thread -> its state

vars == <<main, i, mIoThreadCount, mCompletionPort, mWorkerThread, alive, worker>>

Slots == 0 .. MAX_IOTHREAD - 1

Init ==
    /\ main = "initialising"
    /\ i = 0
    /\ mIoThreadCount = 2
    /\ mCompletionPort = "null"
    /\ mWorkerThread = {}
    /\ alive = TRUE
    /\ worker = [t \in Slots |-> "absent"]

Becomes(t, state) == worker' = [worker EXCEPT ![t] = state]

-----------------------------------------------------------------------------
InitailzeUnbounded(n) ==   \* mutant: the processors are not capped by MAX_IOTHREAD
    /\ main = "initialising"
    /\ mIoThreadCount' = n
    /\ main' = "beginning" /\ mCompletionPort' = "open"
    /\ UNCHANGED <<i, mWorkerThread, alive, worker>>

(***************************************************************************)
(* Initailze on a machine with n processors.  A call that fails makes main *)
(* return -1, before or after the port is there.                           *)
(***************************************************************************)
Initailze(n) ==
    /\ main = "initialising"
    /\ mIoThreadCount' = IF n < MAX_IOTHREAD THEN n ELSE MAX_IOTHREAD
    /\ \/ main' = "beginning" /\ mCompletionPort' = "open"
       \/ main' = "exited" /\ mCompletionPort' \in {"null", "open"}
    /\ UNCHANGED <<i, mWorkerThread, alive, worker>>

(***************************************************************************)
(* StartIoThreads: _beginthreadex, then new WorkerThread, for each thread; *)
(* then ResumeThread for each.  A thread that cannot be created makes main *)
(* return, with those before it still suspended.                           *)
(***************************************************************************)
BeginThreadRunning ==   \* mutant: CREATE_SUSPENDED is left out
    /\ main = "beginning"
    /\ Becomes(i, "ready") /\ main' = "making"
    /\ UNCHANGED <<i, mIoThreadCount, mCompletionPort, mWorkerThread, alive>>

BeginThread ==
    /\ main = "beginning"
    /\ Becomes(i, "suspended") /\ main' = "making"
    /\ UNCHANGED <<i, mIoThreadCount, mCompletionPort, mWorkerThread, alive>>

BeginThreadFails ==
    /\ main = "beginning"
    /\ main' = "exited"
    /\ UNCHANGED <<i, mIoThreadCount, mCompletionPort, mWorkerThread, alive, worker>>

\* ++i, and back to the top of a loop (again) or on behind it (next).
Loop(again, next) ==
    IF i + 1 < mIoThreadCount THEN i' = i + 1 /\ main' = again
                              ELSE i' = 0 /\ main' = next

NewWorkerThread ==
    /\ main = "making"
    /\ mWorkerThread' = mWorkerThread \cup {i}
    /\ Loop("beginning", "resuming")
    /\ UNCHANGED <<mIoThreadCount, mCompletionPort, alive, worker>>

ResumeThread ==
    /\ main = "resuming"
    /\ i \in mWorkerThread
    /\ Becomes(i, "ready")
    /\ Loop("resuming", "accepting")
    /\ UNCHANGED <<mIoThreadCount, mCompletionPort, mWorkerThread, alive>>

\* StartAccept returns when listen fails or AcceptClientSessions is refused.
\* main returns when the answer is false; the method is declared void, so
\* that either way of main is taken to be possible.
StartAccept ==
    /\ main = "accepting"
    /\ main' \in {"finalising", "exited"}
    /\ UNCHANGED <<i, mIoThreadCount, mCompletionPort, mWorkerThread, alive, worker>>

\* Finalize closes the port; nobody has told the workers to stop.
Finalize ==
    /\ main = "finalising"
    /\ mCompletionPort' = "closed"
    /\ main' = "deleting"
    /\ UNCHANGED <<i, mIoThreadCount, mWorkerThread, alive, worker>>

DeleteManager ==
    /\ main = "deleting" /\ alive
    /\ alive' = FALSE
    /\ UNCHANGED <<main, i, mIoThreadCount, mCompletionPort, mWorkerThread, worker>>

ReturnFromMain ==
    /\ main = "deleting" /\ ~alive
    /\ main' = "exited"
    /\ UNCHANGED <<i, mIoThreadCount, mCompletionPort, mWorkerThread, alive, worker>>

-----------------------------------------------------------------------------
\* IoWorkerThread: GIocpManager->mWorkerThread[id]->Run()
IoWorkerThread(t) ==
    /\ main # "exited" /\ worker[t] = "ready"
    /\ Becomes(t, IF alive /\ t \in mWorkerThread THEN "polling" ELSE "strayed")
    /\ UNCHANGED <<main, i, mIoThreadCount, mCompletionPort, mWorkerThread, alive>>

(***************************************************************************)
(* DoIocpJob.  On an open port GetQueuedCompletionStatus returns a context *)
(* or WAIT_TIMEOUT, and the worker polls again; on a closed one it fails   *)
(* without a context and with another error, and DoIocpJob goes on to read *)
(* context->mIoType.                                                       *)
(***************************************************************************)
DoIocpJob(t) ==
    /\ main # "exited" /\ worker[t] = "polling"
    /\ Becomes(t, IF mCompletionPort = "open" THEN "polling" ELSE "crashed")
    /\ UNCHANGED <<main, i, mIoThreadCount, mCompletionPort, mWorkerThread, alive>>

Next ==
    \/ \E n \in Processors : Initailze(n)
    \/ BeginThread \/ BeginThreadFails \/ NewWorkerThread \/ ResumeThread
    \/ StartAccept \/ Finalize \/ DeleteManager \/ ReturnFromMain
    \/ \E t \in Slots : IoWorkerThread(t) \/ DoIocpJob(t)

Spec == Init /\ [][Next]_vars

-----------------------------------------------------------------------------
TypeOK ==
    /\ main \in {"initialising", "beginning", "making", "resuming", "accepting",
                 "finalising", "deleting", "exited"}
    /\ i \in Slots
    /\ mIoThreadCount \in 1 .. MAX_IOTHREAD \cup {2}
    /\ mCompletionPort \in {"null", "open", "closed"}
    /\ mWorkerThread \subseteq Slots
    /\ alive \in BOOLEAN
    /\ worker \in [Slots -> {"absent", "suspended", "ready", "polling", "strayed", "crashed"}]

(***************************************************************************)
(* Until the server is finalised every worker runs well: however early a   *)
(* thread is scheduled, its WorkerThread and the port are there before it. *)
(***************************************************************************)
StartupIsSafe ==
    mCompletionPort # "closed" => \A t \in Slots : worker[t] \notin {"strayed", "crashed"}

\* Every completion that is not a timeout has a context, as DoIocpJob asserts.
CompletionHasContext == \A t \in Slots : worker[t] # "crashed"
=============================================================================
