-------------------------- MODULE IocpServerProofs --------------------------
(***************************************************************************)
(* Start-up of the server for every size of the array of workers and every *)
(* number of processors: no worker runs before its WorkerThread and the    *)
(* port are there, and main finds every WorkerThread it resumes.           *)
(***************************************************************************)
EXTENDS IocpServer, TLAPS

\* The state of main says what of the manager there is.
Stages ==
    /\ main = "initialising" => mCompletionPort = "null" /\ i = 0
    /\ main # "initialising" => mIoThreadCount \in 1 .. MAX_IOTHREAD
    /\ main \in {"beginning", "making", "resuming", "accepting", "finalising"}
          => mCompletionPort = "open" /\ alive
    /\ main = "deleting" => mCompletionPort = "closed"
    /\ ~alive => mCompletionPort = "closed"
    /\ mCompletionPort = "null" => /\ main \in {"initialising", "exited"}
                                   /\ \A t \in Slots : worker[t] = "absent"

\* The elements of mWorkerThread the loops of StartIoThreads have set.
Made ==
    /\ main \in {"beginning", "making"} => i < mIoThreadCount /\ 0 .. i - 1 \subseteq mWorkerThread
    /\ main = "resuming" => i < mIoThreadCount /\ 0 .. mIoThreadCount - 1 \subseteq mWorkerThread
    /\ \A t \in Slots : worker[t] \in {"ready", "polling"} => t \in mWorkerThread

IInv == TypeOK /\ Stages /\ Made /\ StartupIsSafe

\* ResumeThread never meets an element of mWorkerThread that is not set.
ResumeFindsThread == main = "resuming" => i \in mWorkerThread

LEMMA InitOK == Init => IInv
  <1> SUFFICES ASSUME Init PROVE IInv
    OBVIOUS
  <1>1. TypeOK
    BY ServerAssumption DEF Init, TypeOK, Slots
  <1> QED BY <1>1 DEF Init, IInv, Stages, Made, StartupIsSafe

\* The end of a turn of either loop.
LEMMA LoopOK ==
    ASSUME IInv, NEW again, NEW next, Loop(again, next), main # "initialising"
    PROVE  /\ i' \in Slots
           /\ \/ i' = i + 1 /\ i' < mIoThreadCount /\ main' = again
              \/ i' = 0 /\ i + 1 >= mIoThreadCount /\ main' = next
  BY ServerAssumption DEF IInv, TypeOK, Stages, Loop, Slots

LEMMA NextOK == IInv /\ [Next]_vars => IInv'
  <1> SUFFICES ASSUME IInv, [Next]_vars PROVE IInv'
    OBVIOUS
  <1> USE ServerAssumption DEF IInv
  <1>1. ASSUME NEW n \in Processors, Initailze(n) PROVE IInv'
    <2>0. n \in Nat \ {0} /\ mIoThreadCount' \in 1 .. MAX_IOTHREAD
      BY <1>1 DEF Initailze
    <2>1. TypeOK'
      BY <1>1, <2>0 DEF Initailze, TypeOK
    <2>2. i = 0 /\ \A t \in Slots : worker[t] = "absent"
      BY <1>1 DEF Initailze, TypeOK, Stages
    <2>3. Stages' /\ StartupIsSafe'
      BY <1>1, <2>0, <2>2 DEF Initailze, TypeOK, Stages, StartupIsSafe
    <2> QED BY <1>1, <2>0, <2>1, <2>2, <2>3 DEF Initailze, Made
  <1>2. CASE BeginThread
    <2>1. i \in Slots /\ worker' = [worker EXCEPT ![i] = "suspended"]
      BY <1>2 DEF BeginThread, Becomes, TypeOK
    <2>2. TypeOK'
      BY <1>2, <2>1 DEF BeginThread, TypeOK
    <2>3. Stages'
      BY <1>2, <2>1 DEF BeginThread, TypeOK, Stages
    <2>4. Made' /\ StartupIsSafe'
      BY <1>2, <2>1 DEF BeginThread, TypeOK, Stages, Made, StartupIsSafe
    <2> QED BY <2>2, <2>3, <2>4
  <1>3. CASE BeginThreadFails
    BY <1>3 DEF BeginThreadFails, TypeOK, Stages, Made, StartupIsSafe
  <1>4. CASE NewWorkerThread
    <2>1. /\ main = "making" /\ i \in Slots /\ mIoThreadCount \in 1 .. MAX_IOTHREAD
          /\ i < mIoThreadCount /\ 0 .. i - 1 \subseteq mWorkerThread
          /\ mWorkerThread' = mWorkerThread \cup {i}
          /\ UNCHANGED <<mIoThreadCount, mCompletionPort, alive, worker>>
      BY <1>4 DEF NewWorkerThread, TypeOK, Stages, Made
    <2>2. /\ i' \in Slots
          /\ \/ i' = i + 1 /\ i' < mIoThreadCount /\ main' = "beginning"
             \/ i' = 0 /\ i + 1 >= mIoThreadCount /\ main' = "resuming"
      BY <1>4, LoopOK DEF NewWorkerThread
    <2>3. 0 .. i \subseteq mWorkerThread'
      BY <2>1 DEF Slots
    <2>4. TypeOK' /\ Stages' /\ StartupIsSafe'
      BY <2>1, <2>2 DEF TypeOK, Stages, StartupIsSafe
    <2>5. CASE main' = "beginning"
      <3>1. i' - 1 = i /\ i' < mIoThreadCount'
        BY <2>1, <2>2, <2>5 DEF Slots
      <3> QED BY <2>1, <2>3, <2>4, <2>5, <3>1 DEF Made
    <2>6. CASE main' = "resuming"
      <3>1. 0 .. mIoThreadCount - 1 \subseteq 0 .. i /\ i' < mIoThreadCount
        BY <2>1, <2>2, <2>6 DEF Slots
      <3> QED BY <2>1, <2>3, <2>4, <2>6, <3>1 DEF Made
    <2> QED BY <2>2, <2>5, <2>6
  <1>5. CASE ResumeThread
    <2>1. /\ main = "resuming" /\ i \in Slots /\ i \in mWorkerThread
          /\ mIoThreadCount \in 1 .. MAX_IOTHREAD
          /\ 0 .. mIoThreadCount - 1 \subseteq mWorkerThread
          /\ worker' = [worker EXCEPT ![i] = "ready"]
          /\ UNCHANGED <<mIoThreadCount, mCompletionPort, mWorkerThread, alive>>
      BY <1>5 DEF ResumeThread, Becomes, TypeOK, Stages, Made
    <2>2. /\ i' \in Slots
          /\ \/ i' = i + 1 /\ i' < mIoThreadCount /\ main' = "resuming"
             \/ i' = 0 /\ i + 1 >= mIoThreadCount /\ main' = "accepting"
      BY <1>5, LoopOK DEF ResumeThread
    <2>3. TypeOK'
      BY <2>1, <2>2 DEF TypeOK
    <2>4. Stages'
      BY <2>1, <2>2 DEF TypeOK, Stages
    <2>5. Made' /\ StartupIsSafe'
      BY <2>1, <2>2 DEF TypeOK, Made, StartupIsSafe, Slots
    <2> QED BY <2>3, <2>4, <2>5
  <1>6. CASE StartAccept
    BY <1>6 DEF StartAccept, TypeOK, Stages, Made, StartupIsSafe
  <1>7. CASE Finalize
    BY <1>7 DEF Finalize, TypeOK, Stages, Made, StartupIsSafe
  <1>8. CASE DeleteManager
    BY <1>8 DEF DeleteManager, TypeOK, Stages, Made, StartupIsSafe
  <1>9. CASE ReturnFromMain
    BY <1>9 DEF ReturnFromMain, TypeOK, Stages, Made, StartupIsSafe
  <1>10. ASSUME NEW t \in Slots, IoWorkerThread(t) PROVE IInv'
    <2> DEFINE state == IF alive /\ t \in mWorkerThread THEN "polling" ELSE "strayed"
    <2>1. /\ worker[t] = "ready" /\ worker' = [worker EXCEPT ![t] = state]
          /\ UNCHANGED <<main, i, mIoThreadCount, mCompletionPort, mWorkerThread, alive>>
      BY <1>10 DEF IoWorkerThread, Becomes
    <2>2. state \in {"polling", "strayed"} /\ (mCompletionPort # "closed" => state = "polling")
      BY <2>1 DEF Made, Stages
    <2>3. t \in mWorkerThread
      BY <2>1 DEF Made
    <2> HIDE DEF state
    <2>4. TypeOK' /\ StartupIsSafe'
      BY <2>1, <2>2 DEF TypeOK, StartupIsSafe
    <2>5. Stages' /\ Made'
      BY <2>1, <2>3 DEF TypeOK, Stages, Made
    <2> QED BY <2>4, <2>5
  <1>11. ASSUME NEW t \in Slots, DoIocpJob(t) PROVE IInv'
    <2> DEFINE state == IF mCompletionPort = "open" THEN "polling" ELSE "crashed"
    <2>1. /\ worker[t] = "polling" /\ worker' = [worker EXCEPT ![t] = state]
          /\ UNCHANGED <<main, i, mIoThreadCount, mCompletionPort, mWorkerThread, alive>>
      BY <1>11 DEF DoIocpJob, Becomes
    <2>2. state \in {"polling", "crashed"} /\ (mCompletionPort # "closed" => state = "polling")
      BY <2>1 DEF TypeOK, Stages
    <2>3. t \in mWorkerThread
      BY <2>1 DEF Made
    <2> HIDE DEF state
    <2>4. TypeOK' /\ StartupIsSafe'
      BY <2>1, <2>2 DEF TypeOK, StartupIsSafe
    <2>5. Stages' /\ Made'
      BY <2>1, <2>3 DEF TypeOK, Stages, Made
    <2> QED BY <2>4, <2>5
  <1>12. CASE UNCHANGED vars
    BY <1>12 DEF vars, TypeOK, Stages, Made, StartupIsSafe
  <1> QED BY <1>1, <1>2, <1>3, <1>4, <1>5, <1>6, <1>7, <1>8, <1>9, <1>10, <1>11, <1>12
          DEF Next

LEMMA Inductive == Spec => []IInv
  BY InitOK, NextOK, PTL DEF Spec

(***************************************************************************)
(* Type correctness: the loops of StartIoThreads never leave the array.    *)
(***************************************************************************)
THEOREM ServerTypes == Spec => []TypeOK
  <1>1. IInv => TypeOK
    BY DEF IInv
  <1> QED BY <1>1, Inductive, PTL

(***************************************************************************)
(* No worker runs into a missing WorkerThread or port before Finalize, for *)
(* every size of the array and every number of processors.                 *)
(***************************************************************************)
THEOREM StartIsSafe == Spec => []StartupIsSafe
  <1>1. IInv => StartupIsSafe
    BY DEF IInv
  <1> QED BY <1>1, Inductive, PTL

(***************************************************************************)
(* The second loop of StartIoThreads dereferences mWorkerThread[i] only    *)
(* where the first has set it, so the guard of ResumeThread never blocks.  *)
(***************************************************************************)
THEOREM ResumeFinds == Spec => []ResumeFindsThread
  <1>1. IInv => ResumeFindsThread
    BY DEF IInv, TypeOK, Stages, Made, ResumeFindsThread, Slots
  <1> QED BY <1>1, Inductive, PTL
=============================================================================
