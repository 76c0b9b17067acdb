------------------------------- MODULE Mutex -------------------------------
(***************************************************************************)
(* What a lock promises to the threads that call its Enter and Leave: at   *)
(* most one of them owns it, and it is not left free for ever while some   *)
(* thread waits for it.  Which waiting thread gets it is left open.        *)
(***************************************************************************)
CONSTANTS Threads,
          None         \* the owner of a free lock

VARIABLES owner, waiting

vars == <<owner, waiting>>

Init == owner = None /\ waiting = {}

Request(t) ==
    /\ owner # t /\ t \notin waiting
    /\ waiting' = waiting \cup {t}
    /\ UNCHANGED owner

Acquire(t) ==
    /\ owner = None /\ t \in waiting
    /\ owner' = t
    /\ waiting' = waiting \ {t}

Release(t) ==
    /\ owner = t
    /\ owner' = None
    /\ UNCHANGED waiting

Next == \E t \in Threads : Request(t) \/ Acquire(t) \/ Release(t)

Spec == Init /\ [][Next]_vars

\* Somebody acquires a lock that stays free and wanted.
Fairness == WF_vars(\E t \in Threads : Acquire(t))
=============================================================================
