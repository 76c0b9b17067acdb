--------------------------- MODULE MCFastSpinlock ---------------------------
(***************************************************************************)
(* FastSpinlock with three threads that compete for the lock.              *)
(***************************************************************************)
EXTENDS FastSpinlock
=============================================================================
