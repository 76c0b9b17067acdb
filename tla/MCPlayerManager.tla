-------------------------- MODULE MCPlayerManager --------------------------
(***************************************************************************)
(* PlayerManager with three threads that compete for its lock.             *)
(***************************************************************************)
EXTENDS PlayerManager
=============================================================================
