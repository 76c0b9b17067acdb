---------------------------- MODULE MCObjectPool ----------------------------
(***************************************************************************)
(* ObjectPool with chunks of three blocks, two of which the heap can give. *)
(***************************************************************************)
EXTENDS ObjectPool
=============================================================================
