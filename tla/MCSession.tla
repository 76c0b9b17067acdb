----------------------------- MODULE MCSession -----------------------------
(***************************************************************************)
(* Session with few threads and contexts and a send buffer of three bytes. *)
(* Threads of one kind and contexts are interchangeable.                   *)
(***************************************************************************)
EXTENDS Session, TLC

Symmetry == Permutations(Callers) \cup Permutations(Workers) \cup Permutations(Context)
=============================================================================
