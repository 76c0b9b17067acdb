---------------------------- MODULE MCEchoServer ----------------------------
(***************************************************************************)
(* The echo server with two workers and one caller.  The workers are       *)
(* interchangeable.                                                        *)
(***************************************************************************)
EXTENDS EchoServer, TLC

Symmetry == Permutations(Workers)
=============================================================================
