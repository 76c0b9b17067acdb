---------------------------- MODULE MCIocpServer ----------------------------
(***************************************************************************)
(* IocpServer on machines with fewer, as many and more processors than the *)
(* array of worker threads has elements.                                   *)
(***************************************************************************)
EXTENDS IocpServer

MCProcessors == 1 .. MAX_IOTHREAD + 1
=============================================================================
