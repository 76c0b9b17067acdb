---------------------------- MODULE MCMemoryPool ----------------------------
(***************************************************************************)
(* MemoryPool with the loops, the header and the limit of the code.        *)
(***************************************************************************)
EXTENDS MemoryPool

CodeBands == <<[from |-> 32, to |-> 1024, step |-> 32],
               [from |-> 1024, to |-> 2048, step |-> 128],
               [from |-> 2048, to |-> 4096, step |-> 256]>>

\* The three loops reduced to two and four pools; like those of the code
\* they stop short of the limit.
SmallBands == <<[from |-> 32, to |-> 96, step |-> 32],
                [from |-> 96, to |-> 192, step |-> 48]>>
=============================================================================
