--------------------------- MODULE MCBufferClient ---------------------------
(***************************************************************************)
(* BufferClient with an array of five bytes, two byte values, messages of  *)
(* up to three bytes and removals of up to one byte more than fit.         *)
(***************************************************************************)
EXTENDS BufferClient

MCByte == {0, 1}
MCMessages == UNION {[1 .. n -> MCByte] : n \in 0 .. 3}
MCLengths == 0 .. Capacity + 1
=============================================================================
