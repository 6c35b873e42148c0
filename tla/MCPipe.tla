------------------------------- MODULE MCPipe -------------------------------
(***************************************************************************)
(* Pipe with a buffer of a few bytes.  Writes of up to MaxWrite bytes let  *)
(* one call fill the buffer and be cut short.                              *)
(***************************************************************************)
EXTENDS Pipe

CONSTANT MaxWrite

MCWrites == UNION {[1..n -> Byte] : n \in 0..MaxWrite}
=============================================================================
