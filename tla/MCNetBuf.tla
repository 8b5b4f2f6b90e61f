------------------------------ MODULE MCNetBuf -------------------------------
(* A pool of three buffers and two holders, checked by TLC. *)
EXTENDS NetBuf
=============================================================================
