------------------------------ MODULE MCHciCmd -------------------------------
(* Start-up of the host and a few commands after it, checked by TLC. *)
EXTENDS HciCmd
=============================================================================
