------------------------------- MODULE MCConn --------------------------------
(* Small instances of Conn. *)
EXTENDS Conn, TLC

\* Handles are only compared; used where no liveness is checked.
Symmetry == Permutations(Handles)
=============================================================================
