----------------------------- MODULE MCTimeouts ------------------------------
(* Two work items and one timer, in a time that does not reach W / 2. *)
EXTENDS Timeouts, TLC

ItemSymmetry == Permutations(Works)
=============================================================================
