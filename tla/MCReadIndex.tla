---------------------------- MODULE MCReadIndex ----------------------------
(* Small instances of ReadIndex. *)
EXTENDS ReadIndex, TLC

CONSTANTS d1, d2

MCDpps == {d1, d2}

MCSymmetry == Permutations(MCDpps)

=============================================================================
