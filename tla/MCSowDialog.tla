---------------------------- MODULE MCSowDialog -----------------------------
(* SowDialog on small instances. *)
EXTENDS SowDialog, TLC

Symmetry == Permutations(Email)

=============================================================================
