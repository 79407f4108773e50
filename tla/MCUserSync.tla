----------------------------- MODULE MCUserSync -----------------------------
(* UserSync on small instances. *)
EXTENDS UserSync

=============================================================================
