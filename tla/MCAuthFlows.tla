---------------------------- MODULE MCAuthFlows -----------------------------
(* AuthFlows on small instances. *)
EXTENDS AuthFlows, TLC

RequestSymmetry == Permutations(Request)
=============================================================================
