-------------------------- MODULE MCEmailDelivery ---------------------------
(* EmailDelivery on small instances. *)
EXTENDS EmailDelivery

=============================================================================
