------------------------- MODULE MCDeliveryDialog ---------------------------
(* DeliveryDialog on small instances. *)
EXTENDS DeliveryDialog

=============================================================================
