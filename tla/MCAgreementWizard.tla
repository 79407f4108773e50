------------------------- MODULE MCAgreementWizard --------------------------
(* AgreementWizard on small instances. *)
EXTENDS AgreementWizard, TLC

DraftSymmetry == Permutations(Draft)

=============================================================================
