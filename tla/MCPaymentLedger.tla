-------------------------- MODULE MCPaymentLedger --------------------------
(* Small instances of PaymentLedger for TLC. *)
EXTENDS PaymentLedger, TLC

Symmetry == Permutations(Handlers)
=============================================================================
