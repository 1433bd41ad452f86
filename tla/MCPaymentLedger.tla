-------------------------- MODULE MCPaymentLedger --------------------------
(* The ledger of one booking with a price of three. *)
EXTENDS PaymentLedger, TLC

OneOrTwo == {1, 2}
RequestSymmetry == Permutations(Requests)

=============================================================================
