--------------------------- MODULE MCOwnerBilling ---------------------------
(* Months of two days, one of them cut short by the trial. *)
EXTENDS OwnerBilling, TLC

EvenDays == [d \in Days |-> IF d % 2 = 0 THEN d ELSE d + 1]
BillingSymmetry == Permutations(Invoices) \cup Permutations(Payments) \cup Permutations(Features)

=============================================================================
