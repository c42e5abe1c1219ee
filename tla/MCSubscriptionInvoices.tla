----------------------- MODULE MCSubscriptionInvoices -----------------------
(* Instances of SubscriptionInvoices for TLC.                               *)
EXTENDS SubscriptionInvoices, TLC

Symmetry == Permutations(Invoices) \cup Permutations(Workers)
=============================================================================
