-------------------------- MODULE MCPaymentLedger --------------------------
(* Small instances of PaymentLedger for TLC.                               *)
EXTENDS PaymentLedger

\* Two assessments, one that takes two payments to settle.
TwoDues == 1..2
TwoAmounts == <<2, 1>>

\* One assessment three payments may compete for.
OneDue == 1..1
OneAmount == <<2>>
=============================================================================
