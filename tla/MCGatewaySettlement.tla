------------------------ MODULE MCGatewaySettlement ------------------------
(* Small instances of GatewaySettlement for TLC.                           *)
EXTENDS GatewaySettlement, TLC

CONSTANTS p1, p2, a1, w1, w2, w3

OnePayment == {p1}
TwoPayments == {p1, p2}

\* All payments pay the same assessment, so their syncs compete.
SameTarget == [p \in Payments |-> a1]

\* Workers are interchangeable.
Swaps == Permutations(Workers)
=============================================================================
