---------------------------- MODULE OnlinePayment ----------------------------
(***************************************************************************)
(* What the online payments promise a household: money the gateway         *)
(* collects is booked, once and for good; a payment is given up only when  *)
(* its money cannot come any more; and nothing else is ever booked.        *)
(* GatewaySettlement implements this as long as no officer interferes and  *)
(* a session with a failed attempt stays unpaid.                           *)
(***************************************************************************)
CONSTANT Payments  \* online payments

VARIABLES
    record,  \* record[p]: what the books say of p
    money    \* money[p]: whether p's money came

vars == <<record, money>>

Init ==
    /\ record = [p \in Payments |-> "none"]
    /\ money = [p \in Payments |-> "expected"]

Request(p) ==
    /\ record[p] = "none"
    /\ record' = [record EXCEPT ![p] = "pending"]
    /\ UNCHANGED money

\* The payment could not be offered to the resident at all.
Refuse(p) ==
    /\ record[p] = "pending" /\ money[p] = "expected"
    /\ record' = [record EXCEPT ![p] = "given up"]
    /\ money' = [money EXCEPT ![p] = "lost"]

Collect(p) ==
    /\ record[p] = "pending" /\ money[p] = "expected"
    /\ money' = [money EXCEPT ![p] = "collected"]
    /\ UNCHANGED record

Lose(p) ==
    /\ record[p] = "pending" /\ money[p] = "expected"
    /\ money' = [money EXCEPT ![p] = "lost"]
    /\ UNCHANGED record

Settle(p) ==
    /\ record[p] = "pending" /\ money[p] = "collected"
    /\ record' = [record EXCEPT ![p] = "booked"]
    /\ UNCHANGED money

GiveUp(p) ==
    /\ record[p] = "pending" /\ money[p] = "lost"
    /\ record' = [record EXCEPT ![p] = "given up"]
    /\ UNCHANGED money

Next == \E p \in Payments :
    Request(p) \/ Refuse(p) \/ Collect(p) \/ Lose(p) \/ Settle(p) \/ GiveUp(p)

Spec == Init /\ [][Next]_vars

FairSpec == Spec /\ \A p \in Payments : WF_vars(Settle(p))
=============================================================================
