---------------------- MODULE SubscriptionInvoicesProofs ----------------------
(***************************************************************************)
(* What SubscriptionInvoices promises holds for any number of invoices,    *)
(* sessions and workers.                                                   *)
(***************************************************************************)
EXTENDS SubscriptionInvoices, TLAPS

Statuses == Payable \cup {"none", "PAID", "VOID", "DELETED"}

-----------------------------------------------------------------------------
(* Types, with what a worker holds while it is at work: the invoice, the   *)
(* session, and the gateway's answer, which cannot become a payment at     *)
(* once any more.                                                          *)

\* A worker at one of these has no invoice of its own.
Aside == {"idle", "sweeping", "counting", "suspending", "exempting", "exemptingSuspended",
          "reinstating", "waiving"}

Holding(w) ==
    /\ pc[w] \notin Aside => on[w] \in Invoices
    /\ pc[w] = "opening" => was[w] \in Payable \ {"PROCESSING"}
    /\ pc[w] \in {"linking", "retrieving", "findingPaid", "findingUnpaid", "clearing"} =>
          with[w] # 0
    /\ pc[w] \in {"findingUnpaid", "clearing"} =>
          sess[with[w]] \in {"failed", "expired", "paidLater"}

TypeInv == TypeOK /\ \A w \in Workers : Holding(w)

\* What a worker that was not overtaken knows.
Fresh(w) ==
    ~overtaken[w] =>
        /\ pc[w] \in {"opening", "linking"} => inv[on[w]] \in Payable \ {"PROCESSING"}
        /\ pc[w] = "clearing" => inv[on[w]] = "PROCESSING" /\ link[on[w]] = with[w]
        /\ pc[w] = "voiding" => inv[on[w]] # "PAID"
        /\ pc[w] = "suspending" => Overdue # {}

FreshInv == \A w \in Workers : Fresh(w)

LEMMA TypeInit == Init => TypeInv
<1> SUFFICES ASSUME Init PROVE TypeInv
  OBVIOUS
<1>1. TypeOK
  BY DEF Init, TypeOK, Payable, Owed, Labels
<1>2. \A w \in Workers : Holding(w)
  BY DEF Init, Holding, Aside
<1> QED
  BY <1>1, <1>2 DEF TypeInv

\* What a worker holds when it goes on, and what the others hold.
LEMMA GotoHolds ==
    ASSUME TypeOK, NEW w \in Workers, NEW label \in Labels, Goto(w, label)
    PROVE  /\ pc' \in [Workers -> Labels] /\ on' \in [Workers -> Invoices \cup {NoInvoice}]
           /\ with' \in [Workers -> Sessions \cup {0}]
           /\ was' \in [Workers -> Payable \cup {"none"}]
           /\ onTrial' \in [Workers -> BOOLEAN] /\ taken' \in [Workers -> BOOLEAN]
           /\ pc' = [pc EXCEPT ![w] = label]
           /\ label # "idle" => on' = on /\ with' = with /\ was' = was
           /\ \A v \in Workers : v # w =>
                 pc'[v] = pc[v] /\ on'[v] = on[v] /\ with'[v] = with[v] /\ was'[v] = was[v]
           /\ pc'[w] = label
<1>1. pc' = [pc EXCEPT ![w] = label]
  BY DEF Goto
<1>2. CASE label # "idle"
  BY <1>1, <1>2 DEF Goto, TypeOK, locals
<1>3. CASE label = "idle"
  <2>1. /\ on' = [on EXCEPT ![w] = NoInvoice] /\ with' = [with EXCEPT ![w] = 0]
        /\ was' = [was EXCEPT ![w] = "none"] /\ onTrial' = [onTrial EXCEPT ![w] = FALSE]
        /\ taken' = [taken EXCEPT ![w] = FALSE]
    BY <1>3 DEF Goto
  <2> QED
    BY <1>1, <1>3, <2>1 DEF TypeOK
<1> QED
  BY <1>2, <1>3

\* Writing an invoice keeps the types, whoever writes what.
LEMMA WriteTypes ==
    ASSUME TypeInv, NEW w \in Workers, NEW i \in Invoices, NEW status \in Statuses,
           NEW s \in Sessions \cup {0}, status = "PROCESSING" => s # 0,
           NEW label \in {"idle", "activating", "reactivating"}, label # "idle" => on[w] = i,
           WriteInvoice(w, i, status, s, label)
    PROVE  TypeInv'
<1>1. Goto(w, label) /\ label \in Labels /\ TypeOK
  BY DEF WriteInvoice, Labels, TypeInv
<1>2. /\ inv' = [inv EXCEPT ![i] = IF @ = "DELETED" THEN @ ELSE status]
      /\ link' = [link EXCEPT ![i] = s]
      /\ UNCHANGED <<suspended, exempt, trial, expense, missed, sess, payee>>
      /\ overtaken' \in [Workers -> BOOLEAN]
  BY <1>1 DEF WriteInvoice, Overtakes, gateway, TypeOK
<1>3. excused' \in BOOLEAN
  BY DEF WriteInvoice, Excuse
<1>4. /\ inv' \in [Invoices -> Statuses] /\ link' \in [Invoices -> Sessions \cup {0}]
      /\ \A j \in Invoices : inv'[j] = "PROCESSING" => link'[j] # 0
  BY <1>1, <1>2 DEF TypeOK, Statuses, Payable, Owed
<1>5. TypeOK'
  BY <1>1, <1>2, <1>3, <1>4, GotoHolds DEF TypeOK, Statuses
<1>6. \A v \in Workers : Holding(v)'
  BY <1>1, <1>2, GotoHolds DEF TypeInv, Holding, Aside
<1> QED
  BY <1>5, <1>6 DEF TypeInv

\* A worker goes on, with whatever it does to the flags and to history, and no
\* invoice or session changes.
LEMMA QuietTypes ==
    ASSUME TypeInv, NEW w \in Workers, NEW label \in Labels, Goto(w, label),
           label \notin Aside => on[w] \in Invoices,
           label # "opening", label # "linking",
           label \in {"retrieving", "findingPaid", "findingUnpaid", "clearing"} => with[w] # 0,
           label \in {"findingUnpaid", "clearing"} =>
               sess[with[w]] \in {"failed", "expired", "paidLater"},
           UNCHANGED <<inv, link, expense, sess, payee>>,
           suspended' \in BOOLEAN, exempt' \in BOOLEAN, trial' \in BOOLEAN,
           missed' \subseteq Invoices, overtaken' \in [Workers -> BOOLEAN], excused' \in BOOLEAN
    PROVE  TypeInv'
<1>t. TypeOK /\ \A v \in Workers : Holding(v)
  BY DEF TypeInv
<1>1. TypeOK'
  BY <1>t, GotoHolds DEF TypeOK
<1>2. \A v \in Workers : Holding(v)'
  BY <1>t, GotoHolds DEF Holding, Aside
<1> QED
  BY <1>1, <1>2 DEF TypeInv

LEMMA TypeStep == TypeInv /\ [Next]_vars => TypeInv'
<1> SUFFICES ASSUME TypeInv, [Next]_vars PROVE TypeInv'
  OBVIOUS
<1>t. TypeOK /\ \A v \in Workers : Holding(v)
  BY DEF TypeInv
\* A worker goes on, or starts, and no row or session changes.
<1>1. ASSUME NEW w \in Workers, NEW label \in Labels, Think(w, label),
             label \notin Aside => on[w] \in Invoices,
             label # "opening", label # "linking",
             label \in {"retrieving", "findingPaid", "findingUnpaid", "clearing"} => with[w] # 0,
             label \in {"findingUnpaid", "clearing"} =>
                 sess[with[w]] \in {"failed", "expired", "paidLater"}
      PROVE  TypeInv'
  <2>1. Goto(w, label) /\ overtaken' \in [Workers -> BOOLEAN]
        /\ UNCHANGED <<inv, link, suspended, exempt, trial, expense, sess, payee, excused, missed>>
    BY <1>t, <1>1 DEF Think, rows, gateway, TypeOK
  <2> QED
    BY <1>t, <1>1, <2>1, QuietTypes DEF TypeOK
<1>2. ASSUME NEW w \in Workers, NEW label \in Labels \ {"opening", "linking"},
             NEW i \in Invoices \cup {NoInvoice}, NEW s \in Sessions \cup {0}, Begin(w, label, i, s),
             label \notin Aside => i \in Invoices,
             label \in {"retrieving", "findingPaid", "findingUnpaid", "clearing"} => s # 0,
             label \in {"findingUnpaid", "clearing"} =>
                 sess[s] \in {"failed", "expired", "paidLater"}
      PROVE  TypeInv'
  BY <1>t, <1>2 DEF Begin, TypeInv, TypeOK, Holding, Aside, rows, gateway
<1>3. ASSUME NEW w \in Workers, NEW i \in Invoices, CreateCheckout(w, i) PROVE TypeInv'
  <2>1. inv[i] \in Payable \ {"PROCESSING"}
    BY <1>t, <1>3 DEF CreateCheckout, TypeOK
  <2>2. /\ was' = [was EXCEPT ![w] = inv[i]]
        /\ pc' = [pc EXCEPT ![w] = "opening"] /\ on' = [on EXCEPT ![w] = i]
        /\ UNCHANGED <<inv, link, suspended, exempt, trial, expense, sess, payee, with, onTrial,
                       taken, overtaken, excused, missed>>
    BY <1>3, <2>1 DEF CreateCheckout, rows, gateway
  <2> QED
    BY <1>t, <2>1, <2>2 DEF TypeInv, TypeOK, Holding, Labels, Aside
<1>4. ASSUME NEW w \in Workers, NEW i \in Invoices, Settle(w, i) PROVE TypeInv'
  BY <1>t, <1>2, <1>4 DEF Settle, TypeOK, Labels
<1>5. ASSUME NEW w \in Workers, NEW s \in Sessions, ReceivePaid(w, s) PROVE TypeInv'
  BY <1>2, <1>5 DEF ReceivePaid, Found, Labels
<1>6. ASSUME NEW w \in Workers, NEW s \in Sessions, ReceiveUnpaid(w, s) PROVE TypeInv'
  BY <1>2, <1>6 DEF ReceiveUnpaid, Found, Unpaying, Labels, Sessions
<1>7. ASSUME NEW w \in Workers, OpenSession(w) PROVE TypeInv'
  <2>1. PICK s \in Sessions :
          /\ sess[s] = "none"
          /\ sess' = [sess EXCEPT ![s] = "open"] /\ payee' = [payee EXCEPT ![s] = on[w]]
          /\ with' = [with EXCEPT ![w] = s]
    BY <1>7 DEF OpenSession
  <2>2. /\ pc[w] = "opening" /\ pc' = [pc EXCEPT ![w] = "linking"]
        /\ UNCHANGED <<inv, link, suspended, exempt, trial, expense, on, was, onTrial, taken,
                       overtaken, excused, missed>>
    BY <1>7 DEF OpenSession, At, rows
  <2>3. on[w] \in Invoices /\ s # 0
    BY <1>t, <2>2 DEF Holding, Aside, Sessions
  <2>4. TypeOK'
    BY <1>t, <2>1, <2>2, <2>3 DEF TypeOK, Labels
  <2>5. \A v \in Workers : Holding(v)'
    BY <1>t, <2>1, <2>2, <2>3 DEF TypeOK, Holding, Aside
  <2> QED
    BY <2>4, <2>5 DEF TypeInv
<1>8. ASSUME NEW w \in Workers, CheckoutRefused(w) PROVE TypeInv'
  <2>1. on[w] \in Invoices /\ was[w] \in Payable \ {"PROCESSING"}
    BY <1>t, <1>8 DEF CheckoutRefused, At, Holding, Aside
  <2>2. link[on[w]] \in Sessions \cup {0}
    BY <1>t, <2>1 DEF TypeOK
  <2> QED
    BY <1>8, <2>1, <2>2, WriteTypes DEF CheckoutRefused, Statuses, Payable, Owed
<1>9. ASSUME NEW w \in Workers, LinkSession(w) PROVE TypeInv'
  <2>1. on[w] \in Invoices /\ with[w] \in Sessions \cup {0} /\ with[w] # 0
    BY <1>t, <1>9 DEF LinkSession, At, Holding, Aside, TypeOK
  <2> QED
    BY <1>9, <2>1, WriteTypes DEF LinkSession, Statuses, Payable, Owed
<1>10. ASSUME NEW w \in Workers, Retrieve(w) PROVE TypeInv'
  <2>1. on[w] \in Invoices /\ with[w] # 0
    BY <1>t, <1>10 DEF Retrieve, At, Holding, Aside
  <2>2. CASE Think(w, "idle")
    BY <1>1, <2>2 DEF Labels, Aside
  <2>3. CASE Think(w, "findingPaid")
    BY <1>1, <2>1, <2>3 DEF Labels
  <2>4. CASE Unpaying(with[w]) /\ Think(w, "findingUnpaid")
    BY <1>1, <2>1, <2>4 DEF Labels, Unpaying
  <2> QED
    BY <1>10, <2>2, <2>3, <2>4 DEF Retrieve
<1>11. ASSUME NEW w \in Workers, FindAgain(w) PROVE TypeInv'
  <2>1. pc[w] \in {"findingPaid", "findingUnpaid"} /\ on[w] \in Invoices /\ with[w] # 0
    BY <1>t, <1>11 DEF FindAgain, Holding, Aside
  <2>2. CASE Think(w, "idle")
    BY <1>1, <2>2 DEF Labels, Aside
  <2>3. CASE Think(w, "paying")
    BY <1>1, <2>1, <2>3 DEF Labels
  <2>4. CASE pc[w] = "findingUnpaid" /\ Think(w, "clearing")
    BY <1>1, <1>t, <2>1, <2>4 DEF Labels, Holding
  <2> QED
    BY <1>11, <2>1, <2>2, <2>3, <2>4 DEF FindAgain, At
<1>12. ASSUME NEW w \in Workers, ClearSession(w) PROVE TypeInv'
  <2>1. on[w] \in Invoices
    BY <1>t, <1>12 DEF ClearSession, At, Holding, Aside
  <2> QED
    BY <1>12, <2>1, WriteTypes DEF ClearSession, Statuses, Payable, Owed
<1>13. ASSUME NEW w \in Workers, MarkGatewayPaid(w) PROVE TypeInv'
  <2>1. on[w] \in Invoices /\ link[on[w]] \in Sessions \cup {0}
    BY <1>t, <1>13 DEF MarkGatewayPaid, At, Holding, Aside, TypeOK
  <2> QED
    BY <1>13, <2>1, WriteTypes DEF MarkGatewayPaid, Statuses
<1>14. ASSUME NEW w \in Workers, NEW i \in Invoices, MarkPaid(w, i) PROVE TypeInv'
  BY <1>t, <1>14 DEF MarkPaid, TypeInv, TypeOK, Holding, Aside, Labels, rows, gateway
<1>15. ASSUME NEW w \in Workers, NEW i \in Invoices, Void(w, i) PROVE TypeInv'
  BY <1>2, <1>15 DEF Void, Labels
<1>16. ASSUME NEW w \in Workers, NEW i \in Invoices, Remove(w, i) PROVE TypeInv'
  <2>1. link[i] \in Sessions \cup {0}
    BY <1>t DEF TypeOK
  <2> QED
    BY <1>16, <2>1, WriteTypes DEF Remove, Statuses
<1>17. ASSUME NEW w \in Workers, StorePaid(w) PROVE TypeInv'
  <2>1. on[w] \in Invoices /\ link[on[w]] \in Sessions \cup {0}
    BY <1>t, <1>17 DEF StorePaid, At, Holding, Aside, TypeOK
  <2>2. PICK label \in {"activating", "reactivating"} :
          WriteInvoice(w, on[w], "PAID", link[on[w]], label)
    BY <1>17 DEF StorePaid
  <2> QED
    BY <2>1, <2>2, WriteTypes DEF Statuses
<1>18. ASSUME NEW w \in Workers, ActivateSubscription(w) PROVE TypeInv'
  <2>1. /\ Goto(w, "reactivating") /\ trial' = FALSE
        /\ UNCHANGED <<inv, link, suspended, exempt, expense, sess, payee, overtaken, excused, missed>>
    BY <1>18 DEF ActivateSubscription, gateway
  <2>2. on[w] \in Invoices
    BY <1>t, <1>18 DEF ActivateSubscription, At, Holding, Aside
  <2> QED
    BY <1>t, <2>1, <2>2, QuietTypes DEF TypeOK, Labels
<1>19. ASSUME NEW w \in Workers, ReactivateCommunity(w) PROVE TypeInv'
  <2>1. /\ Goto(w, "recording") /\ suspended' = FALSE
        /\ UNCHANGED <<inv, link, exempt, trial, expense, sess, payee, overtaken, missed>>
        /\ excused' \in BOOLEAN
    BY <1>19 DEF ReactivateCommunity, gateway, Excuse
  <2>2. on[w] \in Invoices
    BY <1>t, <1>19 DEF ReactivateCommunity, At, Holding, Aside
  <2> QED
    BY <1>t, <2>1, <2>2, QuietTypes DEF TypeOK, Labels
<1>20. ASSUME NEW w \in Workers, FindExpense(w) PROVE TypeInv'
  <2>1. on[w] \in Invoices
    BY <1>t, <1>20 DEF FindExpense, At, Holding, Aside
  <2> QED
    BY <1>1, <1>20, <2>1 DEF FindExpense, Labels
<1>21. ASSUME NEW w \in Workers, NumberExpense(w) PROVE TypeInv'
  <2>1. on[w] \in Invoices
    BY <1>t, <1>21 DEF NumberExpense, At, Holding, Aside
  <2>2. CASE Think(w, "storing")
    BY <1>1, <2>1, <2>2 DEF Labels
  <2>3. CASE ~Think(w, "storing")
    <3>1. /\ Goto(w, "idle") /\ Miss({on[w]}) /\ overtaken' = [overtaken EXCEPT ![w] = FALSE]
          /\ UNCHANGED <<inv, link, suspended, exempt, trial, expense, sess, payee, excused>>
      BY <1>21, <2>3 DEF NumberExpense, rows, gateway
    <3>2. missed' \subseteq Invoices
      BY <1>t, <2>1, <3>1 DEF Miss, TypeOK
    <3>3. overtaken' \in [Workers -> BOOLEAN]
      BY <1>t, <3>1 DEF TypeOK
    <3> QED
      BY <1>t, <3>1, <3>2, <3>3, QuietTypes DEF TypeOK, Labels, Aside
  <2> QED
    BY <2>2, <2>3
<1>22. ASSUME NEW w \in Workers, StoreExpense(w) PROVE TypeInv'
  <2>0. PICK stored \in BOOLEAN : ExpenseStored(w, stored)
    BY <1>t, <1>22 DEF StoreExpense, TypeOK
  <2>1. on[w] \in Invoices
    BY <1>t, <2>0 DEF ExpenseStored, At, Holding, Aside
  <2>2. expense' \in [Invoices -> Nat] /\ missed' \subseteq Invoices
    BY <1>t, <2>0, <2>1 DEF ExpenseStored, Miss, TypeOK
  <2>3. /\ pc' = [pc EXCEPT ![w] = "idle"] /\ on' = [on EXCEPT ![w] = NoInvoice]
        /\ with' = [with EXCEPT ![w] = 0] /\ was' = [was EXCEPT ![w] = "none"]
        /\ onTrial' = [onTrial EXCEPT ![w] = FALSE]
        /\ overtaken' = [overtaken EXCEPT ![w] = FALSE]
        /\ UNCHANGED <<inv, link, suspended, exempt, trial, sess, payee, excused>>
    BY <2>0 DEF ExpenseStored, gateway
  <2>4. taken' \in [Workers -> BOOLEAN]
    BY <1>t, <2>0 DEF ExpenseStored, TypeOK, At
  <2>5. TypeOK'
    BY <1>t, <2>2, <2>3, <2>4 DEF TypeOK, Labels
  <2>6. \A v \in Workers : Holding(v)'
    BY <1>t, <2>3 DEF TypeOK, Holding, Aside
  <2> QED
    BY <2>5, <2>6 DEF TypeInv
<1>23. ASSUME NEW w \in Workers, StoreVoid(w) PROVE TypeInv'
  <2>1. on[w] \in Invoices /\ link[on[w]] \in Sessions \cup {0}
    BY <1>t, <1>23 DEF StoreVoid, At, Holding, Aside, TypeOK
  <2> QED
    BY <1>23, <2>1, WriteTypes DEF StoreVoid, Statuses
<1>24. ASSUME NEW w \in Workers, SweepOverdue(w) PROVE TypeInv'
  <2>1. PICK late \in SUBSET {i \in Invoices : inv[i] = "ISSUED"} :
          /\ inv' = [i \in Invoices |-> IF i \in late THEN "OVERDUE" ELSE inv[i]]
          /\ Overtakes(w, late, late # {})
    BY <1>24 DEF SweepOverdue
  <2>2. overtaken' \in [Workers -> BOOLEAN]
    BY <1>t, <2>1 DEF Overtakes, TypeOK
  <2>3. /\ pc' = [pc EXCEPT ![w] = "counting"]
        /\ UNCHANGED <<link, suspended, exempt, trial, expense, sess, payee, on, with, was, onTrial,
                       taken, excused, missed>>
    BY <1>24 DEF SweepOverdue, gateway, locals
  <2>4. inv' \in [Invoices -> Statuses] /\ \A i \in Invoices : inv'[i] = "PROCESSING" => link'[i] # 0
    BY <1>t, <2>1, <2>3 DEF TypeOK, Statuses, Payable, Owed
  <2>5. TypeOK'
    BY <1>t, <2>2, <2>3, <2>4 DEF TypeOK, Labels, Statuses
  <2>6. \A v \in Workers : Holding(v)'
    BY <1>t, <2>3 DEF TypeOK, Holding, Aside
  <2> QED
    BY <2>5, <2>6 DEF TypeInv
<1>25. ASSUME NEW w \in Workers, CountOverdue(w) PROVE TypeInv'
  BY <1>1, <1>25 DEF CountOverdue, Labels, Aside
<1>26. ASSUME NEW w \in Workers, SuspendCommunity(w) PROVE TypeInv'
  <2>1. /\ Goto(w, "idle") /\ suspended' = TRUE
        /\ UNCHANGED <<inv, link, exempt, trial, expense, sess, payee, missed>>
        /\ overtaken' = [overtaken EXCEPT ![w] = FALSE] /\ excused' \in BOOLEAN
    BY <1>26 DEF SuspendCommunity, gateway, Excuse
  <2> QED
    BY <1>t, <2>1, QuietTypes DEF TypeOK, Labels, Aside
<1>27. ASSUME NEW i \in Invoices, NEW status \in {"DRAFT", "ISSUED", "WAIVED"}, Issue(i, status)
      PROVE TypeInv'
  <2>1. /\ inv' = [inv EXCEPT ![i] = status]
        /\ UNCHANGED <<link, suspended, exempt, trial, expense, sess, payee, pc, on, with, was,
                       onTrial, taken, overtaken, missed>>
        /\ excused' \in BOOLEAN
    BY <1>27 DEF Issue, Excuse, gateway, locals
  <2> QED
    BY <1>t, <2>1 DEF TypeInv, TypeOK, Holding, Payable, Owed
<1>28. CASE EndSubscription \/ TurnExemption
  <2>1. /\ UNCHANGED <<inv, link, suspended, expense, sess, payee, pc, on, with, was, onTrial, taken,
                       overtaken, excused, missed>>
        /\ trial' \in {FALSE, trial} /\ exempt' \in BOOLEAN
    BY <1>t, <1>28 DEF TypeInv, TypeOK, EndSubscription, TurnExemption, gateway, locals
  <2> QED
    BY <1>t, <2>1 DEF TypeInv, TypeOK, Holding
<1>29. CASE AddExpense
  BY <1>t, <1>29 DEF AddExpense, TypeInv, TypeOK, Holding, rows, gateway, locals, At
<1>30. ASSUME NEW before \in {"open", "failed"},
              NEW after \in {"failed", "paid", "paidLater", "expired"}, Session(before, after),
              before = "failed" => after # "paid"
       PROVE  TypeInv'
  <2>1. PICK s \in Sessions : sess[s] = before /\ sess' = [sess EXCEPT ![s] = after]
    BY <1>30 DEF Session
  <2>2. UNCHANGED <<inv, link, suspended, exempt, trial, expense, payee, pc, on, with, was, onTrial,
                    taken, overtaken, excused, missed>>
    BY <1>30 DEF Session, rows, locals
  <2>3. TypeOK'
    BY <1>t, <2>1, <2>2 DEF TypeOK
  <2>4. \A v \in Workers : Holding(v)'
    BY <1>t, <1>30, <2>1, <2>2 DEF Holding, TypeOK
  <2> QED
    BY <2>3, <2>4 DEF TypeInv
<1>31. CASE Gateway
  BY <1>30, <1>31 DEF Gateway, Pay, AttemptFails, SessionExpires
<1>32. ASSUME NEW w \in Workers, GrantExemption(w) \/ StartSweep(w) PROVE TypeInv'
  BY <1>2, <1>32 DEF GrantExemption, StartSweep, Labels, Aside
<1>33. ASSUME NEW w \in Workers, CreateExemption(w) \/ Reinstate(w) PROVE TypeInv'
  <2>1. PICK label \in {"idle", "reinstating", "waiving"} : Goto(w, label)
    BY <1>33 DEF CreateExemption, Reinstate
  <2>2. /\ UNCHANGED <<inv, link, trial, expense, sess, payee, overtaken, missed>>
        /\ suspended' \in BOOLEAN /\ exempt' \in BOOLEAN /\ excused' \in BOOLEAN
    BY <1>t, <1>33 DEF CreateExemption, Reinstate, gateway, Excuse, TypeOK
  <2> QED
    BY <1>t, <2>1, <2>2, QuietTypes DEF TypeOK, Labels, Aside
<1>34. ASSUME NEW w \in Workers, WaiveInvoices(w) PROVE TypeInv'
  <2>1. /\ inv' = [i \in Invoices |-> IF i \in Unpaid THEN "WAIVED" ELSE inv[i]]
        /\ Goto(w, "idle") /\ excused' \in BOOLEAN
        /\ UNCHANGED <<link, suspended, exempt, trial, expense, sess, payee, missed>>
    BY <1>34 DEF WaiveInvoices, gateway, Excuse
  <2>2. overtaken' \in [Workers -> BOOLEAN]
    BY <1>t, <1>34 DEF WaiveInvoices, Overtakes, TypeOK
  <2>3. inv' \in [Invoices -> Statuses] /\ \A i \in Invoices : inv'[i] = "PROCESSING" => link'[i] # 0
    BY <1>t, <2>1 DEF TypeOK, Statuses, Payable, Owed
  <2>4. TypeOK'
    BY <1>t, <2>1, <2>2, <2>3, GotoHolds DEF TypeOK, Labels, Statuses
  <2>5. \A v \in Workers : Holding(v)'
    BY <1>t, <2>1, GotoHolds DEF Holding, Labels, Aside
  <2> QED
    BY <2>4, <2>5 DEF TypeInv
<1>35. CASE ReactivateByPayment
  <2>1. /\ suspended' = FALSE /\ excused' \in BOOLEAN
        /\ UNCHANGED <<inv, link, exempt, trial, expense, sess, payee, pc, on, with, was, onTrial,
                       taken, overtaken, missed>>
    BY <1>35 DEF ReactivateByPayment, Excuse, gateway, locals
  <2> QED
    BY <1>t, <2>1 DEF TypeInv, TypeOK, Holding
<1>36. CASE Crash
  <2>1. \A w \in Recording : on[w] \in Invoices
    BY <1>t DEF Recording, Holding, Aside
  <2>2. missed' \subseteq Invoices
    BY <1>t, <1>36, <2>1 DEF Crash, Miss, TypeOK
  <2>3. /\ pc' = [w \in Workers |-> "idle"] /\ on' = [w \in Workers |-> NoInvoice]
        /\ with' = [w \in Workers |-> 0] /\ was' = [w \in Workers |-> "none"]
        /\ onTrial' = [w \in Workers |-> FALSE] /\ taken' = [w \in Workers |-> FALSE]
        /\ overtaken' = [w \in Workers |-> FALSE] /\ excused' \in BOOLEAN
        /\ UNCHANGED <<inv, link, suspended, exempt, trial, expense, sess, payee>>
    BY <1>36 DEF Crash, Excuse, rows, gateway
  <2> QED
    BY <1>t, <2>2, <2>3 DEF TypeInv, TypeOK, Holding, Labels, Aside
<1>37. CASE UNCHANGED vars
  BY <1>t, <1>37 DEF vars, TypeInv, TypeOK, Holding
<1> QED
  BY <1>3, <1>4, <1>5, <1>6, <1>7, <1>8, <1>9, <1>10, <1>11, <1>12, <1>13, <1>14, <1>15, <1>16,
     <1>17, <1>18, <1>19, <1>20, <1>21, <1>22, <1>23, <1>24, <1>25, <1>26, <1>27, <1>28, <1>29,
     <1>31, <1>32, <1>33, <1>34, <1>35, <1>36, <1>37 DEF Next, Checkout, Settlement, Sweep, Exempt

\* Every row, session and worker has its type, and no invoice waits for a
\* checkout without a session to wait for.
THEOREM TypeCorrect == Spec => []TypeOK
<1>1. TypeInv => TypeOK
  BY DEF TypeInv
<1> QED
  BY TypeInit, TypeStep, <1>1, PTL DEF Spec

-----------------------------------------------------------------------------
(* What a handler read stays so until another overtakes it.                *)

\* Whoever writes an invoice overtakes those that read something else of it.
LEMMA WriteOvertakes ==
    ASSUME TypeInv, NEW w \in Workers, NEW i \in Invoices, NEW status, NEW s, NEW label,
           WriteInvoice(w, i, status, s, label)
    PROVE  \A v \in Workers : v # w /\ ~overtaken'[v] =>
              /\ ~overtaken[v]
              /\ v \in Writing(i) => inv'[i] = inv[i] /\ (inv[i] # "DELETED" => link'[i] = link[i])
              /\ v \in Suspending => Overdue \subseteq Overdue'
<1> SUFFICES ASSUME NEW v \in Workers, v # w, ~overtaken'[v]
             PROVE  /\ ~overtaken[v]
                    /\ v \in Writing(i) =>
                          inv'[i] = inv[i] /\ (inv[i] # "DELETED" => link'[i] = link[i])
                    /\ v \in Suspending => Overdue \subseteq Overdue'
  OBVIOUS
<1> DEFINE changed == inv[i] # "DELETED" /\ (inv[i] # status \/ link[i] # s)
<1>1. /\ inv' = [inv EXCEPT ![i] = IF @ = "DELETED" THEN @ ELSE status]
      /\ link' = [link EXCEPT ![i] = s]
  BY DEF WriteInvoice
<1>2. /\ ~overtaken[v]
      /\ changed => v \notin Writing(i)
      /\ changed /\ "OVERDUE" \in {inv[i], status} => v \notin Suspending
  BY DEF WriteInvoice, Overtakes
<1>3. inv \in [Invoices -> Statuses] /\ link \in [Invoices -> Sessions \cup {0}]
  BY DEF TypeInv, TypeOK, Statuses
<1>4. ~changed => inv'[i] = inv[i] /\ (inv[i] # "DELETED" => link'[i] = link[i])
  BY <1>1, <1>3
<1>5. ~changed \/ "OVERDUE" \notin {inv[i], status} => Overdue \subseteq Overdue'
  BY <1>1, <1>3 DEF Overdue
<1> QED
  BY <1>2, <1>4, <1>5

\* The writer itself is done with what it read.
LEMMA WriteFresh ==
    ASSUME TypeInv, FreshInv, NEW w \in Workers, NEW i \in Invoices, NEW status, NEW s,
           NEW label \in {"idle", "activating", "reactivating"},
           WriteInvoice(w, i, status, s, label)
    PROVE  FreshInv'
<1>1. Goto(w, label) /\ label \in Labels /\ TypeOK
  BY DEF WriteInvoice, Labels, TypeInv
<1>2. \A j \in Invoices : j # i => inv'[j] = inv[j] /\ link'[j] = link[j]
  BY <1>1 DEF WriteInvoice, TypeOK
<1>3. Fresh(w)'
  BY <1>1, GotoHolds DEF Fresh
<1>4. ASSUME NEW v \in Workers, v # w PROVE Fresh(v)'
  <2>1. pc'[v] = pc[v] /\ on'[v] = on[v] /\ with'[v] = with[v]
    BY <1>1, <1>4, GotoHolds
  <2> SUFFICES ASSUME ~overtaken'[v] PROVE Fresh(v)'
    BY DEF Fresh
  <2>2. /\ ~overtaken[v]
        /\ v \in Writing(i) => inv'[i] = inv[i] /\ (inv[i] # "DELETED" => link'[i] = link[i])
        /\ v \in Suspending => Overdue \subseteq Overdue'
    BY <1>4, WriteOvertakes
  <2>3. Holding(v) /\ Fresh(v)
    BY DEF TypeInv, FreshInv
  <2> QED
    BY <1>2, <2>1, <2>2, <2>3 DEF Fresh, Holding, Aside, Writing, Suspending
<1> QED
  BY <1>3, <1>4 DEF FreshInv

\* A step that makes some of the invoices overdue, or waives some: whoever reads
\* one of them is overtaken, and so is whoever counted the overdue ones, unless
\* none is overdue no more.
LEMMA ManyFresh ==
    ASSUME TypeInv, FreshInv, NEW w \in Workers, NEW label \in {"counting", "idle"},
           NEW some \in SUBSET Invoices, NEW counted \in BOOLEAN, Overtakes(w, some, counted),
           \A j \in Invoices \ some : inv'[j] = inv[j],
           counted \/ Overdue \subseteq Overdue', link' = link,
           pc' = [pc EXCEPT ![w] = label],
           \A v \in Workers : v # w => on'[v] = on[v] /\ with'[v] = with[v]
    PROVE  FreshInv'
<1>1. TypeOK
  BY DEF TypeInv
<1>2. ASSUME NEW v \in Workers, v # w, ~overtaken'[v] PROVE Fresh(v)'
  <2>1. ~overtaken[v] /\ (\A i \in some : v \notin Writing(i)) /\ (counted => v \notin Suspending)
    BY <1>2 DEF Overtakes
  <2>2. Holding(v) /\ Fresh(v)
    BY DEF TypeInv, FreshInv
  <2>3. pc'[v] = pc[v] /\ on'[v] = on[v] /\ with'[v] = with[v]
    BY <1>1, <1>2 DEF TypeOK
  <2>4. pc[v] \in {"opening", "linking", "clearing", "voiding"} =>
           on[v] \in Invoices /\ on[v] \notin some
    BY <2>1, <2>2 DEF Writing, Holding, Aside
  <2>5. pc[v] = "suspending" => Overdue \subseteq Overdue'
    BY <2>1 DEF Suspending
  <2> QED
    BY <2>1, <2>2, <2>3, <2>4, <2>5 DEF Fresh
<1>3. Fresh(w)'
  BY <1>1 DEF Fresh, TypeOK
<1> QED
  BY <1>2, <1>3 DEF FreshInv, Fresh

\* A step that writes no invoice, by a worker that was not overtaken or whose
\* knowledge is new.
LEMMA QuietFresh ==
    ASSUME TypeOK, FreshInv, NEW w \in Workers, NEW label \in Labels, Goto(w, label),
           inv' = inv, link' = link, Fresh(w)',
           \A v \in Workers : v # w => overtaken'[v] = overtaken[v]
    PROVE  FreshInv'
  BY GotoHolds DEF FreshInv, Fresh, Overdue

LEMMA FreshInit == Init => FreshInv
  BY DEF Init, FreshInv, Fresh

LEMMA FreshStep == TypeInv /\ FreshInv /\ [Next]_vars => FreshInv'
<1> SUFFICES ASSUME TypeInv, FreshInv, [Next]_vars PROVE FreshInv'
  OBVIOUS
<1>t. TypeOK /\ \A v \in Workers : Holding(v) /\ Fresh(v)
  BY DEF TypeInv, FreshInv
<1>1. ASSUME NEW w \in Workers, NEW label \in Labels \ {"opening", "linking", "voiding"},
             Think(w, label),
             label = "clearing" => inv[on[w]] = "PROCESSING" /\ link[on[w]] = with[w],
             label = "suspending" => Overdue # {}
      PROVE  FreshInv'
  <2>1. Goto(w, label) /\ inv' = inv /\ link' = link
        /\ overtaken' = [overtaken EXCEPT ![w] = @ /\ label # "idle"]
    BY <1>1 DEF Think, rows
  <2>2. Fresh(w)'
    BY <1>t, <1>1, <2>1, GotoHolds DEF Fresh, Overdue
  <2> QED
    BY <1>t, <2>1, <2>2, QuietFresh DEF TypeOK
<1>2. ASSUME NEW w \in Workers, NEW label \in Labels \ {"opening", "linking", "suspending"},
             NEW i, NEW s, Begin(w, label, i, s),
             label = "clearing" => inv[i] = "PROCESSING" /\ link[i] = s,
             label = "voiding" => inv[i] # "PAID"
      PROVE  FreshInv'
  BY <1>t, <1>2 DEF Begin, FreshInv, TypeOK, Fresh, Overdue, rows
<1>3. ASSUME NEW w \in Workers, NEW i \in Invoices, CreateCheckout(w, i) PROVE FreshInv'
  <2>1. inv[i] \in Payable \ {"PROCESSING"}
    BY <1>t, <1>3 DEF CreateCheckout, TypeOK
  <2> QED
    BY <1>t, <1>3, <2>1 DEF CreateCheckout, FreshInv, TypeOK, Fresh, Overdue, rows
<1>4. ASSUME NEW w \in Workers, NEW i \in Invoices, Settle(w, i) PROVE FreshInv'
  BY <1>t, <1>2, <1>4 DEF Settle, TypeOK, Labels
<1>5. ASSUME NEW w \in Workers, NEW s \in Sessions, ReceivePaid(w, s) PROVE FreshInv'
  BY <1>2, <1>5 DEF ReceivePaid, Found, Labels
<1>6. ASSUME NEW w \in Workers, NEW s \in Sessions, ReceiveUnpaid(w, s) PROVE FreshInv'
  BY <1>2, <1>6 DEF ReceiveUnpaid, Found, Labels
<1>7. ASSUME NEW w \in Workers, OpenSession(w) PROVE FreshInv'
  <2>1. PICK s \in Sessions : with' = [with EXCEPT ![w] = s]
    BY <1>7 DEF OpenSession
  <2>2. /\ pc[w] = "opening" /\ pc' = [pc EXCEPT ![w] = "linking"]
        /\ UNCHANGED <<inv, link, on, overtaken>>
    BY <1>7 DEF OpenSession, At, rows
  <2> QED
    BY <1>t, <2>1, <2>2 DEF FreshInv, TypeOK, Fresh, Overdue
<1>8. ASSUME NEW w \in Workers, CheckoutRefused(w) PROVE FreshInv'
  <2>1. on[w] \in Invoices
    BY <1>t, <1>8 DEF CheckoutRefused, At, Holding, Aside
  <2> QED
    BY <1>8, <2>1, WriteFresh DEF CheckoutRefused
<1>9. ASSUME NEW w \in Workers, LinkSession(w) PROVE FreshInv'
  <2>1. on[w] \in Invoices
    BY <1>t, <1>9 DEF LinkSession, At, Holding, Aside
  <2> QED
    BY <1>9, <2>1, WriteFresh DEF LinkSession
<1>10. ASSUME NEW w \in Workers, Retrieve(w) PROVE FreshInv'
  BY <1>1, <1>10 DEF Retrieve, Labels
<1>11. ASSUME NEW w \in Workers, FindAgain(w) PROVE FreshInv'
  BY <1>1, <1>11 DEF FindAgain, Labels, Found
<1>12. ASSUME NEW w \in Workers, ClearSession(w) PROVE FreshInv'
  <2>1. on[w] \in Invoices
    BY <1>t, <1>12 DEF ClearSession, At, Holding, Aside
  <2> QED
    BY <1>12, <2>1, WriteFresh DEF ClearSession
<1>13. ASSUME NEW w \in Workers, MarkGatewayPaid(w) PROVE FreshInv'
  <2>1. on[w] \in Invoices
    BY <1>t, <1>13 DEF MarkGatewayPaid, At, Holding, Aside
  <2> QED
    BY <1>13, <2>1, WriteFresh DEF MarkGatewayPaid
<1>14. ASSUME NEW w \in Workers, NEW i \in Invoices, MarkPaid(w, i) PROVE FreshInv'
  BY <1>t, <1>14 DEF MarkPaid, FreshInv, TypeOK, Fresh, Overdue, rows
<1>15. ASSUME NEW w \in Workers, NEW i \in Invoices, Void(w, i) PROVE FreshInv'
  BY <1>2, <1>15 DEF Void, Labels, Payable, Owed
<1>16. ASSUME NEW w \in Workers, NEW i \in Invoices, Remove(w, i) PROVE FreshInv'
  BY <1>16, WriteFresh DEF Remove
<1>17. ASSUME NEW w \in Workers, StorePaid(w) PROVE FreshInv'
  <2>1. on[w] \in Invoices
    BY <1>t, <1>17 DEF StorePaid, At, Holding, Aside
  <2> QED
    BY <1>17, <2>1, WriteFresh DEF StorePaid
<1>18. ASSUME NEW w \in Workers, ActivateSubscription(w) \/ ReactivateCommunity(w) PROVE FreshInv'
  <2>1. PICK label \in {"reactivating", "recording"} :
          Goto(w, label) /\ UNCHANGED <<inv, link, overtaken>>
    BY <1>18 DEF ActivateSubscription, ReactivateCommunity
  <2>2. Fresh(w)'
    BY <1>t, <2>1, GotoHolds DEF Fresh, Labels
  <2> QED
    BY <1>t, <2>1, <2>2, QuietFresh DEF Labels
<1>19. ASSUME NEW w \in Workers, FindExpense(w) PROVE FreshInv'
  BY <1>1, <1>19 DEF FindExpense, Labels
<1>20. ASSUME NEW w \in Workers, NumberExpense(w) \/ StoreExpense(w) PROVE FreshInv'
  <2>1. CASE Think(w, "storing")
    BY <1>1, <2>1 DEF Labels
  <2>2. CASE ~Think(w, "storing")
    <3>1. /\ pc' = [pc EXCEPT ![w] = "idle"] /\ UNCHANGED <<inv, link>>
          /\ overtaken' = [overtaken EXCEPT ![w] = FALSE]
          /\ on' = [on EXCEPT ![w] = NoInvoice] /\ with' = [with EXCEPT ![w] = 0]
      BY <1>20, <2>2 DEF NumberExpense, StoreExpense, ExpenseStored, Goto, rows
    <3> QED
      BY <1>t, <3>1 DEF FreshInv, TypeOK, Fresh, Overdue
  <2> QED
    BY <2>1, <2>2
<1>21. ASSUME NEW w \in Workers, StoreVoid(w) PROVE FreshInv'
  <2>1. on[w] \in Invoices
    BY <1>t, <1>21 DEF StoreVoid, At, Holding, Aside
  <2> QED
    BY <1>21, <2>1, WriteFresh DEF StoreVoid
<1>22. ASSUME NEW w \in Workers, SweepOverdue(w) PROVE FreshInv'
  <2>1. PICK late \in SUBSET {i \in Invoices : inv[i] = "ISSUED"} :
          /\ inv' = [i \in Invoices |-> IF i \in late THEN "OVERDUE" ELSE inv[i]]
          /\ Overtakes(w, late, late # {})
    BY <1>22 DEF SweepOverdue
  <2>2. pc' = [pc EXCEPT ![w] = "counting"] /\ UNCHANGED <<link, on, with>>
    BY <1>22 DEF SweepOverdue, locals
  <2>3. Overdue \subseteq Overdue' /\ \A j \in Invoices \ late : inv'[j] = inv[j]
    BY <1>t, <2>1 DEF Overdue, TypeOK
  <2>4. late \in SUBSET Invoices /\ (late # {}) \in BOOLEAN
    OBVIOUS
  <2> QED
    BY <2>1, <2>2, <2>3, <2>4, ManyFresh
<1>23. ASSUME NEW w \in Workers, CountOverdue(w) PROVE FreshInv'
  BY <1>1, <1>23 DEF CountOverdue, Labels
<1>24. ASSUME NEW w \in Workers, SuspendCommunity(w) PROVE FreshInv'
  <2>1. /\ Goto(w, "idle") /\ UNCHANGED <<inv, link>> /\ "idle" \in Labels
        /\ overtaken' = [overtaken EXCEPT ![w] = FALSE]
    BY <1>24 DEF SuspendCommunity, Labels
  <2>2. Fresh(w)'
    BY <1>t, <2>1, GotoHolds DEF Fresh
  <2> QED
    BY <1>t, <2>1, <2>2, QuietFresh DEF TypeOK
<1>25. ASSUME NEW i \in Invoices, NEW status \in {"DRAFT", "ISSUED", "WAIVED"}, Issue(i, status)
      PROVE FreshInv'
  <2>1. inv[i] = "none" /\ inv' = [inv EXCEPT ![i] = status]
        /\ UNCHANGED <<link, pc, on, with, overtaken>>
    BY <1>25 DEF Issue, locals
  <2> QED
    BY <1>t, <2>1 DEF FreshInv, TypeOK, Fresh, Holding, Aside, Overdue, Payable, Owed
<1>26. CASE EndSubscription \/ TurnExemption \/ ReactivateByPayment \/ AddExpense \/ Gateway
              \/ UNCHANGED vars
  <2>1. UNCHANGED <<inv, link, pc, on, with, overtaken>>
    BY <1>26 DEF EndSubscription, TurnExemption, ReactivateByPayment, AddExpense, Gateway, Pay,
                 AttemptFails, SessionExpires, Session, rows, locals, vars
  <2> QED
    BY <1>t, <2>1 DEF FreshInv, Fresh, Overdue
<1>27. ASSUME NEW w \in Workers, GrantExemption(w) \/ StartSweep(w) PROVE FreshInv'
  BY <1>2, <1>27 DEF GrantExemption, StartSweep, Labels
<1>28. ASSUME NEW w \in Workers, CreateExemption(w) \/ Reinstate(w) PROVE FreshInv'
  <2>1. PICK label \in {"idle", "reinstating", "waiving"} :
          Goto(w, label) /\ UNCHANGED <<inv, link, overtaken>>
    BY <1>28 DEF CreateExemption, Reinstate
  <2>2. Fresh(w)'
    BY <1>t, <2>1, GotoHolds DEF Fresh, Labels
  <2> QED
    BY <1>t, <2>1, <2>2, QuietFresh DEF Labels
<1>29. ASSUME NEW w \in Workers, WaiveInvoices(w) PROVE FreshInv'
  <2>1. /\ inv' = [i \in Invoices |-> IF i \in Unpaid THEN "WAIVED" ELSE inv[i]]
        /\ Overtakes(w, Unpaid, Overdue # {}) /\ Goto(w, "idle") /\ link' = link
    BY <1>29 DEF WaiveInvoices
  <2>2. /\ pc' = [pc EXCEPT ![w] = "idle"]
        /\ \A v \in Workers : v # w => on'[v] = on[v] /\ with'[v] = with[v]
    BY <1>t, <2>1, GotoHolds DEF Labels
  <2>3. \A j \in Invoices \ Unpaid : inv'[j] = inv[j]
    BY <2>1
  <2>4. Unpaid \in SUBSET Invoices /\ (Overdue # {}) \in BOOLEAN
    BY DEF Unpaid
  <2>5. Overdue # {} \/ Overdue \subseteq Overdue'
    OBVIOUS
  <2> QED
    BY <2>1, <2>2, <2>3, <2>4, <2>5, ManyFresh
<1>30. CASE Crash
  BY <1>30 DEF Crash, FreshInv, Fresh
<1> QED
  BY <1>3, <1>4, <1>5, <1>6, <1>7, <1>8, <1>9, <1>10, <1>11, <1>12, <1>13, <1>14, <1>15, <1>16,
     <1>17, <1>18, <1>19, <1>20, <1>21, <1>22, <1>23, <1>24, <1>25, <1>26, <1>27, <1>28, <1>29,
     <1>30
  DEF Next, Checkout, Settlement, Sweep, Exempt

IInv == TypeInv /\ FreshInv

LEMMA IInvAlways == Spec => []IInv
<1>1. Init => IInv
  BY TypeInit, FreshInit DEF IInv
<1>2. IInv /\ [Next]_vars => IInv'
  BY TypeStep, FreshStep DEF IInv
<1> QED
  BY <1>1, <1>2, PTL DEF Spec

-----------------------------------------------------------------------------
(* What a step may never do.  Only a handler that writes the invoice it    *)
(* works on takes a payment back or lets a session go.                     *)

\* The writes of an invoice, each with the status and session it writes.
LEMMA InvoiceWrites ==
    ASSUME IInv, [Next]_vars, NEW i \in Invoices,
           inv'[i] # inv[i] \/ link'[i] # link[i]
    PROVE  \/ inv[i] = "none" /\ link'[i] = link[i]
           \/ inv[i] \in Owed /\ link'[i] = link[i]
           \/ inv'[i] \in {"PAID", "DELETED"} /\ link'[i] = link[i]
           \/ \E w \in Workers :
                 /\ on[w] = i /\ pc'[w] # pc[w]
                 /\ \/ pc[w] = "opening" /\ link'[i] = link[i]
                    \/ pc[w] = "linking"
                    \/ pc[w] = "clearing"
                    \/ pc[w] = "voiding" /\ link'[i] = link[i]
<1> DEFINE Written ==
             \/ inv[i] = "none" /\ link'[i] = link[i]
             \/ inv[i] \in Owed /\ link'[i] = link[i]
             \/ inv'[i] \in {"PAID", "DELETED"} /\ link'[i] = link[i]
             \/ \E w \in Workers :
                   /\ on[w] = i /\ pc'[w] # pc[w]
                   /\ \/ pc[w] = "opening" /\ link'[i] = link[i]
                      \/ pc[w] = "linking"
                      \/ pc[w] = "clearing"
                      \/ pc[w] = "voiding" /\ link'[i] = link[i]
<1> SUFFICES Written
  OBVIOUS
<1>t. TypeOK
  BY DEF IInv, TypeInv
<1>1. ASSUME NEW w \in Workers, NEW j, NEW status, NEW s, NEW label \in Labels,
             WriteInvoice(w, j, status, s, label)
      PROVE  /\ j = i /\ pc'[w] = label
             /\ (status = "PAID" \/ status = "DELETED") => inv'[i] \in {status, "DELETED"}
             /\ s = link[j] => link'[i] = link[i]
  BY <1>t, <1>1 DEF WriteInvoice, Goto, TypeOK
<1>2. ASSUME NEW w \in Workers, CheckoutRefused(w) PROVE Written
  <2>1. on[w] = i /\ pc[w] = "opening" /\ link'[i] = link[i] /\ pc'[w] = "idle"
    <3>1. pc[w] = "opening" /\ "idle" \in Labels
          /\ WriteInvoice(w, on[w], was[w], link[on[w]], "idle")
      BY <1>2 DEF CheckoutRefused, At, Labels
    <3>2. on[w] = i /\ pc'[w] = "idle"
      BY <1>1, <3>1
    <3>3. link'[i] = link[i]
      BY <1>1, <3>1
    <3> QED
      BY <3>1, <3>2, <3>3
  <2> QED
    BY <2>1
<1>3. ASSUME NEW w \in Workers, LinkSession(w) PROVE Written
  BY <1>1, <1>3, ZenonT(60) DEF LinkSession, At, Labels
<1>4. ASSUME NEW w \in Workers, ClearSession(w) PROVE Written
  BY <1>1, <1>4, ZenonT(60) DEF ClearSession, At, Labels
<1>5. ASSUME NEW w \in Workers, MarkGatewayPaid(w) PROVE Written
  BY <1>1, <1>5, ZenonT(60) DEF MarkGatewayPaid, Labels
<1>6. ASSUME NEW w \in Workers, StorePaid(w) PROVE Written
  BY <1>1, <1>6, ZenonT(60) DEF StorePaid, Labels
<1>7. ASSUME NEW w \in Workers, StoreVoid(w) PROVE Written
  BY <1>1, <1>7 DEF StoreVoid, At, Labels
<1>8. ASSUME NEW w \in Workers, NEW j \in Invoices, Remove(w, j) PROVE Written
  BY <1>1, <1>8, ZenonT(60) DEF Remove, Labels
<1>9. ASSUME NEW w \in Workers, SweepOverdue(w) PROVE Written
  BY <1>t, <1>9 DEF SweepOverdue, TypeOK, Owed
<1>10. ASSUME NEW j \in Invoices, NEW status, Issue(j, status) PROVE Written
  BY <1>t, <1>10 DEF Issue, TypeOK
<1>11. CASE UNCHANGED <<inv, link>>
  BY <1>11
<1>12. ASSUME NEW w \in Workers, NEW label, Think(w, label) PROVE UNCHANGED <<inv, link>>
  BY <1>12 DEF Think, rows
<1>13. ASSUME NEW w \in Workers, NEW label, NEW j, NEW s, Begin(w, label, j, s)
       PROVE  UNCHANGED <<inv, link>>
  BY <1>13 DEF Begin, rows
<1>14. ASSUME NEW w \in Workers, WaiveInvoices(w) PROVE Written
  BY <1>t, <1>14 DEF WaiveInvoices, Unpaid, TypeOK
<1>15. ASSUME NEW w \in Workers, Checkout(w) PROVE Written
  BY <1>2, <1>3, <1>4, <1>5, <1>11, <1>12, <1>13, <1>15, ZenonT(60)
  DEF Checkout, CreateCheckout, Settle, ReceivePaid, ReceiveUnpaid, OpenSession, Retrieve,
      FindAgain, rows
<1>16. ASSUME NEW w \in Workers, Settlement(w) PROVE Written
  BY <1>6, <1>7, <1>8, <1>11, <1>12, <1>13, <1>16, ZenonT(60)
  DEF Settlement, MarkPaid, Void, ActivateSubscription, ReactivateCommunity, FindExpense,
      NumberExpense, StoreExpense, ExpenseStored, rows
<1>17. ASSUME NEW w \in Workers, Sweep(w) \/ Exempt(w) PROVE Written
  BY <1>9, <1>11, <1>12, <1>13, <1>14, <1>17, ZenonT(60)
  DEF Sweep, Exempt, CountOverdue, SuspendCommunity, StartSweep, GrantExemption, CreateExemption,
      Reinstate
<1> QED
  BY <1>10, <1>11, <1>15, <1>16, <1>17, ZenonT(60)
  DEF Next, EndSubscription, TurnExemption, ReactivateByPayment, AddExpense, Crash, Gateway, Pay,
      AttemptFails, SessionExpires, Session, rows, vars

\* A payment is taken back only by a handler that read the invoice before it was
\* paid.
THEOREM PaymentsStay == Spec => PaidStaysPaid
<1> DEFINE A == \A i \in Invoices :
                  inv[i] = "PAID" /\ inv'[i] \notin {"PAID", "DELETED"} =>
                     \E w \in Workers : overtaken[w] /\ on[w] = i /\ pc'[w] # pc[w]
<1>1. IInv /\ [Next]_vars => [A]_vars
  <2> SUFFICES ASSUME IInv, [Next]_vars, NEW i \in Invoices,
                      inv[i] = "PAID", inv'[i] \notin {"PAID", "DELETED"}
               PROVE  \E w \in Workers : overtaken[w] /\ on[w] = i /\ pc'[w] # pc[w]
    OBVIOUS
  <2>1. PICK w \in Workers : /\ on[w] = i /\ pc'[w] # pc[w]
                             /\ pc[w] \in {"opening", "linking", "clearing", "voiding"}
    BY InvoiceWrites DEF Owed
  <2>2. overtaken[w]
    BY <2>1 DEF IInv, FreshInv, Fresh, Payable, Owed
  <2> QED
    BY <2>1, <2>2
<1> QED
  BY <1>1, IInvAlways, PTL DEF Spec, PaidStaysPaid

\* The session an invoice waits for, once it was paid, is let go only by a handler
\* that read the invoice before another wrote it.
THEOREM SessionsStay == Spec => PaidSessionIsKept
<1> DEFINE A == \A i \in Invoices :
                  inv[i] = "PROCESSING" /\ link[i] # 0 /\ sess[link[i]] = "paid" /\ link'[i] # link[i] =>
                     \E w \in Workers : overtaken[w] /\ on[w] = i /\ pc'[w] # pc[w]
<1>1. IInv /\ [Next]_vars => [A]_vars
  <2> SUFFICES ASSUME IInv, [Next]_vars, NEW i \in Invoices, inv[i] = "PROCESSING",
                      sess[link[i]] = "paid", link'[i] # link[i]
               PROVE  \E w \in Workers : overtaken[w] /\ on[w] = i /\ pc'[w] # pc[w]
    OBVIOUS
  <2>1. PICK w \in Workers : /\ on[w] = i /\ pc'[w] # pc[w]
                             /\ pc[w] \in {"linking", "clearing"}
    BY InvoiceWrites
  <2>2. overtaken[w]
    BY <2>1 DEF IInv, FreshInv, Fresh, TypeInv, Holding
  <2> QED
    BY <2>1, <2>2
<1> QED
  BY <1>1, IInvAlways, PTL DEF Spec, PaidSessionIsKept

-----------------------------------------------------------------------------
(* What an invoice's status brings with it.                                *)

\* A suspension goes on being owed for or excused, or ends.
LEMMA OwesStep == IInv /\ SuspendedOwes /\ [Next]_vars => SuspendedOwes'
<1> SUFFICES ASSUME IInv, SuspendedOwes, [Next]_vars PROVE SuspendedOwes'
  OBVIOUS
<1>t. TypeOK /\ \A w \in Workers : Holding(w) /\ Fresh(w)
  BY DEF IInv, TypeInv, FreshInv
\* Nothing that matters changes but where w is.
<1>1. ASSUME NEW w \in Workers, NEW label, pc' = [pc EXCEPT ![w] = label],
             pc[w] \in {"activating", "reactivating"} => label \in {"activating", "reactivating"},
             UNCHANGED <<inv, suspended, excused>>
      PROVE  SuspendedOwes'
  <2>1. Unpaid' = Unpaid /\ Reactivating \subseteq Reactivating'
    BY <1>t, <1>1 DEF Unpaid, Reactivating, TypeOK
  <2> QED
    BY <1>1, <2>1 DEF SuspendedOwes
\* An invoice is written: it is owed then, or reactivates the community, or excuses
\* it; w was not about to reactivate, and may be now.
<1>2. ASSUME NEW w \in Workers, NEW i \in Invoices, NEW status, NEW s,
             NEW label \in {"idle", "activating", "reactivating"},
             WriteInvoice(w, i, status, s, label),
             pc[w] \notin {"activating", "reactivating"},
             status = "PAID" => label # "idle"
      PROVE  SuspendedOwes'
  <2> DEFINE writtenOff == inv[i] \in Owed /\ status \notin Owed \cup {"PAID"}
  <2>1. /\ pc' = [pc EXCEPT ![w] = label] /\ suspended' = suspended
        /\ inv' = [inv EXCEPT ![i] = IF @ = "DELETED" THEN @ ELSE status]
        /\ Excuse(writtenOff)
    <3>1. Goto(w, label)
      BY <1>2 DEF WriteInvoice
    <3>2. pc' = [pc EXCEPT ![w] = label]
      BY <3>1 DEF Goto
    <3>3. suspended' = suspended /\ inv' = [inv EXCEPT ![i] = IF @ = "DELETED" THEN @ ELSE status]
      BY <1>2 DEF WriteInvoice
    <3>4. Excuse(writtenOff)
      BY <1>2, Zenon DEF WriteInvoice
    <3> QED
      BY <3>2, <3>3, <3>4
  <2>2. Reactivating \subseteq Reactivating' /\ (label # "idle" => w \in Reactivating')
    BY <1>t, <1>2, <2>1 DEF Reactivating, TypeOK
  <2>3. inv[i] # "DELETED" /\ status \in Owed => i \in Unpaid'
    BY <1>t, <2>1 DEF Unpaid, TypeOK
  <2>4. inv[i] = "DELETED" \/ (inv[i] \notin Owed /\ status \notin Owed) => Unpaid' = Unpaid
    BY <1>t, <2>1 DEF Unpaid, TypeOK, Owed
  <2>5. writtenOff /\ suspended' => Unpaid' # {} \/ excused'
    BY <2>1 DEF Excuse
  <2>6. excused /\ suspended' => Unpaid' # {} \/ excused'
    BY <2>1 DEF Excuse
  <2> QED
    BY <1>2, <2>1, <2>2, <2>3, <2>4, <2>5, <2>6 DEF SuspendedOwes
<1>3. ASSUME NEW w \in Workers, NEW label, Think(w, label), pc[w] # "activating",
             pc[w] # "reactivating"
      PROVE  SuspendedOwes'
  BY <1>1, <1>3 DEF Think, Goto, rows
<1>4. ASSUME NEW w \in Workers, NEW label, NEW i, NEW s, Begin(w, label, i, s)
      PROVE  SuspendedOwes'
  BY <1>1, <1>4 DEF Begin, At, rows
<1>5. ASSUME NEW w \in Workers,
             \/ OpenSession(w) \/ NumberExpense(w) \/ StoreExpense(w) \/ CreateExemption(w)
             \/ \E i \in Invoices : CreateCheckout(w, i) \/ MarkPaid(w, i)
      PROVE  SuspendedOwes'
  <2>1. pc[w] \notin {"activating", "reactivating"}
    BY <1>5 DEF CreateCheckout, OpenSession, MarkPaid, NumberExpense, StoreExpense, ExpenseStored,
                CreateExemption, At
  <2>2. UNCHANGED <<inv, suspended, excused>>
    BY <1>5 DEF CreateCheckout, OpenSession, MarkPaid, NumberExpense, StoreExpense, ExpenseStored,
                CreateExemption, Think, rows
  <2>3. \E label : pc' = [pc EXCEPT ![w] = label]
    BY <1>5 DEF CreateCheckout, OpenSession, MarkPaid, NumberExpense, StoreExpense, ExpenseStored,
                CreateExemption, Think, Goto
  <2> QED
    BY <1>1, <2>1, <2>2, <2>3
<1>6. ASSUME NEW w \in Workers, CheckoutRefused(w) PROVE SuspendedOwes'
  <2>1. on[w] \in Invoices /\ was[w] # "PAID" /\ pc[w] = "opening"
    BY <1>t, <1>6 DEF CheckoutRefused, At, Holding, Aside, Payable, Owed
  <2> QED
    BY <1>2, <1>6, <2>1 DEF CheckoutRefused
<1>7. ASSUME NEW w \in Workers, LinkSession(w) PROVE SuspendedOwes'
  <2>1. on[w] \in Invoices /\ pc[w] = "linking"
    BY <1>t, <1>7 DEF LinkSession, At, Holding, Aside
  <2> QED
    BY <1>2, <1>7, <2>1 DEF LinkSession
<1>8. ASSUME NEW w \in Workers, ClearSession(w) PROVE SuspendedOwes'
  <2>1. on[w] \in Invoices /\ pc[w] = "clearing"
    BY <1>t, <1>8 DEF ClearSession, At, Holding, Aside
  <2> QED
    BY <1>2, <1>8, <2>1 DEF ClearSession
<1>9. ASSUME NEW w \in Workers, MarkGatewayPaid(w) PROVE SuspendedOwes'
  <2>1. on[w] \in Invoices /\ pc[w] = "paying"
    BY <1>t, <1>9 DEF MarkGatewayPaid, At, Holding, Aside
  <2> QED
    BY <1>2, <1>9, <2>1 DEF MarkGatewayPaid
<1>10. ASSUME NEW w \in Workers, StorePaid(w) PROVE SuspendedOwes'
  <2>1. on[w] \in Invoices /\ pc[w] = "payingByHand"
    BY <1>t, <1>10 DEF StorePaid, At, Holding, Aside
  <2> QED
    BY <1>2, <1>10, <2>1 DEF StorePaid
<1>11. ASSUME NEW w \in Workers, StoreVoid(w) PROVE SuspendedOwes'
  <2>1. on[w] \in Invoices /\ pc[w] = "voiding"
    BY <1>t, <1>11 DEF StoreVoid, At, Holding, Aside
  <2> QED
    BY <1>2, <1>11, <2>1 DEF StoreVoid
<1>12. ASSUME NEW w \in Workers, NEW i \in Invoices, Remove(w, i) PROVE SuspendedOwes'
  BY <1>2, <1>12 DEF Remove, At
<1>13. ASSUME NEW w \in Workers, ActivateSubscription(w) PROVE SuspendedOwes'
  BY <1>1, <1>13 DEF ActivateSubscription, Goto
<1>14. ASSUME NEW w \in Workers, ReactivateCommunity(w) PROVE SuspendedOwes'
  BY <1>14 DEF ReactivateCommunity, SuspendedOwes
<1>15. ASSUME NEW w \in Workers, SweepOverdue(w) PROVE SuspendedOwes'
  <2>1. /\ pc[w] = "sweeping" /\ pc' = [pc EXCEPT ![w] = "counting"]
        /\ UNCHANGED <<suspended, excused>>
    BY <1>15 DEF SweepOverdue, At
  <2>2. Unpaid' = Unpaid
    BY <1>t, <1>15 DEF SweepOverdue, Unpaid, Owed, TypeOK
  <2>3. Reactivating \subseteq Reactivating'
    BY <1>t, <2>1 DEF Reactivating, TypeOK
  <2> QED
    BY <2>1, <2>2, <2>3 DEF SuspendedOwes
<1>16. ASSUME NEW w \in Workers, SuspendCommunity(w) PROVE SuspendedOwes'
  <2>1. /\ pc[w] = "suspending" /\ inv' = inv /\ suspended' = TRUE
        /\ excused' = (suspended' /\ Unpaid' = {} /\ (excused \/ overtaken[w]))
    BY <1>16 DEF SuspendCommunity, At, Excuse
  <2>2. overtaken[w] \/ Overdue # {}
    BY <1>t, <2>1 DEF Fresh
  <2>3. Unpaid' = Unpaid /\ Overdue \subseteq Unpaid
    BY <2>1 DEF Unpaid, Overdue, Owed
  <2> QED
    BY <2>1, <2>2, <2>3 DEF SuspendedOwes
<1>17. ASSUME NEW i \in Invoices, NEW status \in {"DRAFT", "ISSUED", "WAIVED"}, Issue(i, status)
       PROVE  SuspendedOwes'
  <2>1. /\ inv[i] = "none" /\ inv' = [inv EXCEPT ![i] = status] /\ pc' = pc /\ suspended' = suspended
        /\ excused' = (suspended' /\ Unpaid' = {} /\ excused)
    BY <1>17 DEF Issue, Excuse
  <2>2. Unpaid \subseteq Unpaid' /\ Reactivating' = Reactivating
    BY <1>t, <2>1 DEF Unpaid, Reactivating, Owed, TypeOK
  <2> QED
    BY <2>1, <2>2 DEF SuspendedOwes
<1>18. CASE EndSubscription \/ TurnExemption \/ AddExpense \/ Gateway \/ UNCHANGED vars
  <2>1. UNCHANGED <<inv, suspended, pc, excused>>
    BY <1>18 DEF EndSubscription, TurnExemption, AddExpense, Gateway, Pay, AttemptFails,
                 SessionExpires, Session, rows, vars
  <2> QED
    BY <2>1 DEF SuspendedOwes, Unpaid, Reactivating
<1>19. ASSUME NEW w \in Workers,
              Retrieve(w) \/ FindAgain(w) \/ FindExpense(w) \/ CountOverdue(w)
       PROVE  SuspendedOwes'
  <2>1. pc[w] # "activating" /\ pc[w] # "reactivating"
    BY <1>19 DEF Retrieve, FindAgain, FindExpense, CountOverdue, At
  <2>2. \E label : Think(w, label)
    BY <1>19 DEF Retrieve, FindAgain, FindExpense, CountOverdue
  <2> QED
    BY <1>3, <2>1, <2>2
<1>20. ASSUME NEW w \in Workers, WaiveInvoices(w) PROVE SuspendedOwes'
  <2>1. /\ pc[w] = "waiving" /\ Goto(w, "idle") /\ suspended' = suspended
        /\ inv' = [i \in Invoices |-> IF i \in Unpaid THEN "WAIVED" ELSE inv[i]]
        /\ excused' = (suspended' /\ Unpaid' = {} /\ (excused \/ Unpaid # {}))
    BY <1>20 DEF WaiveInvoices, At, Excuse
  <2>2. Unpaid' = {}
    BY <1>t, <2>1 DEF Unpaid, Owed, TypeOK
  <2>3. Reactivating \subseteq Reactivating'
    BY <1>t, <2>1 DEF Goto, Reactivating, TypeOK
  <2> QED
    BY <2>1, <2>2, <2>3 DEF SuspendedOwes
<1>21. CASE Crash
  <2>1. /\ UNCHANGED <<inv, suspended>>
        /\ excused' = (suspended' /\ Unpaid' = {} /\ (excused \/ Reactivating # {}))
    BY <1>21 DEF Crash, Excuse, rows
  <2>2. Unpaid' = Unpaid
    BY <2>1 DEF Unpaid
  <2> QED
    BY <2>1, <2>2 DEF SuspendedOwes
<1>22. CASE ReactivateByPayment \/ \E w \in Workers : Reinstate(w)
  BY <1>22 DEF ReactivateByPayment, Reinstate, SuspendedOwes
<1>23. ASSUME NEW w \in Workers, Checkout(w) PROVE SuspendedOwes'
  BY <1>4, <1>5, <1>6, <1>7, <1>8, <1>9, <1>19, <1>23
  DEF Checkout, Settle, ReceivePaid, ReceiveUnpaid
<1>24. ASSUME NEW w \in Workers, Settlement(w) PROVE SuspendedOwes'
  BY <1>4, <1>5, <1>10, <1>11, <1>12, <1>13, <1>14, <1>19, <1>24 DEF Settlement, Void
<1>25. ASSUME NEW w \in Workers, Sweep(w) \/ Exempt(w) PROVE SuspendedOwes'
  BY <1>4, <1>5, <1>15, <1>16, <1>19, <1>20, <1>22, <1>25 DEF Sweep, Exempt, StartSweep, GrantExemption
<1> QED
  BY <1>17, <1>18, <1>21, <1>22, <1>23, <1>24, <1>25 DEF Next

\* A community is suspended for not paying while it owes something, or until the
\* worker that found it paid reactivates it, or what it owed went away otherwise.
THEOREM SuspensionIsOwed == Spec => []SuspendedOwes
<1>1. Init => SuspendedOwes
  BY DEF Init, SuspendedOwes
<1> QED
  BY <1>1, OwesStep, IInvAlways, PTL DEF Spec

\* What is paid is entered, or is about to be, or is missed; and once entered it is
\* not entered again.
LEMMA ExpensedStep == IInv /\ PaidIsExpensedOnce /\ [Next]_vars => PaidIsExpensedOnce'
<1> SUFFICES ASSUME IInv, PaidIsExpensedOnce, [Next]_vars PROVE PaidIsExpensedOnce'
  OBVIOUS
<1>t. TypeOK /\ \A w \in Workers : Holding(w)
  BY DEF IInv, TypeInv
\* No invoice is paid and no expense is entered; w goes on to enter the one it works on.
<1>1. ASSUME NEW w \in Workers, NEW label, pc' = [pc EXCEPT ![w] = label],
             w \in Recording => on'[w] = on[w] /\ w \in Recording',
             \A v \in Workers : v # w => on'[v] = on[v],
             \A i \in Invoices : inv'[i] = "PAID" => inv[i] = "PAID",
             UNCHANGED <<expense, missed>>
      PROVE  PaidIsExpensedOnce'
  <2>1. \A v \in Recording : v \in Recording' /\ on'[v] = on[v]
    BY <1>t, <1>1 DEF Recording, TypeOK
  <2> QED
    BY <1>1, <2>1 DEF PaidIsExpensedOnce
\* An invoice is written by a worker that has no expense ahead yet.
<1>2. ASSUME NEW w \in Workers, w \notin Recording, NEW i \in Invoices, NEW status, NEW s,
             NEW label \in {"idle", "activating", "reactivating"},
             WriteInvoice(w, i, status, s, label),
             status = "PAID" => label # "idle" /\ on[w] = i
      PROVE  PaidIsExpensedOnce'
  <2>1. Goto(w, label) /\ label \in Labels /\ UNCHANGED <<expense, missed>>
        /\ inv' = [inv EXCEPT ![i] = IF @ = "DELETED" THEN @ ELSE status]
    BY <1>2 DEF WriteInvoice, Labels
  <2>2. \A v \in Recording : v \in Recording' /\ on'[v] = on[v]
    BY <1>t, <1>2, <2>1, GotoHolds DEF Recording
  <2>3. inv'[i] = "PAID" /\ inv[i] # "PAID" => w \in Recording' /\ on'[w] = i
    BY <1>t, <1>2, <2>1, GotoHolds DEF Recording, TypeOK
  <2>4. \A j \in Invoices : j # i => inv'[j] = inv[j]
    BY <1>t, <2>1 DEF TypeOK
  <2> QED
    BY <2>1, <2>2, <2>3, <2>4 DEF PaidIsExpensedOnce
<1>3. ASSUME NEW w \in Workers, NEW label \in Labels, Goto(w, label),
             w \in Recording =>
                label \in {"activating", "reactivating", "recording", "numbering", "storing"},
             UNCHANGED <<inv, expense, missed>>
      PROVE  PaidIsExpensedOnce'
  <2>1. w \in Recording => on'[w] = on[w] /\ w \in Recording'
    BY <1>t, <1>3, GotoHolds DEF Recording
  <2> QED
    BY <1>t, <1>1, <1>3, <2>1, GotoHolds
<1>4. ASSUME NEW w \in Workers, NEW label, NEW i, NEW s, Begin(w, label, i, s)
      PROVE  PaidIsExpensedOnce'
  BY <1>t, <1>1, <1>4 DEF Begin, At, rows, Recording, TypeOK
<1>5. ASSUME NEW w \in Workers, NEW i \in Invoices, CreateCheckout(w, i) \/ MarkPaid(w, i)
      PROVE  PaidIsExpensedOnce'
  <2>1. /\ pc[w] = "idle" /\ UNCHANGED <<inv, expense, missed>>
        /\ \E label : pc' = [pc EXCEPT ![w] = label]
        /\ \A v \in Workers : v # w => on'[v] = on[v]
    BY <1>t, <1>5 DEF CreateCheckout, MarkPaid, At, rows, TypeOK
  <2> QED
    BY <1>1, <2>1 DEF Recording
<1>6. ASSUME NEW w \in Workers, OpenSession(w) PROVE PaidIsExpensedOnce'
  BY <1>1, <1>6 DEF OpenSession, At, rows, Recording
<1>7. ASSUME NEW w \in Workers, CheckoutRefused(w) PROVE PaidIsExpensedOnce'
  <2>1. on[w] \in Invoices /\ was[w] # "PAID" /\ w \notin Recording
    BY <1>t, <1>7 DEF CheckoutRefused, At, Holding, Aside, Payable, Owed, Recording
  <2> QED
    BY <1>2, <1>7, <2>1 DEF CheckoutRefused
<1>8. ASSUME NEW w \in Workers, LinkSession(w) \/ ClearSession(w) \/ StoreVoid(w)
      PROVE  PaidIsExpensedOnce'
  <2>1. on[w] \in Invoices /\ w \notin Recording
    BY <1>t, <1>8 DEF LinkSession, ClearSession, StoreVoid, At, Holding, Aside, Recording
  <2> QED
    BY <1>2, <1>8, <2>1 DEF LinkSession, ClearSession, StoreVoid
<1>9. ASSUME NEW w \in Workers, MarkGatewayPaid(w) \/ StorePaid(w) PROVE PaidIsExpensedOnce'
  <2>1. on[w] \in Invoices /\ w \notin Recording
    BY <1>t, <1>9 DEF MarkGatewayPaid, StorePaid, At, Holding, Aside, Recording
  <2>2. PICK label \in {"activating", "reactivating"} :
          WriteInvoice(w, on[w], "PAID", link[on[w]], label)
    BY <1>9 DEF MarkGatewayPaid, StorePaid
  <2> QED
    BY <1>2, <2>1, <2>2
<1>10. ASSUME NEW w \in Workers, NEW i \in Invoices, Remove(w, i) PROVE PaidIsExpensedOnce'
  <2>1. w \notin Recording
    BY <1>10 DEF Remove, At, Recording
  <2> QED
    BY <1>2, <1>10, <2>1 DEF Remove
<1>11. ASSUME NEW w \in Workers, ActivateSubscription(w) \/ ReactivateCommunity(w)
       PROVE  PaidIsExpensedOnce'
  <2>1. PICK label \in {"reactivating", "recording"} :
          Goto(w, label) /\ UNCHANGED <<inv, expense, missed>>
    BY <1>11 DEF ActivateSubscription, ReactivateCommunity
  <2> QED
    BY <1>3, <2>1 DEF Labels
<1>12. ASSUME NEW w \in Workers, FindExpense(w) PROVE PaidIsExpensedOnce'
  <2>1. CASE expense[on[w]] > 0
    <3>1. Goto(w, "idle") /\ "idle" \in Labels /\ UNCHANGED <<inv, expense, missed>>
      BY <1>12, <2>1 DEF FindExpense, Think, rows, Labels
    <3>2. \A v \in Recording : v # w => v \in Recording' /\ on'[v] = on[v]
      BY <1>t, <3>1, GotoHolds DEF Recording
    <3>3. \A i \in Invoices : expense[i] > 0 /\ expense[i] <= 1 => expense[i] = 1
      BY <1>t DEF TypeOK
    <3> QED
      BY <2>1, <3>1, <3>2, <3>3 DEF PaidIsExpensedOnce
  <2>2. CASE ~(expense[on[w]] > 0)
    BY <1>3, <1>12, <2>2 DEF FindExpense, Think, rows, Labels
  <2> QED
    BY <2>1, <2>2
\* Some workers stop with their expense ahead, and what nobody entered is missed.
<1>13. ASSUME NEW some \in SUBSET Workers, Miss({on[w] : w \in some}),
              UNCHANGED <<inv, expense>>,
              \A v \in Recording \ some : v \in Recording' /\ on'[v] = on[v]
       PROVE  PaidIsExpensedOnce'
  <2>1. ASSUME NEW i \in Invoices, inv[i] = "PAID", expense[i] # 1, i \notin missed'
        PROVE  \E v \in Recording' : on'[v] = i
    <3>1. expense[i] = 0
      BY <1>t, <2>1 DEF PaidIsExpensedOnce, TypeOK
    <3>2. i \notin missed /\ \A v \in some : on[v] # i
      BY <1>13, <2>1, <3>1 DEF Miss
    <3>3. PICK v \in Recording : on[v] = i
      BY <2>1, <3>2 DEF PaidIsExpensedOnce
    <3> QED
      BY <1>13, <3>2, <3>3 DEF Recording
  <2> QED
    BY <1>13, <2>1 DEF PaidIsExpensedOnce
<1>14. ASSUME NEW w \in Workers, NumberExpense(w) \/ StoreExpense(w) PROVE PaidIsExpensedOnce'
  <2>1. CASE Think(w, "storing")
    BY <1>3, <2>1 DEF Think, rows, Labels
  <2>2. ASSUME pc' = [pc EXCEPT ![w] = "idle"], on' = [on EXCEPT ![w] = NoInvoice]
        PROVE  \A v \in Recording : v # w => v \in Recording' /\ on'[v] = on[v]
    BY <1>t, <2>2 DEF Recording, TypeOK
  <2>3. ASSUME Miss({on[w]}), UNCHANGED <<inv, expense>>,
               pc' = [pc EXCEPT ![w] = "idle"], on' = [on EXCEPT ![w] = NoInvoice]
        PROVE  PaidIsExpensedOnce'
    <3>1. {on[v] : v \in {w}} = {on[w]} /\ {w} \in SUBSET Workers
      OBVIOUS
    <3> QED
      BY <1>13, <2>2, <2>3, <3>1
  <2>4. CASE NumberExpense(w) /\ ~Think(w, "storing")
    BY <2>3, <2>4 DEF NumberExpense, Goto, rows
  <2>5. CASE StoreExpense(w)
    <3>1. PICK stored \in BOOLEAN :
            ExpenseStored(w, stored) /\ stored = (~taken[w] /\ expense[on[w]] = 0)
      BY <2>5 DEF StoreExpense
    <3>2. /\ on[w] \in Invoices /\ inv' = inv
          /\ pc' = [pc EXCEPT ![w] = "idle"] /\ on' = [on EXCEPT ![w] = NoInvoice]
      BY <1>t, <3>1 DEF ExpenseStored, At, Holding, Aside
    <3>3. CASE ~stored
      BY <2>3, <3>1, <3>2, <3>3 DEF ExpenseStored
    <3>4. CASE stored
      <4>1. expense' = [expense EXCEPT ![on[w]] = @ + 1] /\ missed' = missed \ {on[w]}
        BY <3>1, <3>4 DEF ExpenseStored
      <4>2. expense'[on[w]] = 1
        <5>1. expense[on[w]] = 0
          BY <3>1, <3>4, Zenon
        <5>2. expense \in [Invoices -> Nat]
          BY <1>t DEF TypeOK
        <5> QED
          BY <3>2, <4>1, <5>1, <5>2
      <4>3. \A i \in Invoices : i # on[w] => expense'[i] = expense[i] /\ (i \in missed => i \in missed')
        BY <1>t, <4>1 DEF TypeOK
      <4>4. \A v \in Recording : v # w => v \in Recording' /\ on'[v] = on[v]
        BY <2>2, <3>2
      <4> QED
        BY <3>2, <4>2, <4>3, <4>4 DEF PaidIsExpensedOnce
    <3> QED
      BY <3>3, <3>4
  <2> QED
    BY <1>14, <2>1, <2>4, <2>5
<1>15. ASSUME NEW w \in Workers, SweepOverdue(w) PROVE PaidIsExpensedOnce'
  <2>1. /\ pc[w] = "sweeping" /\ pc' = [pc EXCEPT ![w] = "counting"]
        /\ UNCHANGED <<on, expense, missed>>
        /\ \A i \in Invoices : inv'[i] = "PAID" => inv[i] = "PAID"
    BY <1>15 DEF SweepOverdue, At, locals
  <2> QED
    BY <1>1, <2>1 DEF Recording
<1>16. ASSUME NEW w \in Workers, CountOverdue(w) \/ SuspendCommunity(w) PROVE PaidIsExpensedOnce'
  <2>1. PICK label \in {"idle", "suspending"} :
          Goto(w, label) /\ UNCHANGED <<inv, expense, missed>>
    BY <1>16 DEF CountOverdue, SuspendCommunity, Think, rows
  <2>2. w \notin Recording
    BY <1>16 DEF CountOverdue, SuspendCommunity, At, Recording
  <2> QED
    BY <1>3, <2>1, <2>2 DEF Labels
<1>17. ASSUME NEW i \in Invoices, NEW status \in {"DRAFT", "ISSUED", "WAIVED"}, Issue(i, status)
       PROVE  PaidIsExpensedOnce'
  <2>1. /\ UNCHANGED <<pc, on, expense, missed>>
        /\ \A j \in Invoices : inv'[j] = "PAID" => inv[j] = "PAID"
    BY <1>t, <1>17 DEF Issue, locals, TypeOK
  <2> QED
    BY <2>1 DEF PaidIsExpensedOnce, Recording
<1>18. CASE EndSubscription \/ TurnExemption \/ ReactivateByPayment \/ AddExpense \/ Gateway
              \/ UNCHANGED vars
  <2>1. UNCHANGED <<inv, pc, on, expense, missed>>
    BY <1>18 DEF EndSubscription, TurnExemption, ReactivateByPayment, AddExpense, Gateway, Pay,
                 AttemptFails, SessionExpires, Session, rows, locals, vars
  <2> QED
    BY <2>1 DEF PaidIsExpensedOnce, Recording
<1>19. ASSUME NEW w \in Workers, Retrieve(w) \/ FindAgain(w) PROVE PaidIsExpensedOnce'
  <2>1. PICK label \in Labels : Goto(w, label) /\ UNCHANGED <<inv, expense, missed>>
    BY <1>19 DEF Retrieve, FindAgain, Think, rows, Labels
  <2>2. w \notin Recording
    BY <1>19 DEF Retrieve, FindAgain, At, Recording
  <2> QED
    BY <1>3, <2>1, <2>2
<1>20. ASSUME NEW w \in Workers, CreateExemption(w) \/ Reinstate(w) PROVE PaidIsExpensedOnce'
  <2>1. PICK label \in {"idle", "reinstating", "waiving"} :
          Goto(w, label) /\ UNCHANGED <<inv, expense, missed>>
    BY <1>20 DEF CreateExemption, Reinstate
  <2>2. w \notin Recording
    BY <1>20 DEF CreateExemption, Reinstate, At, Recording
  <2> QED
    BY <1>3, <2>1, <2>2 DEF Labels
<1>21. ASSUME NEW w \in Workers, WaiveInvoices(w) PROVE PaidIsExpensedOnce'
  <2>1. Goto(w, "idle") /\ UNCHANGED <<expense, missed>> /\ w \notin Recording
    BY <1>21 DEF WaiveInvoices, At, Recording
  <2>2. \A i \in Invoices : inv'[i] = "PAID" => inv[i] = "PAID"
    BY <1>21 DEF WaiveInvoices
  <2>3. pc' = [pc EXCEPT ![w] = "idle"] /\ \A v \in Workers : v # w => on'[v] = on[v]
    BY <1>t, <2>1, GotoHolds DEF Labels
  <2> QED
    BY <1>1, <2>1, <2>2, <2>3
<1>22. CASE Crash
  <2>1. UNCHANGED <<inv, expense>> /\ Miss({on[w] : w \in Recording})
    BY <1>22 DEF Crash, rows
  <2>2. Recording \in SUBSET Workers
    BY DEF Recording
  <2> QED
    BY <1>13, <2>1, <2>2
<1>23. ASSUME NEW w \in Workers, Checkout(w) PROVE PaidIsExpensedOnce'
  BY <1>4, <1>5, <1>6, <1>7, <1>8, <1>9, <1>19, <1>23
  DEF Checkout, Settle, ReceivePaid, ReceiveUnpaid
<1>24. ASSUME NEW w \in Workers, Settlement(w) PROVE PaidIsExpensedOnce'
  BY <1>4, <1>5, <1>8, <1>9, <1>10, <1>11, <1>12, <1>14, <1>24 DEF Settlement, Void
<1>25. ASSUME NEW w \in Workers, Sweep(w) \/ Exempt(w) PROVE PaidIsExpensedOnce'
  BY <1>4, <1>15, <1>16, <1>20, <1>21, <1>25 DEF Sweep, Exempt, StartSweep, GrantExemption
<1> QED
  BY <1>17, <1>18, <1>22, <1>23, <1>24, <1>25 DEF Next

\* Every paid invoice is entered as one expense of the community, or is about to be,
\* unless it was missed for one of the known reasons; none is entered twice.
THEOREM PaidExpensedOnce == Spec => []PaidIsExpensedOnce
<1>1. Init => PaidIsExpensedOnce
  BY DEF Init, PaidIsExpensedOnce
<1> QED
  BY <1>1, ExpensedStep, IInvAlways, PTL DEF Spec
=============================================================================
