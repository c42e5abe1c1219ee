---------------------- MODULE GatewaySettlementProofs ----------------------
(***************************************************************************)
(* What GatewaySettlement promises for any number of payments,             *)
(* assessments, workers and restarts.                                      *)
(***************************************************************************)
EXTENDS GatewaySettlement, TLAPS

-----------------------------------------------------------------------------
(* Types.                                                                  *)

LEMMA TypeInit == Init => TypeOK
  BY GatewayConstants DEF Init, TypeOK, Statuses, Goals, Labels, Webhooks

LEMMA TypeStep == TypeOK /\ [Next]_vars => TypeOK'
<1> SUFFICES ASSUME TypeOK, [Next]_vars PROVE TypeOK'
  OBVIOUS
<1> USE GatewayConstants
    DEF TypeOK, Statuses, Goals, Labels, Webhooks, db, outer, local, past, At,
        Goto, Stay, Return, Take, Send, Pending, Overtake, Verifying, Summing
<1>1. ASSUME NEW w \in Workers, NEW p \in Payments, StartCheckout(w, p)
      PROVE  TypeOK'
  BY <1>1 DEF StartCheckout
<1>2. ASSUME NEW w \in Workers, OpenSession(w) PROVE TypeOK'
  BY <1>2, SMTT(30) DEF OpenSession
<1>3. ASSUME NEW w \in Workers, LinkSession(w) PROVE TypeOK'
  BY <1>3 DEF LinkSession
<1>4. ASSUME NEW w \in Workers, CheckoutRefused(w) PROVE TypeOK'
  BY <1>4 DEF CheckoutRefused
<1>5. ASSUME NEW w \in Workers, NEW p \in Payments, ReceivePaid(w, p)
      PROVE  TypeOK'
  BY <1>5 DEF ReceivePaid
<1>6. ASSUME NEW w \in Workers, NEW p \in Payments, NEW o \in {"FAILED", "EXPIRED"},
             ReceiveUnpaid(w, p, o)
      PROVE  TypeOK'
  BY <1>6 DEF ReceiveUnpaid
<1>7. ASSUME NEW w \in Workers, NEW p \in Payments, Poll(w, p) PROVE TypeOK'
  BY <1>7 DEF Poll
<1>8. ASSUME NEW w \in Workers, Retrieve(w) PROVE TypeOK'
<2>1. Answer(job[w]) \in {"VERIFIED", "EXPIRED", "PENDING"}
  BY DEF Answer
<2>2. CASE Answer(job[w]) = "PENDING"
  BY <1>8, <2>2, SMTT(30) DEF Retrieve
<2>3. CASE Answer(job[w]) # "PENDING"
  <3>1. goal' \in [Workers -> Goals] /\ pc' = [pc EXCEPT ![w] = "refind"]
    BY <1>8, <2>1, <2>3 DEF Retrieve
  <3> QED
    BY <1>8, <2>3, <3>1 DEF Retrieve
<2> QED
  BY <2>2, <2>3
<1>9. ASSUME NEW w \in Workers, GatewayUnreachable(w) PROVE TypeOK'
  BY <1>9 DEF GatewayUnreachable
<1>10. ASSUME NEW w \in Workers, Refind(w) PROVE TypeOK'
  BY <1>10, SMTT(30) DEF Refind
<1>11. ASSUME NEW w \in Workers, NEW p \in Payments,
              NEW o \in {"REFUNDED", "CANCELLED", "DELETED"}, StartUndo(w, p, o)
       PROVE  TypeOK'
  BY <1>11 DEF StartUndo
<1>12. ASSUME NEW w \in Workers, MarkVerified(w) PROVE TypeOK'
  BY <1>12 DEF MarkVerified
<1>13. ASSUME NEW w \in Workers, ReverseAllocations(w) PROVE TypeOK'
  BY <1>13 DEF ReverseAllocations
<1>14. ASSUME NEW w \in Workers, ReverseForPayment(w) PROVE TypeOK'
  BY <1>14 DEF ReverseForPayment
<1>15. ASSUME NEW w \in Workers, Close(w) PROVE TypeOK'
<2>1. CASE goal[w] = "DELETED"
  BY <1>15, <2>1 DEF Close
<2>2. CASE goal[w] # "DELETED"
  <3>1. goal[w] \in Statuses
    BY <2>2
  <3> QED
    BY <1>15, <2>2, <3>1 DEF Close
<2> QED
  BY <2>1, <2>2
<1>16. ASSUME NEW w \in Workers, SyncRead(w) PROVE TypeOK'
  BY <1>16 DEF SyncRead
<1>17. ASSUME NEW w \in Workers, SyncSum(w) PROVE TypeOK'
  BY <1>17 DEF SyncSum, Ledger
<1>18. ASSUME NEW w \in Workers, SyncWrite(w) PROVE TypeOK'
  BY <1>18 DEF SyncWrite
<1>19. CASE Crash
  BY <1>19 DEF Crash
<1>20. ASSUME NEW p \in Payments, Pay(p) PROVE TypeOK'
  BY <1>20 DEF Pay
<1>21. ASSUME NEW p \in Payments, AttemptFails(p) PROVE TypeOK'
  BY <1>21 DEF AttemptFails
<1>22. ASSUME NEW p \in Payments, SessionExpires(p) PROVE TypeOK'
  BY <1>22 DEF SessionExpires
<1>23. ASSUME NEW m \in net, LoseWebhook(m) PROVE TypeOK'
  BY <1>23 DEF LoseWebhook
<1>24. CASE UNCHANGED vars
  BY <1>24 DEF vars
<1> HIDE DEF TypeOK, Statuses, Goals, Labels, Webhooks, db, outer, local, past,
        Stay, Return, Take, Overtake, Verifying, Summing
<1> QED
  BY <1>1, <1>2, <1>3, <1>4, <1>5, <1>6, <1>7, <1>8, <1>9, <1>10, <1>11, <1>12,
     <1>13, <1>14, <1>15, <1>16, <1>17, <1>18, <1>19, <1>20, <1>21, <1>22,
     <1>23, <1>24
  DEF Next, WorkerStep, WorkerStart, Gateway

\* Every variable keeps its type, and a worker that is in the middle of a
\* handler knows which payment it works on.
THEOREM TypeCorrect == Spec => []TypeOK
  BY TypeInit, TypeStep, PTL DEF Spec

-----------------------------------------------------------------------------
(* A payment is VERIFIED only if the gateway collected it.                 *)

\* A worker works on a payment that exists, and a payment that does not exist
\* yet has neither a session nor a deletion mark.
Started ==
    /\ \A w \in Workers : pc[w] # "idle" => status[job[w]] # "NONE"
    /\ \A p \in Payments : status[p] = "NONE" => session[p] = "none" /\ ~deleted[p]

\* A session is opened once: the one worker about to open it, or just refused one,
\* created the row.
OpenedOnce ==
    /\ \A w \in Workers : pc[w] \in {"opening", "refused"} => session[job[w]] = "none"
    /\ \A v, w \in Workers :
          (/\ pc[v] \in {"opening", "refused"} /\ pc[w] \in {"opening", "refused"}
           /\ job[v] = job[w])
              => v = w

\* Whoever is about to verify a payment has it from the gateway, in a webhook
\* or in an answer, that the session is paid, and nobody writes VERIFIED at
\* the end of an undo.
CollectionKnown ==
    /\ \A m \in net : m.type = "VERIFIED" => session[m.payment] = "paid"
    /\ \A w \in Workers :
          pc[w] = "verify" \/ (pc[w] = "refind" /\ goal[w] = "VERIFIED")
              => session[job[w]] = "paid"
    /\ \A w \in Workers :
          pc[w] \in {"reverse", "release", "close"} => goal[w] # "VERIFIED"

PaidInv == TypeOK /\ Started /\ OpenedOnce /\ CollectionKnown /\ VerifiedOnlyIfPaid

\* Rows are created by the worker that goes on with them and never removed.
LEMMA StartedStep == TypeOK /\ Started /\ [Next]_vars => Started'
<1> SUFFICES ASSUME TypeOK, Started, [Next]_vars PROVE Started'
  OBVIOUS
<1> USE GatewayConstants DEF Started, TypeOK, Statuses, Goals, Labels,
        Webhooks, db, outer, local, At, Goto, Stay, Return, Take, Send,
        Pending
<1>1. ASSUME NEW w \in Workers, NEW p \in Payments,
             StartCheckout(w, p)
      PROVE  Started'
  BY <1>1 DEF StartCheckout
<1>2. ASSUME NEW w \in Workers, OpenSession(w) PROVE Started'
  BY <1>2 DEF OpenSession
<1>3. ASSUME NEW w \in Workers, LinkSession(w) PROVE Started'
  BY <1>3 DEF LinkSession
<1>4. ASSUME NEW w \in Workers, CheckoutRefused(w) PROVE Started'
  BY <1>4 DEF CheckoutRefused
<1>5. ASSUME NEW w \in Workers, NEW p \in Payments,
             ReceivePaid(w, p)
      PROVE  Started'
  BY <1>5 DEF ReceivePaid
<1>6. ASSUME NEW w \in Workers, NEW p \in Payments, NEW o \in {"FAILED", "EXPIRED"},
             ReceiveUnpaid(w, p, o)
      PROVE  Started'
  BY <1>6 DEF ReceiveUnpaid
<1>7. ASSUME NEW w \in Workers, NEW p \in Payments, Poll(w, p) PROVE Started'
  BY <1>7 DEF Poll
<1>8. ASSUME NEW w \in Workers, Retrieve(w) PROVE Started'
  BY <1>8 DEF Retrieve, Answer
<1>9. ASSUME NEW w \in Workers, GatewayUnreachable(w) PROVE Started'
  BY <1>9 DEF GatewayUnreachable
<1>10. ASSUME NEW w \in Workers, Refind(w) PROVE Started'
  BY <1>10, SMTT(30) DEF Refind
<1>11. ASSUME NEW w \in Workers, NEW p \in Payments, NEW o \in {"REFUNDED", "CANCELLED", "DELETED"},
             StartUndo(w, p, o)
      PROVE  Started'
  BY <1>11 DEF StartUndo
<1>12. ASSUME NEW w \in Workers, MarkVerified(w) PROVE Started'
  BY <1>12 DEF MarkVerified
<1>13. ASSUME NEW w \in Workers, ReverseAllocations(w) PROVE Started'
  BY <1>13 DEF ReverseAllocations
<1>14. ASSUME NEW w \in Workers, ReverseForPayment(w) PROVE Started'
  BY <1>14 DEF ReverseForPayment
<1>15. ASSUME NEW w \in Workers, Close(w) PROVE Started'
  BY <1>15 DEF Close
<1>16. ASSUME NEW w \in Workers,
             SyncRead(w) \/ SyncSum(w) \/ SyncWrite(w)
      PROVE  Started'
  BY <1>16, SMTT(30) DEF SyncRead, SyncSum, SyncWrite
<1>17. CASE Crash
  BY <1>17 DEF Crash
<1>18. ASSUME NEW p \in Payments, Pay(p) PROVE Started'
  BY <1>18 DEF Pay
<1>19. ASSUME NEW p \in Payments, AttemptFails(p) PROVE Started'
  BY <1>19 DEF AttemptFails
<1>20. ASSUME NEW p \in Payments, SessionExpires(p) PROVE Started'
  BY <1>20 DEF SessionExpires
<1>21. ASSUME NEW m \in net, LoseWebhook(m) PROVE Started'
  BY <1>21 DEF LoseWebhook
<1>22. CASE UNCHANGED vars
  BY <1>22 DEF vars
<1> QED
  BY <1>1, <1>2, <1>3, <1>4, <1>5, <1>6, <1>7, <1>8, <1>9, <1>10, <1>11,
     <1>12, <1>13, <1>14, <1>15, <1>16, <1>17, <1>18, <1>19, <1>20, <1>21,
     <1>22
  DEF Next, WorkerStep, WorkerStart, Gateway

\* A session is opened by the worker that created the row, once.
LEMMA OpenedOnceStep == TypeOK /\ Started /\ OpenedOnce /\ [Next]_vars => OpenedOnce'
<1> SUFFICES ASSUME TypeOK, Started, OpenedOnce, [Next]_vars PROVE OpenedOnce'
  OBVIOUS
<1> USE GatewayConstants DEF OpenedOnce, Started, TypeOK, Statuses, Goals,
        Labels, Webhooks, db, outer, local, At, Goto, Stay, Return, Take,
        Send, Pending
<1>1. ASSUME NEW w \in Workers, NEW p \in Payments,
             StartCheckout(w, p)
      PROVE  OpenedOnce'
  BY <1>1 DEF StartCheckout
<1>2. ASSUME NEW w \in Workers, OpenSession(w) PROVE OpenedOnce'
  BY <1>2, SMTT(30) DEF OpenSession
<1>3. ASSUME NEW w \in Workers, LinkSession(w) PROVE OpenedOnce'
  BY <1>3 DEF LinkSession
<1>4. ASSUME NEW w \in Workers, CheckoutRefused(w) PROVE OpenedOnce'
  BY <1>4 DEF CheckoutRefused
<1>5. ASSUME NEW w \in Workers, NEW p \in Payments,
             ReceivePaid(w, p)
      PROVE  OpenedOnce'
  BY <1>5 DEF ReceivePaid
<1>6. ASSUME NEW w \in Workers, NEW p \in Payments, NEW o \in {"FAILED", "EXPIRED"},
             ReceiveUnpaid(w, p, o)
      PROVE  OpenedOnce'
  BY <1>6 DEF ReceiveUnpaid
<1>7. ASSUME NEW w \in Workers, NEW p \in Payments,
             Poll(w, p)
      PROVE  OpenedOnce'
  BY <1>7 DEF Poll
<1>8. ASSUME NEW w \in Workers, Retrieve(w) PROVE OpenedOnce'
<2>1. UNCHANGED <<status, session>> /\ pc' \in [Workers -> Labels]
      /\ \A v \in Workers : pc'[v] \in {"opening", "refused"} => pc'[v] = pc[v] /\ job'[v] = job[v]
  BY <1>8, SMTT(30) DEF Retrieve
<2> QED
  BY <2>1
<1>9. ASSUME NEW w \in Workers, GatewayUnreachable(w) PROVE OpenedOnce'
  BY <1>9 DEF GatewayUnreachable
<1>10. ASSUME NEW w \in Workers, Refind(w) PROVE OpenedOnce'
  BY <1>10, SMTT(30) DEF Refind
<1>11. ASSUME NEW w \in Workers, NEW p \in Payments, NEW o \in {"REFUNDED", "CANCELLED", "DELETED"},
             StartUndo(w, p, o)
      PROVE  OpenedOnce'
  BY <1>11 DEF StartUndo
<1>12. ASSUME NEW w \in Workers, MarkVerified(w) PROVE OpenedOnce'
  BY <1>12 DEF MarkVerified
<1>13. ASSUME NEW w \in Workers, ReverseAllocations(w) PROVE OpenedOnce'
  BY <1>13 DEF ReverseAllocations
<1>14. ASSUME NEW w \in Workers, ReverseForPayment(w) PROVE OpenedOnce'
  BY <1>14 DEF ReverseForPayment
<1>15. ASSUME NEW w \in Workers, Close(w) PROVE OpenedOnce'
  BY <1>15 DEF Close
<1>16. ASSUME NEW w \in Workers,
             SyncRead(w) \/ SyncSum(w) \/ SyncWrite(w)
      PROVE  OpenedOnce'
  BY <1>16, SMTT(30) DEF SyncRead, SyncSum, SyncWrite
<1>17. CASE Crash
  BY <1>17 DEF Crash
<1>18. ASSUME NEW p \in Payments, Pay(p) PROVE OpenedOnce'
  BY <1>18 DEF Pay
<1>19. ASSUME NEW p \in Payments, AttemptFails(p) PROVE OpenedOnce'
  BY <1>19 DEF AttemptFails
<1>20. ASSUME NEW p \in Payments, SessionExpires(p) PROVE OpenedOnce'
  BY <1>20 DEF SessionExpires
<1>21. ASSUME NEW m \in net, LoseWebhook(m) PROVE OpenedOnce'
  BY <1>21 DEF LoseWebhook
<1>22. CASE UNCHANGED vars
  BY <1>22 DEF vars
<1> QED
  BY <1>1, <1>2, <1>3, <1>4, <1>5, <1>6, <1>7, <1>8, <1>9, <1>10, <1>11,
     <1>12, <1>13, <1>14, <1>15, <1>16, <1>17, <1>18, <1>19, <1>20, <1>21,
     <1>22
  DEF Next, WorkerStep, WorkerStart, Gateway

\* A session that was paid stays paid, so what a worker learnt stays true.
LEMMA CollectionStep ==
    TypeOK /\ Started /\ OpenedOnce /\ CollectionKnown /\ [Next]_vars => CollectionKnown'
<1> SUFFICES ASSUME TypeOK, Started, OpenedOnce, CollectionKnown, [Next]_vars PROVE CollectionKnown'
  OBVIOUS
<1> USE GatewayConstants DEF CollectionKnown, OpenedOnce, Started, TypeOK,
        Statuses, Goals, Labels, Webhooks, db, outer, local, At, Goto,
        Stay, Return, Take, Send, Pending
<1>1. ASSUME NEW w \in Workers, NEW p \in Payments,
             StartCheckout(w, p)
      PROVE  CollectionKnown'
  BY <1>1 DEF StartCheckout
<1>2. ASSUME NEW w \in Workers, OpenSession(w) PROVE CollectionKnown'
  BY <1>2 DEF OpenSession
<1>3. ASSUME NEW w \in Workers, LinkSession(w) PROVE CollectionKnown'
  BY <1>3 DEF LinkSession
<1>4. ASSUME NEW w \in Workers, CheckoutRefused(w) PROVE CollectionKnown'
  BY <1>4 DEF CheckoutRefused
<1>5. ASSUME NEW w \in Workers, NEW p \in Payments,
             ReceivePaid(w, p)
      PROVE  CollectionKnown'
  BY <1>5 DEF ReceivePaid
<1>6. ASSUME NEW w \in Workers, NEW p \in Payments, NEW o \in {"FAILED", "EXPIRED"},
             ReceiveUnpaid(w, p, o)
      PROVE  CollectionKnown'
  BY <1>6 DEF ReceiveUnpaid
<1>7. ASSUME NEW w \in Workers, NEW p \in Payments,
             Poll(w, p)
      PROVE  CollectionKnown'
  BY <1>7 DEF Poll
<1>8. ASSUME NEW w \in Workers, Retrieve(w) PROVE CollectionKnown'
<2>1. CASE Answer(job[w]) = "PENDING"
  BY <1>8, <2>1, SMTT(30) DEF Retrieve
<2>2. CASE Answer(job[w]) # "PENDING"
  <3>1. Answer(job[w]) = "VERIFIED" => session[job[w]] = "paid"
    BY DEF Answer
  <3>2. pc' = [pc EXCEPT ![w] = "refind"] /\ UNCHANGED <<job, net, session>>
    BY <1>8, <2>2 DEF Retrieve
  <3>3. goal' = [goal EXCEPT ![w] = Answer(job[w])]
    BY <1>8, <2>2 DEF Retrieve
  <3> QED
    BY <3>1, <3>2, <3>3
<2> QED
  BY <2>1, <2>2
<1>9. ASSUME NEW w \in Workers, GatewayUnreachable(w) PROVE CollectionKnown'
  BY <1>9 DEF GatewayUnreachable
<1>10. ASSUME NEW w \in Workers, Refind(w) PROVE CollectionKnown'
<2>1. UNCHANGED <<net, session>>
  BY <1>10 DEF Refind
<2>2. CASE ~Pending(job[w]) /\ Return(w)
  BY <1>10, <2>1, <2>2
<2>3. CASE Goto(w, IF goal[w] = "VERIFIED" THEN "verify" ELSE "reverse") /\ Stay
  BY <1>10, <2>1, <2>3 DEF Refind
<2> QED
  BY <1>10, <2>2, <2>3 DEF Refind
<1>11. ASSUME NEW w \in Workers, NEW p \in Payments, NEW o \in {"REFUNDED", "CANCELLED", "DELETED"},
             StartUndo(w, p, o)
      PROVE  CollectionKnown'
  BY <1>11 DEF StartUndo
<1>12. ASSUME NEW w \in Workers, MarkVerified(w) PROVE CollectionKnown'
  BY <1>12 DEF MarkVerified
<1>13. ASSUME NEW w \in Workers, ReverseAllocations(w) PROVE CollectionKnown'
  BY <1>13 DEF ReverseAllocations
<1>14. ASSUME NEW w \in Workers, ReverseForPayment(w) PROVE CollectionKnown'
  BY <1>14 DEF ReverseForPayment
<1>15. ASSUME NEW w \in Workers, Close(w) PROVE CollectionKnown'
  BY <1>15 DEF Close
<1>16. ASSUME NEW w \in Workers,
             SyncRead(w) \/ SyncSum(w) \/ SyncWrite(w)
      PROVE  CollectionKnown'
<2>1. CASE SyncRead(w)
  BY <2>1 DEF SyncRead
<2>2. CASE SyncSum(w)
  BY <2>2 DEF SyncSum
<2>3. CASE SyncWrite(w)
  BY <2>3 DEF SyncWrite
<2> QED
  BY <1>16, <2>1, <2>2, <2>3
<1>17. CASE Crash
  BY <1>17 DEF Crash
<1>18. ASSUME NEW p \in Payments, Pay(p) PROVE CollectionKnown'
  BY <1>18 DEF Pay
<1>19. ASSUME NEW p \in Payments, AttemptFails(p) PROVE CollectionKnown'
  BY <1>19 DEF AttemptFails
<1>20. ASSUME NEW p \in Payments, SessionExpires(p) PROVE CollectionKnown'
  BY <1>20 DEF SessionExpires
<1>21. ASSUME NEW m \in net, LoseWebhook(m) PROVE CollectionKnown'
  BY <1>21 DEF LoseWebhook
<1>22. CASE UNCHANGED vars
  BY <1>22 DEF vars
<1> QED
  BY <1>1, <1>2, <1>3, <1>4, <1>5, <1>6, <1>7, <1>8, <1>9, <1>10, <1>11,
     <1>12, <1>13, <1>14, <1>15, <1>16, <1>17, <1>18, <1>19, <1>20, <1>21,
     <1>22, SMTT(30)
  DEF Next, WorkerStep, WorkerStart, Gateway

\* The two writers of VERIFIED know that the session is paid.
LEMMA VerifiedStep == PaidInv /\ [Next]_vars => VerifiedOnlyIfPaid'
<1> SUFFICES ASSUME PaidInv, [Next]_vars PROVE VerifiedOnlyIfPaid'
  OBVIOUS
<1> USE GatewayConstants DEF PaidInv, VerifiedOnlyIfPaid, CollectionKnown,
        OpenedOnce, Started, TypeOK, Statuses, Goals, Labels, Webhooks,
        db, outer, local, At, Goto, Stay, Return, Take, Send, Pending
<1>1. ASSUME NEW w \in Workers, NEW p \in Payments,
             StartCheckout(w, p)
      PROVE  VerifiedOnlyIfPaid'
  BY <1>1 DEF StartCheckout
<1>2. ASSUME NEW w \in Workers, OpenSession(w) PROVE VerifiedOnlyIfPaid'
  BY <1>2 DEF OpenSession
<1>3. ASSUME NEW w \in Workers, LinkSession(w) PROVE VerifiedOnlyIfPaid'
  BY <1>3 DEF LinkSession
<1>4. ASSUME NEW w \in Workers, CheckoutRefused(w) PROVE VerifiedOnlyIfPaid'
  BY <1>4 DEF CheckoutRefused
<1>5. ASSUME NEW w \in Workers, NEW p \in Payments,
             ReceivePaid(w, p)
      PROVE  VerifiedOnlyIfPaid'
  BY <1>5 DEF ReceivePaid
<1>6. ASSUME NEW w \in Workers, NEW p \in Payments, NEW o \in {"FAILED", "EXPIRED"},
             ReceiveUnpaid(w, p, o)
      PROVE  VerifiedOnlyIfPaid'
  BY <1>6 DEF ReceiveUnpaid
<1>7. ASSUME NEW w \in Workers, NEW p \in Payments,
             Poll(w, p)
      PROVE  VerifiedOnlyIfPaid'
  BY <1>7 DEF Poll
<1>8. ASSUME NEW w \in Workers, Retrieve(w) PROVE VerifiedOnlyIfPaid'
  BY <1>8 DEF Retrieve, Answer
<1>9. ASSUME NEW w \in Workers,
             GatewayUnreachable(w)
      PROVE  VerifiedOnlyIfPaid'
  BY <1>9 DEF GatewayUnreachable
<1>10. ASSUME NEW w \in Workers, Refind(w) PROVE VerifiedOnlyIfPaid'
  BY <1>10 DEF Refind
<1>11. ASSUME NEW w \in Workers, NEW p \in Payments, NEW o \in {"REFUNDED", "CANCELLED", "DELETED"},
             StartUndo(w, p, o)
      PROVE  VerifiedOnlyIfPaid'
  BY <1>11 DEF StartUndo
<1>12. ASSUME NEW w \in Workers, MarkVerified(w) PROVE VerifiedOnlyIfPaid'
  BY <1>12 DEF MarkVerified
<1>13. ASSUME NEW w \in Workers,
             ReverseAllocations(w)
      PROVE  VerifiedOnlyIfPaid'
  BY <1>13 DEF ReverseAllocations
<1>14. ASSUME NEW w \in Workers,
             ReverseForPayment(w)
      PROVE  VerifiedOnlyIfPaid'
  BY <1>14 DEF ReverseForPayment
<1>15. ASSUME NEW w \in Workers, Close(w) PROVE VerifiedOnlyIfPaid'
  BY <1>15 DEF Close
<1>16. ASSUME NEW w \in Workers,
             SyncRead(w) \/ SyncSum(w) \/ SyncWrite(w)
      PROVE  VerifiedOnlyIfPaid'
  BY <1>16 DEF SyncRead, SyncSum, SyncWrite
<1>17. CASE Crash
  BY <1>17 DEF Crash
<1>18. ASSUME NEW p \in Payments, Pay(p) PROVE VerifiedOnlyIfPaid'
  BY <1>18 DEF Pay
<1>19. ASSUME NEW p \in Payments, AttemptFails(p) PROVE VerifiedOnlyIfPaid'
  BY <1>19 DEF AttemptFails
<1>20. ASSUME NEW p \in Payments, SessionExpires(p) PROVE VerifiedOnlyIfPaid'
  BY <1>20 DEF SessionExpires
<1>21. ASSUME NEW m \in net, LoseWebhook(m) PROVE VerifiedOnlyIfPaid'
  BY <1>21 DEF LoseWebhook
<1>22. CASE UNCHANGED vars
  BY <1>22 DEF vars
<1> QED
  BY <1>1, <1>2, <1>3, <1>4, <1>5, <1>6, <1>7, <1>8, <1>9, <1>10, <1>11,
     <1>12, <1>13, <1>14, <1>15, <1>16, <1>17, <1>18, <1>19, <1>20, <1>21,
     <1>22
  DEF Next, WorkerStep, WorkerStart, Gateway

LEMMA PaidInvInductive == (Init => PaidInv) /\ (PaidInv /\ [Next]_vars => PaidInv')
<1>1. Init => PaidInv
  <2> SUFFICES ASSUME Init PROVE PaidInv
    OBVIOUS
  <2>1. TypeOK
    BY TypeInit
  <2> QED
    BY <2>1 DEF Init, PaidInv, Started, OpenedOnce, CollectionKnown, VerifiedOnlyIfPaid
<1>2. PaidInv /\ [Next]_vars => PaidInv'
  BY TypeStep, StartedStep, OpenedOnceStep, CollectionStep, VerifiedStep DEF PaidInv
<1> QED
  BY <1>1, <1>2

\* No interleaving of webhooks, polls, officers and restarts books money that
\* the gateway did not collect.
THEOREM NothingVerifiedUnpaid == Spec => []VerifiedOnlyIfPaid
<1>1. PaidInv => VerifiedOnlyIfPaid
  BY DEF PaidInv
<1> QED
  BY PaidInvInductive, <1>1, PTL DEF Spec

-----------------------------------------------------------------------------
(* A closed payment holds nothing.                                         *)

\* Whoever has passed the calls that undo a payment has left nothing behind.
Released ==
    \A w \in Workers :
        /\ pc[w] \in {"release", "close"} => ~row[job[w]]
        /\ pc[w] = "close" => ~held[job[w]]

HoldInv == TypeOK /\ Started /\ Released /\ ClosedHoldsNothing

\* Nobody makes a reversed allocation or restored credit live again.
LEMMA ReleasedStep == TypeOK /\ Started /\ Released /\ [Next]_vars => Released'
<1> SUFFICES ASSUME TypeOK, Started, Released, [Next]_vars PROVE Released'
  OBVIOUS
<1> USE GatewayConstants DEF Released, Started, TypeOK, Statuses, Goals,
        Labels, Webhooks, db, outer, local, At, Goto, Stay, Return, Take,
        Send, Pending
<1>1. ASSUME NEW w \in Workers, NEW p \in Payments,
             StartCheckout(w, p)
      PROVE  Released'
  BY <1>1 DEF StartCheckout
<1>2. ASSUME NEW w \in Workers, OpenSession(w) PROVE Released'
  BY <1>2 DEF OpenSession
<1>3. ASSUME NEW w \in Workers, LinkSession(w) PROVE Released'
  BY <1>3 DEF LinkSession
<1>4. ASSUME NEW w \in Workers, CheckoutRefused(w) PROVE Released'
  BY <1>4 DEF CheckoutRefused
<1>5. ASSUME NEW w \in Workers, NEW p \in Payments,
             ReceivePaid(w, p)
      PROVE  Released'
  BY <1>5 DEF ReceivePaid
<1>6. ASSUME NEW w \in Workers, NEW p \in Payments, NEW o \in {"FAILED", "EXPIRED"},
             ReceiveUnpaid(w, p, o)
      PROVE  Released'
  BY <1>6 DEF ReceiveUnpaid
<1>7. ASSUME NEW w \in Workers, NEW p \in Payments, Poll(w, p) PROVE Released'
  BY <1>7 DEF Poll
<1>8. ASSUME NEW w \in Workers, Retrieve(w) PROVE Released'
  BY <1>8 DEF Retrieve, Answer
<1>9. ASSUME NEW w \in Workers, GatewayUnreachable(w) PROVE Released'
  BY <1>9 DEF GatewayUnreachable
<1>10. ASSUME NEW w \in Workers, Refind(w) PROVE Released'
  BY <1>10 DEF Refind
<1>11. ASSUME NEW w \in Workers, NEW p \in Payments, NEW o \in {"REFUNDED", "CANCELLED", "DELETED"},
             StartUndo(w, p, o)
      PROVE  Released'
  BY <1>11 DEF StartUndo
<1>12. ASSUME NEW w \in Workers, MarkVerified(w) PROVE Released'
  BY <1>12 DEF MarkVerified
<1>13. ASSUME NEW w \in Workers, ReverseAllocations(w) PROVE Released'
  BY <1>13 DEF ReverseAllocations
<1>14. ASSUME NEW w \in Workers, ReverseForPayment(w) PROVE Released'
  BY <1>14 DEF ReverseForPayment
<1>15. ASSUME NEW w \in Workers, Close(w) PROVE Released'
  BY <1>15 DEF Close
<1>16. ASSUME NEW w \in Workers,
             SyncRead(w) \/ SyncSum(w) \/ SyncWrite(w)
      PROVE  Released'
  BY <1>16 DEF SyncRead, SyncSum, SyncWrite
<1>17. CASE Crash
  BY <1>17 DEF Crash
<1>18. ASSUME NEW p \in Payments, Pay(p) PROVE Released'
  BY <1>18 DEF Pay
<1>19. ASSUME NEW p \in Payments, AttemptFails(p) PROVE Released'
  BY <1>19 DEF AttemptFails
<1>20. ASSUME NEW p \in Payments, SessionExpires(p) PROVE Released'
  BY <1>20 DEF SessionExpires
<1>21. ASSUME NEW m \in net, LoseWebhook(m) PROVE Released'
  BY <1>21 DEF LoseWebhook
<1>22. CASE UNCHANGED vars
  BY <1>22 DEF vars
<1> QED
  BY <1>1, <1>2, <1>3, <1>4, <1>5, <1>6, <1>7, <1>8, <1>9, <1>10, <1>11,
     <1>12, <1>13, <1>14, <1>15, <1>16, <1>17, <1>18, <1>19, <1>20, <1>21,
     <1>22
  DEF Next, WorkerStep, WorkerStart, Gateway

\* The writers of a closed status have reversed and restored before.
LEMMA ClosedStep == HoldInv /\ [Next]_vars => ClosedHoldsNothing'
<1> SUFFICES ASSUME HoldInv, [Next]_vars PROVE ClosedHoldsNothing'
  OBVIOUS
<1> USE GatewayConstants DEF HoldInv, ClosedHoldsNothing, Released,
        Started, TypeOK, Statuses, Goals, Labels, Webhooks, db, outer,
        local, At, Goto, Stay, Return, Take, Send, Pending
<1>1. ASSUME NEW w \in Workers, NEW p \in Payments,
             StartCheckout(w, p)
      PROVE  ClosedHoldsNothing'
  BY <1>1 DEF StartCheckout
<1>2. ASSUME NEW w \in Workers, OpenSession(w) PROVE ClosedHoldsNothing'
  BY <1>2 DEF OpenSession
<1>3. ASSUME NEW w \in Workers, LinkSession(w) PROVE ClosedHoldsNothing'
  BY <1>3 DEF LinkSession
<1>4. ASSUME NEW w \in Workers, CheckoutRefused(w) PROVE ClosedHoldsNothing'
  BY <1>4 DEF CheckoutRefused
<1>5. ASSUME NEW w \in Workers, NEW p \in Payments,
             ReceivePaid(w, p)
      PROVE  ClosedHoldsNothing'
  BY <1>5 DEF ReceivePaid
<1>6. ASSUME NEW w \in Workers, NEW p \in Payments, NEW o \in {"FAILED", "EXPIRED"},
             ReceiveUnpaid(w, p, o)
      PROVE  ClosedHoldsNothing'
  BY <1>6 DEF ReceiveUnpaid
<1>7. ASSUME NEW w \in Workers, NEW p \in Payments,
             Poll(w, p)
      PROVE  ClosedHoldsNothing'
  BY <1>7 DEF Poll
<1>8. ASSUME NEW w \in Workers, Retrieve(w) PROVE ClosedHoldsNothing'
  BY <1>8 DEF Retrieve, Answer
<1>9. ASSUME NEW w \in Workers,
             GatewayUnreachable(w)
      PROVE  ClosedHoldsNothing'
  BY <1>9 DEF GatewayUnreachable
<1>10. ASSUME NEW w \in Workers, Refind(w) PROVE ClosedHoldsNothing'
  BY <1>10 DEF Refind
<1>11. ASSUME NEW w \in Workers, NEW p \in Payments, NEW o \in {"REFUNDED", "CANCELLED", "DELETED"},
             StartUndo(w, p, o)
      PROVE  ClosedHoldsNothing'
  BY <1>11 DEF StartUndo
<1>12. ASSUME NEW w \in Workers, MarkVerified(w) PROVE ClosedHoldsNothing'
  BY <1>12 DEF MarkVerified
<1>13. ASSUME NEW w \in Workers,
             ReverseAllocations(w)
      PROVE  ClosedHoldsNothing'
  BY <1>13 DEF ReverseAllocations
<1>14. ASSUME NEW w \in Workers,
             ReverseForPayment(w)
      PROVE  ClosedHoldsNothing'
  BY <1>14 DEF ReverseForPayment
<1>15. ASSUME NEW w \in Workers, Close(w) PROVE ClosedHoldsNothing'
  BY <1>15 DEF Close
<1>16. ASSUME NEW w \in Workers,
             SyncRead(w) \/ SyncSum(w) \/ SyncWrite(w)
      PROVE  ClosedHoldsNothing'
  BY <1>16 DEF SyncRead, SyncSum, SyncWrite
<1>17. CASE Crash
  BY <1>17 DEF Crash
<1>18. ASSUME NEW p \in Payments, Pay(p) PROVE ClosedHoldsNothing'
  BY <1>18 DEF Pay
<1>19. ASSUME NEW p \in Payments, AttemptFails(p) PROVE ClosedHoldsNothing'
  BY <1>19 DEF AttemptFails
<1>20. ASSUME NEW p \in Payments, SessionExpires(p) PROVE ClosedHoldsNothing'
  BY <1>20 DEF SessionExpires
<1>21. ASSUME NEW m \in net, LoseWebhook(m) PROVE ClosedHoldsNothing'
  BY <1>21 DEF LoseWebhook
<1>22. CASE UNCHANGED vars
  BY <1>22 DEF vars
<1> QED
  BY <1>1, <1>2, <1>3, <1>4, <1>5, <1>6, <1>7, <1>8, <1>9, <1>10, <1>11,
     <1>12, <1>13, <1>14, <1>15, <1>16, <1>17, <1>18, <1>19, <1>20, <1>21,
     <1>22
  DEF Next, WorkerStep, WorkerStart, Gateway

LEMMA HoldInvInductive == (Init => HoldInv) /\ (HoldInv /\ [Next]_vars => HoldInv')
<1>1. Init => HoldInv
  <2> SUFFICES ASSUME Init PROVE HoldInv
    OBVIOUS
  <2>1. TypeOK
    BY TypeInit
  <2> QED
    BY <2>1 DEF Init, HoldInv, Started, Released, ClosedHoldsNothing
<1>2. HoldInv /\ [Next]_vars => HoldInv'
  BY TypeStep, StartedStep, ReleasedStep, ClosedStep DEF HoldInv
<1> QED
  BY <1>1, <1>2

\* A payment that expired, was refunded, cancelled or deleted holds neither an
\* allocation nor credit, whatever came between the calls that undid it.
THEOREM NothingLeftBehind == Spec => []ClosedHoldsNothing
<1>1. HoldInv => ClosedHoldsNothing
  BY DEF HoldInv
<1> QED
  BY HoldInvInductive, <1>1, PTL DEF Spec

-----------------------------------------------------------------------------
(* With one attempt per session, nothing that was paid is given up.        *)

\* The session will never be paid any more.
Lost(p) == session[p] # "paid" /\ (session[p] = "expired" \/ failed[p])

\* The session was never opened and nobody is about to open it.
Unopened(p) ==
    session[p] = "none" /\ \A w \in Workers : pc[w] = "opening" => job[w] # p

\* A session with a failed attempt is not paid.
NotBoth == \A p \in Payments : failed[p] => session[p] # "paid"

\* Whoever is about to give a payment up, and whoever did, knows that its
\* session will never be paid.
GivenUpKnown ==
    /\ \A m \in net : m.type # "VERIFIED" => Lost(m.payment)
    /\ \A w \in Workers :
          /\ pc[w] = "refused" => Unopened(job[w])
          /\ (pc[w] \in {"refind", "reverse", "release", "close"}
                 /\ goal[w] \in {"FAILED", "EXPIRED"}) => Lost(job[w])
    /\ \A p \in Payments :
          status[p] \in {"FAILED", "EXPIRED"} => Lost(p) \/ Unopened(p)

\* Pay refuses a session with a failed attempt, and only an open session fails.
LEMMA NotBothStep ==
    ASSUME ~RetryAllowed PROVE TypeOK /\ Started /\ OpenedOnce /\ NotBoth /\ [Next]_vars => NotBoth'
<1> SUFFICES ASSUME TypeOK, Started, OpenedOnce, NotBoth, [Next]_vars PROVE NotBoth'
  OBVIOUS
<1> USE GatewayConstants DEF NotBoth, OpenedOnce, Started, TypeOK,
        Statuses, Goals, Labels, Webhooks, db, outer, local, At, Goto,
        Stay, Return, Take, Send, Pending
<1>1. ASSUME NEW w \in Workers, NEW p \in Payments,
             StartCheckout(w, p)
      PROVE  NotBoth'
  BY <1>1 DEF StartCheckout
<1>2. ASSUME NEW w \in Workers, OpenSession(w) PROVE NotBoth'
  BY <1>2 DEF OpenSession
<1>3. ASSUME NEW w \in Workers, LinkSession(w) PROVE NotBoth'
  BY <1>3 DEF LinkSession
<1>4. ASSUME NEW w \in Workers, CheckoutRefused(w) PROVE NotBoth'
  BY <1>4 DEF CheckoutRefused
<1>5. ASSUME NEW w \in Workers, NEW p \in Payments,
             ReceivePaid(w, p)
      PROVE  NotBoth'
  BY <1>5 DEF ReceivePaid
<1>6. ASSUME NEW w \in Workers, NEW p \in Payments, NEW o \in {"FAILED", "EXPIRED"},
             ReceiveUnpaid(w, p, o)
      PROVE  NotBoth'
  BY <1>6 DEF ReceiveUnpaid
<1>7. ASSUME NEW w \in Workers, NEW p \in Payments, Poll(w, p) PROVE NotBoth'
  BY <1>7 DEF Poll
<1>8. ASSUME NEW w \in Workers, Retrieve(w) PROVE NotBoth'
  BY <1>8 DEF Retrieve, Answer
<1>9. ASSUME NEW w \in Workers, GatewayUnreachable(w) PROVE NotBoth'
  BY <1>9 DEF GatewayUnreachable
<1>10. ASSUME NEW w \in Workers, Refind(w) PROVE NotBoth'
  BY <1>10 DEF Refind
<1>11. ASSUME NEW w \in Workers, NEW p \in Payments, NEW o \in {"REFUNDED", "CANCELLED", "DELETED"},
             StartUndo(w, p, o)
      PROVE  NotBoth'
  BY <1>11 DEF StartUndo
<1>12. ASSUME NEW w \in Workers, MarkVerified(w) PROVE NotBoth'
  BY <1>12 DEF MarkVerified
<1>13. ASSUME NEW w \in Workers, ReverseAllocations(w) PROVE NotBoth'
  BY <1>13 DEF ReverseAllocations
<1>14. ASSUME NEW w \in Workers, ReverseForPayment(w) PROVE NotBoth'
  BY <1>14 DEF ReverseForPayment
<1>15. ASSUME NEW w \in Workers, Close(w) PROVE NotBoth'
  BY <1>15 DEF Close
<1>16. ASSUME NEW w \in Workers,
             SyncRead(w) \/ SyncSum(w) \/ SyncWrite(w)
      PROVE  NotBoth'
  BY <1>16 DEF SyncRead, SyncSum, SyncWrite
<1>17. CASE Crash
  BY <1>17 DEF Crash
<1>18. ASSUME NEW p \in Payments, Pay(p) PROVE NotBoth'
  BY <1>18 DEF Pay
<1>19. ASSUME NEW p \in Payments, AttemptFails(p) PROVE NotBoth'
  BY <1>19 DEF AttemptFails
<1>20. ASSUME NEW p \in Payments, SessionExpires(p) PROVE NotBoth'
  BY <1>20 DEF SessionExpires
<1>21. ASSUME NEW m \in net, LoseWebhook(m) PROVE NotBoth'
  BY <1>21 DEF LoseWebhook
<1>22. CASE UNCHANGED vars
  BY <1>22 DEF vars
<1> QED
  BY <1>1, <1>2, <1>3, <1>4, <1>5, <1>6, <1>7, <1>8, <1>9, <1>10, <1>11,
     <1>12, <1>13, <1>14, <1>15, <1>16, <1>17, <1>18, <1>19, <1>20, <1>21,
     <1>22
  DEF Next, WorkerStep, WorkerStart, Gateway

\* A lost session stays lost: nothing opens it again, nothing pays it.
LEMMA GivenUpStep ==
    ASSUME ~RetryAllowed
    PROVE  TypeOK /\ Started /\ OpenedOnce /\ NotBoth /\ GivenUpKnown /\ [Next]_vars
               => GivenUpKnown'
<1> SUFFICES ASSUME TypeOK, Started, OpenedOnce, NotBoth, GivenUpKnown, [Next]_vars
             PROVE  GivenUpKnown'
  OBVIOUS
<1> USE GatewayConstants DEF GivenUpKnown, Lost, Unopened, OpenedOnce,
        Started, NotBoth, TypeOK, Statuses, Goals, Labels, Webhooks, db,
        outer, local, At, Goto, Stay, Return, Take, Send, Pending
<1>1. ASSUME NEW w \in Workers, NEW p \in Payments,
             StartCheckout(w, p)
      PROVE  GivenUpKnown'
  BY <1>1 DEF StartCheckout
<1>2. ASSUME NEW w \in Workers, OpenSession(w) PROVE GivenUpKnown'
  BY <1>2, SMTT(30) DEF OpenSession
<1>3. ASSUME NEW w \in Workers, LinkSession(w) PROVE GivenUpKnown'
  BY <1>3 DEF LinkSession
<1>4. ASSUME NEW w \in Workers, CheckoutRefused(w) PROVE GivenUpKnown'
  BY <1>4 DEF CheckoutRefused
<1>5. ASSUME NEW w \in Workers, NEW p \in Payments,
             ReceivePaid(w, p)
      PROVE  GivenUpKnown'
  BY <1>5 DEF ReceivePaid
<1>6. ASSUME NEW w \in Workers, NEW p \in Payments, NEW o \in {"FAILED", "EXPIRED"},
             ReceiveUnpaid(w, p, o)
      PROVE  GivenUpKnown'
  BY <1>6 DEF ReceiveUnpaid
<1>7. ASSUME NEW w \in Workers, NEW p \in Payments,
             Poll(w, p)
      PROVE  GivenUpKnown'
  BY <1>7 DEF Poll
<1>8. ASSUME NEW w \in Workers, Retrieve(w) PROVE GivenUpKnown'
  BY <1>8, SMTT(30) DEF Retrieve, Answer
<1>9. ASSUME NEW w \in Workers, GatewayUnreachable(w) PROVE GivenUpKnown'
  BY <1>9 DEF GatewayUnreachable
<1>10. ASSUME NEW w \in Workers, Refind(w) PROVE GivenUpKnown'
<2>1. CASE ~Pending(job[w])
  <3>1. /\ UNCHANGED <<status, net, session, failed>>
        /\ pc' = [pc EXCEPT ![w] = "idle"]
        /\ job' = [job EXCEPT ![w] = NoPayment]
        /\ goal' = [goal EXCEPT ![w] = "VERIFIED"]
    BY <1>10, <2>1 DEF Refind
  <3>2. \A v \in Workers :
           pc'[v] # "idle" => pc'[v] = pc[v] /\ job'[v] = job[v] /\ goal'[v] = goal[v]
    BY <3>1
  <3> QED
    BY <3>1, <3>2
<2>2. CASE Pending(job[w])
  <3>1. /\ UNCHANGED <<status, job, goal, net, session, failed>>
        /\ pc' \in {[pc EXCEPT ![w] = "verify"], [pc EXCEPT ![w] = "reverse"]}
        /\ pc[w] = "refind"
    BY <1>10, <2>2 DEF Refind
  <3> QED
    BY <3>1
<2> QED
  BY <2>1, <2>2
<1>11. ASSUME NEW w \in Workers, NEW p \in Payments, NEW o \in {"REFUNDED", "CANCELLED", "DELETED"},
             StartUndo(w, p, o)
      PROVE  GivenUpKnown'
  BY <1>11 DEF StartUndo
<1>12. ASSUME NEW w \in Workers, MarkVerified(w) PROVE GivenUpKnown'
  BY <1>12 DEF MarkVerified
<1>13. ASSUME NEW w \in Workers, ReverseAllocations(w) PROVE GivenUpKnown'
  BY <1>13 DEF ReverseAllocations
<1>14. ASSUME NEW w \in Workers, ReverseForPayment(w) PROVE GivenUpKnown'
  BY <1>14 DEF ReverseForPayment
<1>15. ASSUME NEW w \in Workers, Close(w) PROVE GivenUpKnown'
  BY <1>15 DEF Close
<1>16. ASSUME NEW w \in Workers,
             SyncRead(w) \/ SyncSum(w) \/ SyncWrite(w)
      PROVE  GivenUpKnown'
<2>1. CASE SyncRead(w)
  BY <2>1 DEF SyncRead
<2>2. CASE SyncSum(w)
  BY <2>2 DEF SyncSum
<2>3. CASE SyncWrite(w)
  BY <2>3 DEF SyncWrite
<2> QED
  BY <1>16, <2>1, <2>2, <2>3
<1>17. CASE Crash
  BY <1>17 DEF Crash
<1>18. ASSUME NEW p \in Payments, Pay(p) PROVE GivenUpKnown'
  BY <1>18 DEF Pay
<1>19. ASSUME NEW p \in Payments, AttemptFails(p) PROVE GivenUpKnown'
  BY <1>19 DEF AttemptFails
<1>20. ASSUME NEW p \in Payments, SessionExpires(p) PROVE GivenUpKnown'
  BY <1>20 DEF SessionExpires
<1>21. ASSUME NEW m \in net, LoseWebhook(m) PROVE GivenUpKnown'
  BY <1>21 DEF LoseWebhook
<1>22. CASE UNCHANGED vars
  BY <1>22 DEF vars
<1> HIDE DEF GivenUpKnown, Lost, Unopened, OpenedOnce, Started, NotBoth,
        TypeOK, Statuses, Goals, Labels, Webhooks, db, outer, local, Stay,
        Return, Take
<1> QED
  BY <1>1, <1>2, <1>3, <1>4, <1>5, <1>6, <1>7, <1>8, <1>9, <1>10, <1>11,
     <1>12, <1>13, <1>14, <1>15, <1>16, <1>17, <1>18, <1>19, <1>20, <1>21,
     <1>22
  DEF Next, WorkerStep, WorkerStart, Gateway

GiveUpInv == PaidInv /\ NotBoth /\ GivenUpKnown

LEMMA GiveUpInvInductive ==
    ASSUME ~RetryAllowed
    PROVE  (Init => GiveUpInv) /\ (GiveUpInv /\ [Next]_vars => GiveUpInv')
<1>1. Init => GiveUpInv
  <2> SUFFICES ASSUME Init PROVE GiveUpInv
    OBVIOUS
  <2>1. PaidInv
    BY PaidInvInductive
  <2> QED
    BY <2>1 DEF Init, GiveUpInv, NotBoth, GivenUpKnown
<1>2. GiveUpInv /\ [Next]_vars => GiveUpInv'
  BY PaidInvInductive, NotBothStep, GivenUpStep DEF GiveUpInv, PaidInv
<1> QED
  BY <1>1, <1>2

LEMMA GiveUpSafe == GiveUpInv => GaveUpOnlyIfUnpaid
  BY DEF GiveUpInv, GivenUpKnown, GaveUpOnlyIfUnpaid, Lost, Unopened

\* When a session with a failed attempt cannot be paid any more, a payment that
\* was collected is never recorded as failed or expired, even with officers,
\* restarts and any number of workers in the way.
THEOREM NothingPaidGivenUp == ASSUME ~RetryAllowed PROVE Spec => []GaveUpOnlyIfUnpaid
  BY GiveUpInvInductive, GiveUpSafe, PTL DEF Spec

\* Without officers, only the gateway takes an allocation or credit away, and
\* only from a payment whose session will never be paid.
Kept ==
    /\ \A w \in Workers :
          /\ pc[w] = "refind" => goal[w] \in {"VERIFIED", "EXPIRED"}
          /\ pc[w] \in {"reverse", "release", "close"} => goal[w] \in {"FAILED", "EXPIRED"}
    /\ \A p \in Payments : status[p] # "NONE" => (row[p] /\ held[p]) \/ Lost(p)

\* The gateway handlers reverse only what belongs to a lost session.
LEMMA KeptStep ==
    ASSUME ~RetryAllowed, ~Officers
    PROVE  TypeOK /\ Started /\ OpenedOnce /\ NotBoth /\ GivenUpKnown /\ Kept /\ [Next]_vars
               => Kept'
<1> SUFFICES ASSUME TypeOK, Started, OpenedOnce, NotBoth, GivenUpKnown, Kept, [Next]_vars
             PROVE  Kept'
  OBVIOUS
<1> USE GatewayConstants DEF Kept, GivenUpKnown, Lost, Unopened,
        OpenedOnce, Started, NotBoth, TypeOK, Statuses, Goals, Labels,
        Webhooks, db, outer, local, At, Goto, Stay, Return, Take, Send,
        Pending
<1>1. ASSUME NEW w \in Workers, NEW p \in Payments,
             StartCheckout(w, p)
      PROVE  Kept'
  BY <1>1 DEF StartCheckout
<1>2. ASSUME NEW w \in Workers, OpenSession(w) PROVE Kept'
  BY <1>2 DEF OpenSession
<1>3. ASSUME NEW w \in Workers, LinkSession(w) PROVE Kept'
  BY <1>3 DEF LinkSession
<1>4. ASSUME NEW w \in Workers, CheckoutRefused(w) PROVE Kept'
  BY <1>4 DEF CheckoutRefused
<1>5. ASSUME NEW w \in Workers, NEW p \in Payments,
             ReceivePaid(w, p)
      PROVE  Kept'
  BY <1>5 DEF ReceivePaid
<1>6. ASSUME NEW w \in Workers, NEW p \in Payments, NEW o \in {"FAILED", "EXPIRED"},
             ReceiveUnpaid(w, p, o)
      PROVE  Kept'
  BY <1>6 DEF ReceiveUnpaid
<1>7. ASSUME NEW w \in Workers, NEW p \in Payments, Poll(w, p) PROVE Kept'
  BY <1>7 DEF Poll
<1>8. ASSUME NEW w \in Workers, Retrieve(w) PROVE Kept'
  BY <1>8 DEF Retrieve, Answer
<1>9. ASSUME NEW w \in Workers, GatewayUnreachable(w) PROVE Kept'
  BY <1>9 DEF GatewayUnreachable
<1>10. ASSUME NEW w \in Workers, Refind(w) PROVE Kept'
  BY <1>10, SMTT(30) DEF Refind
<1>11. ASSUME NEW w \in Workers, NEW p \in Payments, NEW o \in {"REFUNDED", "CANCELLED", "DELETED"},
             StartUndo(w, p, o)
      PROVE  Kept'
  BY <1>11 DEF StartUndo
<1>12. ASSUME NEW w \in Workers, MarkVerified(w) PROVE Kept'
  BY <1>12 DEF MarkVerified
<1>13. ASSUME NEW w \in Workers, ReverseAllocations(w) PROVE Kept'
  BY <1>13 DEF ReverseAllocations
<1>14. ASSUME NEW w \in Workers, ReverseForPayment(w) PROVE Kept'
  BY <1>14 DEF ReverseForPayment
<1>15. ASSUME NEW w \in Workers, Close(w) PROVE Kept'
  BY <1>15 DEF Close
<1>16. ASSUME NEW w \in Workers,
             SyncRead(w) \/ SyncSum(w) \/ SyncWrite(w)
      PROVE  Kept'
  BY <1>16 DEF SyncRead, SyncSum, SyncWrite
<1>17. CASE Crash
  BY <1>17 DEF Crash
<1>18. ASSUME NEW p \in Payments, Pay(p) PROVE Kept'
  BY <1>18 DEF Pay
<1>19. ASSUME NEW p \in Payments, AttemptFails(p) PROVE Kept'
  BY <1>19 DEF AttemptFails
<1>20. ASSUME NEW p \in Payments, SessionExpires(p) PROVE Kept'
  BY <1>20 DEF SessionExpires
<1>21. ASSUME NEW m \in net, LoseWebhook(m) PROVE Kept'
  BY <1>21 DEF LoseWebhook
<1>22. CASE UNCHANGED vars
  BY <1>22 DEF vars
<1> HIDE DEF Kept, GivenUpKnown, Lost, Unopened, OpenedOnce, Started, NotBoth,
        TypeOK, Statuses, Goals, Labels, Webhooks, db, outer, local, Stay,
        Return, Take
<1> QED
  BY <1>1, <1>2, <1>3, <1>4, <1>5, <1>6, <1>7, <1>8, <1>9, <1>10, <1>11,
     <1>12, <1>13, <1>14, <1>15, <1>16, <1>17, <1>18, <1>19, <1>20, <1>21,
     <1>22
  DEF Next, WorkerStep, WorkerStart, Gateway

KeptInv == GiveUpInv /\ Kept

LEMMA KeptInvInductive ==
    ASSUME ~RetryAllowed, ~Officers
    PROVE  (Init => KeptInv) /\ (KeptInv /\ [Next]_vars => KeptInv')
<1>1. Init => KeptInv
  <2> SUFFICES ASSUME Init PROVE KeptInv
    OBVIOUS
  <2>1. GiveUpInv
    BY GiveUpInvInductive
  <2> QED
    BY <2>1 DEF Init, KeptInv, Kept
<1>2. KeptInv /\ [Next]_vars => KeptInv'
  BY GiveUpInvInductive, KeptStep DEF KeptInv, GiveUpInv, PaidInv
<1> QED
  BY <1>1, <1>2

LEMMA KeptSafe == KeptInv => VerifiedKeepsItsMoney
  BY DEF KeptInv, GiveUpInv, PaidInv, Kept, VerifiedOnlyIfPaid,
         VerifiedKeepsItsMoney, Lost

\* Under the same condition and without officers, a VERIFIED payment keeps the
\* allocation and the credit it was created with.
THEOREM VerifiedMoneyKept ==
    ASSUME ~RetryAllowed, ~Officers PROVE Spec => []VerifiedKeepsItsMoney
  BY KeptInvInductive, KeptSafe, PTL DEF Spec

-----------------------------------------------------------------------------
(* A final payment is not verified again, but by who read it before.       *)

\* Whoever is about to verify a payment still has the right to, unless another
\* handler closed the payment since it was read.
RightsKnown ==
    \A w \in Workers :
        pc[w] = "verify" /\ ~overtaken[w]
            => ~deleted[job[w]] /\ status[job[w]] \in {"PROCESSING", "VERIFIED"}

\* Every handler that closes a payment overtakes those about to verify it.
LEMMA RightsStep ==
    TypeOK /\ Started /\ RightsKnown /\ [Next]_vars => RightsKnown'
<1> SUFFICES ASSUME TypeOK, Started, RightsKnown, [Next]_vars PROVE RightsKnown'
  OBVIOUS
<1> USE GatewayConstants DEF Started, RightsKnown, TypeOK, Statuses, Goals,
        Labels, Webhooks, db, outer, local, past, At, Goto, Stay, Return, Take,
        Send, Pending
<1>1. ASSUME NEW w \in Workers, NEW p \in Payments, StartCheckout(w, p)
      PROVE  RightsKnown'
  BY <1>1 DEF StartCheckout
<1>2. ASSUME NEW w \in Workers, OpenSession(w) PROVE RightsKnown'
  BY <1>2 DEF OpenSession
<1>3. ASSUME NEW w \in Workers, LinkSession(w) PROVE RightsKnown'
  BY <1>3 DEF LinkSession
<1>4. ASSUME NEW w \in Workers, CheckoutRefused(w) PROVE RightsKnown'
  BY <1>4 DEF CheckoutRefused, Overtake, Verifying
<1>5. ASSUME NEW w \in Workers, NEW p \in Payments, ReceivePaid(w, p)
      PROVE  RightsKnown'
  BY <1>5 DEF ReceivePaid
<1>6. ASSUME NEW w \in Workers, NEW p \in Payments, NEW o \in {"FAILED", "EXPIRED"},
             ReceiveUnpaid(w, p, o)
      PROVE  RightsKnown'
  BY <1>6 DEF ReceiveUnpaid
<1>7. ASSUME NEW w \in Workers, NEW p \in Payments, Poll(w, p)
      PROVE  RightsKnown'
  BY <1>7 DEF Poll
<1>8. ASSUME NEW w \in Workers, Retrieve(w) PROVE RightsKnown'
  BY <1>8 DEF Retrieve, Answer
<1>9. ASSUME NEW w \in Workers, GatewayUnreachable(w) PROVE RightsKnown'
  BY <1>9 DEF GatewayUnreachable
<1>10. ASSUME NEW w \in Workers, Refind(w) PROVE RightsKnown'
  BY <1>10 DEF Refind
<1>11. ASSUME NEW w \in Workers, NEW p \in Payments,
              NEW o \in {"REFUNDED", "CANCELLED", "DELETED"}, StartUndo(w, p, o)
      PROVE  RightsKnown'
  BY <1>11 DEF StartUndo
<1>12. ASSUME NEW w \in Workers, MarkVerified(w) PROVE RightsKnown'
  BY <1>12 DEF MarkVerified, Overtake
<1>13. ASSUME NEW w \in Workers, ReverseAllocations(w) PROVE RightsKnown'
  BY <1>13 DEF ReverseAllocations
<1>14. ASSUME NEW w \in Workers, ReverseForPayment(w) PROVE RightsKnown'
  BY <1>14 DEF ReverseForPayment
<1>15. ASSUME NEW w \in Workers, Close(w) PROVE RightsKnown'
  <2>1. SUFFICES ASSUME NEW v \in Workers, pc'[v] = "verify", ~overtaken'[v]
                 PROVE  ~deleted'[job'[v]] /\ status'[job'[v]] \in {"PROCESSING", "VERIFIED"}
    BY DEF RightsKnown
  <2>2. pc' = [pc EXCEPT ![w] = "read"] /\ job' = job /\ pc[w] = "close"
    BY <1>15 DEF Close
  <2>3. v # w /\ pc[v] = "verify" /\ job'[v] = job[v] /\ v \in Workers
    BY <2>1, <2>2
  <2>4. ~overtaken[v] /\ job[v] # job[w]
    BY <1>15, <2>1, <2>3 DEF Close, Overtake, Verifying
  <2>5. deleted'[job[v]] = deleted[job[v]] /\ status'[job[v]] = status[job[v]]
    <3>1. job[v] \in Payments
      BY <2>3
    <3> QED
      BY <1>15, <2>4, <3>1 DEF Close
  <2> QED
    BY <2>3, <2>4, <2>5
<1>16. ASSUME NEW w \in Workers, SyncRead(w) PROVE RightsKnown'
  BY <1>16 DEF SyncRead
<1>17. ASSUME NEW w \in Workers, SyncSum(w) PROVE RightsKnown'
  BY <1>17 DEF SyncSum
<1>18. ASSUME NEW w \in Workers, SyncWrite(w) PROVE RightsKnown'
  BY <1>18 DEF SyncWrite, Overtake
<1>19. CASE Crash
  BY <1>19 DEF Crash
<1>20. ASSUME NEW p \in Payments, Pay(p) PROVE RightsKnown'
  BY <1>20 DEF Pay
<1>21. ASSUME NEW p \in Payments, AttemptFails(p) PROVE RightsKnown'
  BY <1>21 DEF AttemptFails
<1>22. ASSUME NEW p \in Payments, SessionExpires(p) PROVE RightsKnown'
  BY <1>22 DEF SessionExpires
<1>23. ASSUME NEW m \in net, LoseWebhook(m) PROVE RightsKnown'
  BY <1>23 DEF LoseWebhook
<1>24. CASE UNCHANGED vars
  BY <1>24 DEF vars
<1> HIDE DEF Started, RightsKnown, TypeOK, Statuses, Goals, Labels, Webhooks, db,
        outer, local, past, Stay, Return, Take
<1> QED
  BY <1>1, <1>2, <1>3, <1>4, <1>5, <1>6, <1>7, <1>8, <1>9, <1>10, <1>11, <1>12,
     <1>13, <1>14, <1>15, <1>16, <1>17, <1>18, <1>19, <1>20, <1>21, <1>22,
     <1>23, <1>24
  DEF Next, WorkerStep, WorkerStart, Gateway

\* A payment that reached a final status other than VERIFIED, or was deleted, is
\* verified afterwards only by a handler that had read it before, for any number
\* of payments, workers and restarts.
THEOREM FinalStaysFinal == Spec => FinalIsNotReverified
<1>1. Init => PaidInv /\ RightsKnown
  BY PaidInvInductive DEF Init, RightsKnown
<1>2. PaidInv /\ RightsKnown /\ [Next]_vars => (PaidInv /\ RightsKnown)'
  BY PaidInvInductive, RightsStep DEF PaidInv
<1>3. PaidInv /\ RightsKnown /\ [Next]_vars =>
        [\A p \in Payments :
            (deleted[p] \/ status[p] \in {"FAILED", "EXPIRED", "REFUNDED", "CANCELLED"})
                => \/ status'[p] # "VERIFIED" \/ status[p] = "VERIFIED"
                   \/ \E w \in Workers :
                        At(w, "verify") /\ job[w] = p /\ overtaken[w]]_vars
  <2> SUFFICES ASSUME PaidInv, RightsKnown, Next, NEW p \in Payments,
                      deleted[p] \/ status[p] \in {"FAILED", "EXPIRED", "REFUNDED",
                                                   "CANCELLED"},
                      status'[p] = "VERIFIED", status[p] # "VERIFIED"
               PROVE  \E w \in Workers :
                        At(w, "verify") /\ job[w] = p /\ overtaken[w]
    BY DEF vars
  <2> USE DEF PaidInv, TypeOK, RightsKnown
  <2>1. ASSUME NEW w \in Workers, NEW q \in Payments, StartCheckout(w, q)
        PROVE  FALSE
    BY <2>1 DEF StartCheckout
  <2>2. ASSUME NEW w \in Workers, CheckoutRefused(w) PROVE FALSE
    BY <2>2 DEF CheckoutRefused
  <2>3. ASSUME NEW w \in Workers, MarkVerified(w)
        PROVE  At(w, "verify") /\ job[w] = p /\ overtaken[w]
    BY <2>3 DEF MarkVerified, At
  <2>4. ASSUME NEW w \in Workers, Close(w) PROVE FALSE
    BY <2>4 DEF Close, At, CollectionKnown
  <2>5. \/ \E w \in Workers : \E q \in Payments : StartCheckout(w, q)
        \/ \E w \in Workers : CheckoutRefused(w) \/ MarkVerified(w) \/ Close(w)
        \/ UNCHANGED status
    BY ZenonT(60) DEF Next, WorkerStep, WorkerStart, Gateway, Crash, Pay, AttemptFails,
           SessionExpires, LoseWebhook, ReceivePaid, ReceiveUnpaid, Poll,
           StartUndo, OpenSession, LinkSession, Retrieve, GatewayUnreachable,
           Refind, ReverseAllocations, ReverseForPayment, SyncRead, SyncSum,
           SyncWrite, db
  <2> QED
    BY <2>1, <2>2, <2>3, <2>4, <2>5
<1> QED
  BY <1>1, <1>2, <1>3, PTL DEF Spec, FinalIsNotReverified

-----------------------------------------------------------------------------
(* Stored amounts are behind only where handlers overlapped or were cut    *)
(* off.                                                                    *)

\* Another handler than w has not finished what it does to what w's payment pays.
OtherUnsettled(w) ==
    \E v \in Workers : /\ v # w
                       /\ pc[v] \in Unfinished
                       /\ Target[job[v]] = Target[job[w]]

\* What a handler that nobody overtook has read for its sync is still so, or
\* whoever changed it has its own sync before it.
ReadingsFresh ==
    \A w \in Workers :
        /\ pc[w] \in {"sum", "write"} /\ ~overtaken[w] => seen[w] = paid[Target[job[w]]]
        /\ pc[w] = "write" /\ ~overtaken[w]
              => total[w] = Ledger(Target[job[w]]) \/ OtherUnsettled(w)

SyncInv == PaidInv /\ SyncedUnlessOverlapped /\ ReadingsFresh

\* What the ledger holds follows from the rows and the statuses.
LEMMA LedgerSame ==
    ASSUME UNCHANGED <<status, deleted, row>>, NEW a \in Assessments
    PROVE  Ledger(a)' = Ledger(a)
  BY DEF Ledger

\* A step that neither begins nor ends a handler's writes, and changes no ledger,
\* leaves every stored amount and every sync as it was.
LEMMA LeftAlone ==
    ASSUME SyncInv,
           UNCHANGED <<paid, suspect>>,
           \A a \in Assessments : Ledger(a)' = Ledger(a),
           \A v \in Workers :
               \/ /\ pc'[v] = pc[v] /\ job'[v] = job[v] /\ seen'[v] = seen[v]
                  /\ total'[v] = total[v] /\ overtaken'[v] = overtaken[v]
               \/ pc[v] \notin Unfinished /\ pc'[v] \notin Unfinished
    PROVE  SyncedUnlessOverlapped' /\ ReadingsFresh'
<1> USE DEF SyncInv, PaidInv, Unfinished
<1>1. SyncedUnlessOverlapped'
  BY DEF SyncedUnlessOverlapped, Unsettled
<1>2. ASSUME NEW w \in Workers, pc'[w] \in {"sum", "write"}, ~overtaken'[w]
      PROVE  /\ seen'[w] = paid'[Target[job'[w]]]
             /\ pc'[w] = "write"
                  => total'[w] = Ledger(Target[job[w]])' \/ OtherUnsettled(w)'
  <2>1. /\ pc'[w] = pc[w] /\ job'[w] = job[w] /\ seen'[w] = seen[w]
        /\ total'[w] = total[w] /\ ~overtaken[w]
    BY <1>2
  <2>2. Target[job[w]] \in Assessments
    BY <1>2, <2>1, GatewayConstants DEF TypeOK
  <2>3. Ledger(Target[job[w]])' = Ledger(Target[job[w]])
    BY <2>1, <2>2 DEF Ledger
  <2>4. OtherUnsettled(w) => OtherUnsettled(w)'
    BY <2>1 DEF OtherUnsettled
  <2> QED
    BY <1>2, <2>1, <2>3, <2>4 DEF ReadingsFresh
<1>3. ReadingsFresh'
  BY <1>2 DEF ReadingsFresh
<1> QED
  BY <1>1, <1>3

\* A handler that begins or goes on with its writes changes the ledger of its own
\* assessment only, and is unsettled on it.
LEMMA GoesOn ==
    ASSUME SyncInv, NEW w \in Workers, pc[w] \in Labels \ {"idle"},
           pc' = [pc EXCEPT ![w] = "release"] \/ pc' = [pc EXCEPT ![w] = "close"]
               \/ pc' = [pc EXCEPT ![w] = "read"],
           UNCHANGED <<paid, job, seen, total, suspect>>,
           \A v \in Workers : pc'[v] \in {"sum", "write"} => overtaken'[v] = overtaken[v],
           \A a \in Assessments : a # Target[job[w]] => Ledger(a)' = Ledger(a)
    PROVE  SyncedUnlessOverlapped' /\ ReadingsFresh'
<1> USE DEF SyncInv, PaidInv, Unfinished
<1>1. pc' \in [Workers -> Labels] /\ pc'[w] \in {"release", "close", "read"}
      /\ \A v \in Workers \ {w} : pc'[v] = pc[v]
  BY DEF TypeOK, Labels
<1>2. SyncedUnlessOverlapped'
  BY <1>1 DEF SyncedUnlessOverlapped, Unsettled
<1>3. ASSUME NEW v \in Workers, pc'[v] \in {"sum", "write"}, ~overtaken'[v]
      PROVE  /\ seen'[v] = paid'[Target[job'[v]]]
             /\ pc'[v] = "write"
                  => total'[v] = Ledger(Target[job[v]])' \/ OtherUnsettled(v)'
  <2>1. v # w /\ pc'[v] = pc[v] /\ ~overtaken[v]
    BY <1>1, <1>3
  <2>2. Target[job[v]] \in Assessments
    BY <1>3, <2>1, GatewayConstants DEF TypeOK
  <2>3. CASE Target[job[v]] = Target[job[w]]
    <3>1. OtherUnsettled(v)'
      BY <1>1, <2>1, <2>3 DEF OtherUnsettled
    <3> QED
      BY <1>3, <2>1, <3>1 DEF ReadingsFresh
  <2>4. CASE Target[job[v]] # Target[job[w]]
    <3>1. Ledger(Target[job[v]])' = Ledger(Target[job[v]])
      BY <2>2, <2>4 DEF Ledger
    <3>2. OtherUnsettled(v) => OtherUnsettled(v)'
      BY <1>1, <2>1 DEF OtherUnsettled
    <3> QED
      BY <1>3, <2>1, <3>1, <3>2 DEF ReadingsFresh
  <2> QED
    BY <2>3, <2>4
<1>4. ReadingsFresh'
  BY <1>3 DEF ReadingsFresh
<1> QED
  BY <1>2, <1>4

\* A sync that nobody overtakes stores what the ledger holds, or leaves that to
\* whoever changed it meanwhile; one that was overtaken is on record.
LEMMA SyncStep ==
    ASSUME SyncInv, NEW w \in Workers, SyncRead(w) \/ SyncSum(w) \/ SyncWrite(w)
    PROVE  SyncedUnlessOverlapped' /\ ReadingsFresh'
<1> USE GatewayConstants
    DEF SyncInv, PaidInv, TypeOK, At, Goto, Labels, Unfinished, SyncedUnlessOverlapped,
        ReadingsFresh, Unsettled, OtherUnsettled, Ledger, db, outer, past
<1>1. CASE SyncRead(w)
  BY <1>1, SMTT(30) DEF SyncRead
<1>2. CASE SyncSum(w)
  BY <1>2, SMTT(30) DEF SyncSum
<1>3. CASE SyncWrite(w)
  <2> USE DEF Overtake, Summing, Return
  <2>1. SyncedUnlessOverlapped'
    BY <1>3, SMTT(30) DEF SyncWrite
  <2>2. ASSUME NEW v \in Workers, pc'[v] \in {"sum", "write"}, ~overtaken'[v]
        PROVE  /\ v # w /\ pc'[v] = pc[v] /\ job'[v] = job[v] /\ ~overtaken[v]
               /\ Target[job[v]] # Target[job[w]]
    BY <1>3, <2>2 DEF SyncWrite
  <2>3. ASSUME NEW v \in Workers, pc'[v] \in {"sum", "write"}, ~overtaken'[v]
        PROVE  seen'[v] = paid'[Target[job'[v]]]
    BY <1>3, <2>2, <2>3 DEF SyncWrite
  <2>4. ASSUME NEW v \in Workers, pc'[v] = "write", ~overtaken'[v]
        PROVE  total'[v] = Ledger(Target[job[v]])' \/ OtherUnsettled(v)'
    <3>1. /\ v # w /\ pc[v] = "write" /\ job'[v] = job[v] /\ ~overtaken[v]
          /\ Target[job[v]] # Target[job[w]]
      BY <2>2, <2>4
    <3>2. total'[v] = total[v] /\ Ledger(Target[job[v]])' = Ledger(Target[job[v]])
      BY <1>3, <3>1 DEF SyncWrite
    <3>3. OtherUnsettled(v) => OtherUnsettled(v)'
      BY <1>3, <3>1 DEF SyncWrite
    <3> QED
      BY <3>1, <3>2, <3>3
  <2>5. ReadingsFresh'
    BY <2>2, <2>3, <2>4
  <2> QED
    BY <2>1, <2>5
<1> QED
  BY <1>1, <1>2, <1>3

LEMMA OverlapStep ==
    SyncInv /\ [Next]_vars => SyncedUnlessOverlapped' /\ ReadingsFresh'
<1> SUFFICES ASSUME SyncInv, [Next]_vars PROVE SyncedUnlessOverlapped' /\ ReadingsFresh'
  OBVIOUS
<1> USE DEF SyncInv, PaidInv
<1> USE GatewayConstants
    DEF TypeOK, Statuses, Goals, Labels, Webhooks, db, outer, local, past, At, Goto,
        Stay, Return, Take, Send, Pending, Unfinished
<1>1. ASSUME NEW w \in Workers, NEW p \in Payments, StartCheckout(w, p)
      PROVE  SyncedUnlessOverlapped' /\ ReadingsFresh'
<2>1. p \in Payments /\ status[p] # "VERIFIED"
  BY <1>1 DEF StartCheckout
<2>2. \A a \in Assessments : Ledger(a)' = Ledger(a)
  BY <1>1, <2>1 DEF StartCheckout, Ledger
<2>3. UNCHANGED <<paid, suspect>>
  BY <1>1 DEF StartCheckout
<2>4. \A v \in Workers :
        \/ /\ pc'[v] = pc[v] /\ job'[v] = job[v] /\ seen'[v] = seen[v]
           /\ total'[v] = total[v] /\ overtaken'[v] = overtaken[v]
        \/ pc[v] \notin Unfinished /\ pc'[v] \notin Unfinished
  BY <1>1 DEF StartCheckout
<2> HIDE DEF SyncInv, PaidInv, TypeOK, Unfinished
<2> QED
  BY <2>2, <2>3, <2>4, LeftAlone
<1>2. ASSUME NEW w \in Workers, OpenSession(w)
      PROVE  SyncedUnlessOverlapped' /\ ReadingsFresh'
<2>1. UNCHANGED <<status, deleted, row, paid, overtaken, suspect>>
  BY <1>2 DEF OpenSession
<2>2. \A v \in Workers :
        \/ /\ pc'[v] = pc[v] /\ job'[v] = job[v] /\ seen'[v] = seen[v]
           /\ total'[v] = total[v]
        \/ pc[v] \notin Unfinished /\ pc'[v] \notin Unfinished
  BY <1>2 DEF OpenSession
<2> HIDE DEF SyncInv, PaidInv, TypeOK, Unfinished
<2> QED
  BY <2>1, <2>2, LedgerSame, LeftAlone
<1>3. ASSUME NEW w \in Workers, LinkSession(w)
      PROVE  SyncedUnlessOverlapped' /\ ReadingsFresh'
<2>1. UNCHANGED <<status, deleted, row, paid, overtaken, suspect>>
  BY <1>3 DEF LinkSession
<2>2. \A v \in Workers :
        \/ /\ pc'[v] = pc[v] /\ job'[v] = job[v] /\ seen'[v] = seen[v]
           /\ total'[v] = total[v]
        \/ pc[v] \notin Unfinished /\ pc'[v] \notin Unfinished
  BY <1>3 DEF LinkSession
<2> HIDE DEF SyncInv, PaidInv, TypeOK, Unfinished
<2> QED
  BY <2>1, <2>2, LedgerSame, LeftAlone
<1>4. ASSUME NEW w \in Workers, CheckoutRefused(w)
      PROVE  SyncedUnlessOverlapped' /\ ReadingsFresh'
<2>1. job[w] \in Payments /\ status[job[w]] # "VERIFIED"
  BY <1>4 DEF CheckoutRefused, OpenedOnce, VerifiedOnlyIfPaid
<2>2. \A a \in Assessments : Ledger(a)' = Ledger(a)
  BY <1>4, <2>1 DEF CheckoutRefused, Ledger
<2>3. UNCHANGED <<paid, suspect>>
  BY <1>4 DEF CheckoutRefused
<2>4. \A v \in Workers :
        \/ /\ pc'[v] = pc[v] /\ job'[v] = job[v] /\ seen'[v] = seen[v]
           /\ total'[v] = total[v] /\ overtaken'[v] = overtaken[v]
        \/ pc[v] \notin Unfinished /\ pc'[v] \notin Unfinished
  BY <1>4 DEF CheckoutRefused, Overtake, Verifying
<2> HIDE DEF SyncInv, PaidInv, TypeOK, Unfinished
<2> QED
  BY <2>2, <2>3, <2>4, LeftAlone
<1>5. ASSUME NEW w \in Workers, NEW p \in Payments, ReceivePaid(w, p)
      PROVE  SyncedUnlessOverlapped' /\ ReadingsFresh'
<2>1. UNCHANGED <<status, deleted, row, paid, overtaken, suspect>>
  BY <1>5 DEF ReceivePaid
<2>2. \A v \in Workers :
        \/ /\ pc'[v] = pc[v] /\ job'[v] = job[v] /\ seen'[v] = seen[v]
           /\ total'[v] = total[v]
        \/ pc[v] \notin Unfinished /\ pc'[v] \notin Unfinished
  BY <1>5 DEF ReceivePaid
<2> HIDE DEF SyncInv, PaidInv, TypeOK, Unfinished
<2> QED
  BY <2>1, <2>2, LedgerSame, LeftAlone
<1>6. ASSUME NEW w \in Workers, NEW p \in Payments, NEW o \in {"FAILED", "EXPIRED"},
             ReceiveUnpaid(w, p, o)
      PROVE  SyncedUnlessOverlapped' /\ ReadingsFresh'
<2>1. UNCHANGED <<status, deleted, row, paid, overtaken, suspect>>
  BY <1>6 DEF ReceiveUnpaid
<2>2. \A v \in Workers :
        \/ /\ pc'[v] = pc[v] /\ job'[v] = job[v] /\ seen'[v] = seen[v]
           /\ total'[v] = total[v]
        \/ pc[v] \notin Unfinished /\ pc'[v] \notin Unfinished
  BY <1>6 DEF ReceiveUnpaid
<2> HIDE DEF SyncInv, PaidInv, TypeOK, Unfinished
<2> QED
  BY <2>1, <2>2, LedgerSame, LeftAlone
<1>7. ASSUME NEW w \in Workers, NEW p \in Payments, Poll(w, p)
      PROVE  SyncedUnlessOverlapped' /\ ReadingsFresh'
<2>1. UNCHANGED <<status, deleted, row, paid, overtaken, suspect>>
  BY <1>7 DEF Poll
<2>2. \A v \in Workers :
        \/ /\ pc'[v] = pc[v] /\ job'[v] = job[v] /\ seen'[v] = seen[v]
           /\ total'[v] = total[v]
        \/ pc[v] \notin Unfinished /\ pc'[v] \notin Unfinished
  BY <1>7 DEF Poll
<2> HIDE DEF SyncInv, PaidInv, TypeOK, Unfinished
<2> QED
  BY <2>1, <2>2, LedgerSame, LeftAlone
<1>8. ASSUME NEW w \in Workers, Retrieve(w)
      PROVE  SyncedUnlessOverlapped' /\ ReadingsFresh'
<2>1. UNCHANGED <<status, deleted, row, paid, overtaken, suspect>>
  BY <1>8 DEF Retrieve, Answer
<2>2. \A v \in Workers :
        \/ /\ pc'[v] = pc[v] /\ job'[v] = job[v] /\ seen'[v] = seen[v]
           /\ total'[v] = total[v]
        \/ pc[v] \notin Unfinished /\ pc'[v] \notin Unfinished
  BY <1>8 DEF Retrieve, Answer
<2> HIDE DEF SyncInv, PaidInv, TypeOK, Unfinished
<2> QED
  BY <2>1, <2>2, LedgerSame, LeftAlone
<1>9. ASSUME NEW w \in Workers, GatewayUnreachable(w)
      PROVE  SyncedUnlessOverlapped' /\ ReadingsFresh'
<2>1. UNCHANGED <<status, deleted, row, paid, overtaken, suspect>>
  BY <1>9 DEF GatewayUnreachable
<2>2. \A v \in Workers :
        \/ /\ pc'[v] = pc[v] /\ job'[v] = job[v] /\ seen'[v] = seen[v]
           /\ total'[v] = total[v]
        \/ pc[v] \notin Unfinished /\ pc'[v] \notin Unfinished
  BY <1>9 DEF GatewayUnreachable
<2> HIDE DEF SyncInv, PaidInv, TypeOK, Unfinished
<2> QED
  BY <2>1, <2>2, LedgerSame, LeftAlone
<1>10. ASSUME NEW w \in Workers, Refind(w)
      PROVE  SyncedUnlessOverlapped' /\ ReadingsFresh'
<2>1. UNCHANGED <<status, deleted, row, paid, overtaken, suspect>>
  BY <1>10 DEF Refind
<2>2. \A v \in Workers :
        \/ /\ pc'[v] = pc[v] /\ job'[v] = job[v] /\ seen'[v] = seen[v]
           /\ total'[v] = total[v]
        \/ pc[v] \notin Unfinished /\ pc'[v] \notin Unfinished
  BY <1>10 DEF Refind
<2> HIDE DEF SyncInv, PaidInv, TypeOK, Unfinished
<2> QED
  BY <2>1, <2>2, LedgerSame, LeftAlone
<1>11. ASSUME NEW w \in Workers, NEW p \in Payments,
              NEW o \in {"REFUNDED", "CANCELLED", "DELETED"}, StartUndo(w, p, o)
      PROVE  SyncedUnlessOverlapped' /\ ReadingsFresh'
<2>1. UNCHANGED <<status, deleted, row, paid, overtaken, suspect>>
  BY <1>11 DEF StartUndo
<2>2. \A v \in Workers :
        \/ /\ pc'[v] = pc[v] /\ job'[v] = job[v] /\ seen'[v] = seen[v]
           /\ total'[v] = total[v]
        \/ pc[v] \notin Unfinished /\ pc'[v] \notin Unfinished
  BY <1>11 DEF StartUndo
<2> HIDE DEF SyncInv, PaidInv, TypeOK, Unfinished
<2> QED
  BY <2>1, <2>2, LedgerSame, LeftAlone
<1>12. ASSUME NEW w \in Workers, MarkVerified(w)
      PROVE  SyncedUnlessOverlapped' /\ ReadingsFresh'
<2>1. pc' = [pc EXCEPT ![w] = "read"] /\ pc[w] # "idle" /\ job[w] \in Payments
  BY <1>12 DEF MarkVerified
<2>2. UNCHANGED <<paid, job, seen, total, suspect>>
  BY <1>12 DEF MarkVerified
<2>3. \A v \in Workers : pc'[v] \in {"sum", "write"} => overtaken'[v] = overtaken[v]
  BY <1>12 DEF MarkVerified, Overtake
<2>4. \A q \in Payments \ {job[w]} :
        status'[q] = status[q] /\ deleted'[q] = deleted[q] /\ row'[q] = row[q]
  BY <1>12 DEF MarkVerified
<2>5. \A a \in Assessments : a # Target[job[w]] => Ledger(a)' = Ledger(a)
  BY <2>4 DEF Ledger
<2>6. pc[w] \in Labels \ {"idle"}
  BY <2>1
<2> HIDE DEF SyncInv, PaidInv, TypeOK, Labels, Unfinished
<2> QED
  BY <2>1, <2>2, <2>3, <2>5, <2>6, GoesOn
<1>13. ASSUME NEW w \in Workers, ReverseAllocations(w)
      PROVE  SyncedUnlessOverlapped' /\ ReadingsFresh'
<2>1. pc' = [pc EXCEPT ![w] = "release"] /\ pc[w] # "idle" /\ job[w] \in Payments
  BY <1>13 DEF ReverseAllocations
<2>2. UNCHANGED <<paid, job, seen, total, suspect>>
  BY <1>13 DEF ReverseAllocations
<2>3. \A v \in Workers : pc'[v] \in {"sum", "write"} => overtaken'[v] = overtaken[v]
  BY <1>13 DEF ReverseAllocations
<2>4. \A q \in Payments \ {job[w]} :
        status'[q] = status[q] /\ deleted'[q] = deleted[q] /\ row'[q] = row[q]
  BY <1>13 DEF ReverseAllocations
<2>5. \A a \in Assessments : a # Target[job[w]] => Ledger(a)' = Ledger(a)
  BY <2>4 DEF Ledger
<2>6. pc[w] \in Labels \ {"idle"}
  BY <2>1
<2> HIDE DEF SyncInv, PaidInv, TypeOK, Labels, Unfinished
<2> QED
  BY <2>1, <2>2, <2>3, <2>5, <2>6, GoesOn
<1>14. ASSUME NEW w \in Workers, ReverseForPayment(w)
      PROVE  SyncedUnlessOverlapped' /\ ReadingsFresh'
<2>1. pc' = [pc EXCEPT ![w] = "close"] /\ pc[w] # "idle" /\ job[w] \in Payments
  BY <1>14 DEF ReverseForPayment
<2>2. UNCHANGED <<paid, job, seen, total, suspect>>
  BY <1>14 DEF ReverseForPayment
<2>3. \A v \in Workers : pc'[v] \in {"sum", "write"} => overtaken'[v] = overtaken[v]
  BY <1>14 DEF ReverseForPayment
<2>4. \A q \in Payments \ {job[w]} :
        status'[q] = status[q] /\ deleted'[q] = deleted[q] /\ row'[q] = row[q]
  BY <1>14 DEF ReverseForPayment
<2>5. \A a \in Assessments : a # Target[job[w]] => Ledger(a)' = Ledger(a)
  BY <2>4 DEF Ledger
<2>6. pc[w] \in Labels \ {"idle"}
  BY <2>1
<2> HIDE DEF SyncInv, PaidInv, TypeOK, Labels, Unfinished
<2> QED
  BY <2>1, <2>2, <2>3, <2>5, <2>6, GoesOn
<1>15. ASSUME NEW w \in Workers, Close(w)
      PROVE  SyncedUnlessOverlapped' /\ ReadingsFresh'
<2>1. pc' = [pc EXCEPT ![w] = "read"] /\ pc[w] # "idle" /\ job[w] \in Payments
  BY <1>15 DEF Close
<2>2. UNCHANGED <<paid, job, seen, total, suspect>>
  BY <1>15 DEF Close
<2>3. \A v \in Workers : pc'[v] \in {"sum", "write"} => overtaken'[v] = overtaken[v]
  BY <1>15 DEF Close, Overtake, Verifying
<2>4. \A q \in Payments \ {job[w]} :
        status'[q] = status[q] /\ deleted'[q] = deleted[q] /\ row'[q] = row[q]
  BY <1>15 DEF Close
<2>5. \A a \in Assessments : a # Target[job[w]] => Ledger(a)' = Ledger(a)
  BY <2>4 DEF Ledger
<2>6. pc[w] \in Labels \ {"idle"}
  BY <2>1
<2> HIDE DEF SyncInv, PaidInv, TypeOK, Labels, Unfinished
<2> QED
  BY <2>1, <2>2, <2>3, <2>5, <2>6, GoesOn
<1>16. ASSUME NEW w \in Workers, SyncRead(w)
      PROVE  SyncedUnlessOverlapped' /\ ReadingsFresh'
  BY <1>16, SyncStep
<1>17. ASSUME NEW w \in Workers, SyncSum(w)
      PROVE  SyncedUnlessOverlapped' /\ ReadingsFresh'
  BY <1>17, SyncStep
<1>18. ASSUME NEW w \in Workers, SyncWrite(w)
      PROVE  SyncedUnlessOverlapped' /\ ReadingsFresh'
  BY <1>18, SyncStep
<1>19. CASE Crash
<2>1. \A a \in Assessments : Ledger(a)' = Ledger(a)
  BY <1>19 DEF Crash, Ledger
<2> QED
  BY <1>19, <2>1 DEF Crash, SyncedUnlessOverlapped, ReadingsFresh
<1>20. ASSUME NEW p \in Payments, Pay(p)
      PROVE  SyncedUnlessOverlapped' /\ ReadingsFresh'
<2>1. UNCHANGED <<status, deleted, row, paid, overtaken, suspect>>
  BY <1>20 DEF Pay
<2>2. \A v \in Workers :
        \/ /\ pc'[v] = pc[v] /\ job'[v] = job[v] /\ seen'[v] = seen[v]
           /\ total'[v] = total[v]
        \/ pc[v] \notin Unfinished /\ pc'[v] \notin Unfinished
  BY <1>20 DEF Pay
<2> HIDE DEF SyncInv, PaidInv, TypeOK, Unfinished
<2> QED
  BY <2>1, <2>2, LedgerSame, LeftAlone
<1>21. ASSUME NEW p \in Payments, AttemptFails(p)
      PROVE  SyncedUnlessOverlapped' /\ ReadingsFresh'
<2>1. UNCHANGED <<status, deleted, row, paid, overtaken, suspect>>
  BY <1>21 DEF AttemptFails
<2>2. \A v \in Workers :
        \/ /\ pc'[v] = pc[v] /\ job'[v] = job[v] /\ seen'[v] = seen[v]
           /\ total'[v] = total[v]
        \/ pc[v] \notin Unfinished /\ pc'[v] \notin Unfinished
  BY <1>21 DEF AttemptFails
<2> HIDE DEF SyncInv, PaidInv, TypeOK, Unfinished
<2> QED
  BY <2>1, <2>2, LedgerSame, LeftAlone
<1>22. ASSUME NEW p \in Payments, SessionExpires(p)
      PROVE  SyncedUnlessOverlapped' /\ ReadingsFresh'
<2>1. UNCHANGED <<status, deleted, row, paid, overtaken, suspect>>
  BY <1>22 DEF SessionExpires
<2>2. \A v \in Workers :
        \/ /\ pc'[v] = pc[v] /\ job'[v] = job[v] /\ seen'[v] = seen[v]
           /\ total'[v] = total[v]
        \/ pc[v] \notin Unfinished /\ pc'[v] \notin Unfinished
  BY <1>22 DEF SessionExpires
<2> HIDE DEF SyncInv, PaidInv, TypeOK, Unfinished
<2> QED
  BY <2>1, <2>2, LedgerSame, LeftAlone
<1>23. ASSUME NEW m \in net, LoseWebhook(m)
      PROVE  SyncedUnlessOverlapped' /\ ReadingsFresh'
<2>1. UNCHANGED <<status, deleted, row, paid, overtaken, suspect>>
  BY <1>23 DEF LoseWebhook
<2>2. \A v \in Workers :
        \/ /\ pc'[v] = pc[v] /\ job'[v] = job[v] /\ seen'[v] = seen[v]
           /\ total'[v] = total[v]
        \/ pc[v] \notin Unfinished /\ pc'[v] \notin Unfinished
  BY <1>23 DEF LoseWebhook
<2> HIDE DEF SyncInv, PaidInv, TypeOK, Unfinished
<2> QED
  BY <2>1, <2>2, LedgerSame, LeftAlone
<1>24. CASE UNCHANGED vars
<2>1. UNCHANGED <<status, deleted, row, paid, suspect>>
  BY <1>24 DEF vars
<2>2. \A v \in Workers :
        /\ pc'[v] = pc[v] /\ job'[v] = job[v] /\ seen'[v] = seen[v]
        /\ total'[v] = total[v] /\ overtaken'[v] = overtaken[v]
  BY <1>24 DEF vars
<2> HIDE DEF SyncInv, PaidInv, TypeOK, Unfinished
<2> QED
  BY <2>1, <2>2, LedgerSame, LeftAlone
<1> HIDE DEF SyncInv, PaidInv, TypeOK, Statuses, Goals, Labels, Webhooks, db, outer,
        local, past, Stay, Return, Take, Unfinished
<1> QED
  BY <1>1, <1>2, <1>3, <1>4, <1>5, <1>6, <1>7, <1>8, <1>9, <1>10, <1>11, <1>12,
     <1>13, <1>14, <1>15, <1>16, <1>17, <1>18, <1>19, <1>20, <1>21, <1>22,
     <1>23, <1>24
  DEF Next, WorkerStep, WorkerStart, Gateway

\* Every stored paidAmount is what its VERIFIED allocations add up to, unless a
\* handler is about to store it, or a restart or an overlap of two computations
\* spoilt the last one, for any number of payments, assessments and workers.
THEOREM StoredIsTheLedger == Spec => []SyncedUnlessOverlapped
<1>1. Init => SyncInv
  <2> SUFFICES ASSUME Init PROVE SyncInv
    OBVIOUS
  <2>1. PaidInv
    BY PaidInvInductive
  <2>2. SyncedUnlessOverlapped /\ ReadingsFresh
    BY DEF Init, SyncedUnlessOverlapped, ReadingsFresh, Ledger
  <2> QED
    BY <2>1, <2>2 DEF SyncInv
<1>2. SyncInv /\ [Next]_vars => SyncInv'
  BY PaidInvInductive, OverlapStep DEF SyncInv
<1>3. SyncInv => SyncedUnlessOverlapped
  BY DEF SyncInv
<1> QED
  BY <1>1, <1>2, <1>3, PTL DEF Spec
=============================================================================
