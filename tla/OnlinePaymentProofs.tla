------------------------ MODULE OnlinePaymentProofs ------------------------
(***************************************************************************)
(* GatewaySettlement implements the safety part of OnlinePayment, for any  *)
(* number of payments, workers and restarts, without officers and with one *)
(* attempt per session.                                                    *)
(***************************************************************************)
EXTENDS GatewaySettlementProofs

-----------------------------------------------------------------------------
(* What the mapping needs beyond KeptInv.                                  *)

\* A checkout that has no session yet is nobody else's business: it is PROCESSING,
\* only one worker may refuse it, and it has no failed attempt.
Untouched ==
    /\ \A w \in Workers : pc[w] \in {"opening", "refused"} => status[job[w]] = "PROCESSING"
    /\ \A v, w \in Workers :
          pc[v] = "refused" /\ pc[w] = "refused" /\ job[v] = job[w] => v = w
    /\ \A p \in Payments : session[p] = "none" => ~failed[p]
    /\ \A p \in Payments : status[p] \notin {"REFUNDED", "CANCELLED"}

\* Only the worker that created a payment acts on it before it has a session.
LEMMA UntouchedStep ==
    ASSUME ~RetryAllowed, ~Officers PROVE KeptInv /\ Untouched /\ [Next]_vars => Untouched'
<1> SUFFICES ASSUME KeptInv, Untouched, [Next]_vars PROVE Untouched'
  OBVIOUS
<1> USE GatewayConstants DEF KeptInv, Kept, GiveUpInv, PaidInv, GivenUpKnown, Lost,
        Unopened, OpenedOnce, Started, NotBoth, CollectionKnown, Untouched, TypeOK,
        Statuses, Goals, Labels, Webhooks, db, outer, local, At, Goto, Stay, Return,
        Take, Send, Pending
<1>1. ASSUME NEW w \in Workers, NEW p \in Payments, StartCheckout(w, p)
      PROVE  Untouched'
  BY <1>1 DEF StartCheckout
<1>2. ASSUME NEW w \in Workers, OpenSession(w) PROVE Untouched'
<2>1. /\ pc[w] = "opening" /\ job[w] \in Payments
      /\ UNCHANGED <<status, failed, job>>
  BY <1>2 DEF OpenSession
<2>2. CASE session' = [session EXCEPT ![job[w]] = "open"] /\ pc' = [pc EXCEPT ![w] = "linking"]
  BY <2>1, <2>2
<2>3. CASE session' = session /\ pc' = [pc EXCEPT ![w] = "refused"]
  <3>1. \A v \in Workers : pc[v] = "refused" => job[v] # job[w]
    BY <2>1
  <3> QED
    BY <2>1, <2>3, <3>1
<2> QED
  BY <1>2, <2>2, <2>3 DEF OpenSession
<1>3. ASSUME NEW w \in Workers, LinkSession(w) PROVE Untouched'
  BY <1>3 DEF LinkSession
<1>4. ASSUME NEW w \in Workers, CheckoutRefused(w) PROVE Untouched'
<2>1. /\ pc[w] = "refused" /\ job[w] \in Payments /\ UNCHANGED <<session, failed>>
      /\ status' = [status EXCEPT ![job[w]] = "FAILED"]
      /\ pc' = [pc EXCEPT ![w] = "idle"] /\ job' = [job EXCEPT ![w] = NoPayment]
  BY <1>4 DEF CheckoutRefused
<2>2. \A v \in Workers : v # w /\ pc[v] \in {"opening", "refused"} => job[v] # job[w]
  BY <2>1
<2> QED
  BY <2>1, <2>2
<1>5. ASSUME NEW w \in Workers, NEW p \in Payments, ReceivePaid(w, p) PROVE Untouched'
  BY <1>5 DEF ReceivePaid
<1>6. ASSUME NEW w \in Workers, NEW p \in Payments, NEW o \in {"FAILED", "EXPIRED"},
             ReceiveUnpaid(w, p, o)
      PROVE  Untouched'
  BY <1>6 DEF ReceiveUnpaid
<1>7. ASSUME NEW w \in Workers, NEW p \in Payments, Poll(w, p) PROVE Untouched'
  BY <1>7 DEF Poll
<1>8. ASSUME NEW w \in Workers, Retrieve(w) PROVE Untouched'
<2>1. /\ UNCHANGED <<status, session, failed>>
      /\ pc'[w] \in {"idle", "refind"}
      /\ \A v \in Workers : v # w => pc'[v] = pc[v] /\ job'[v] = job[v]
  BY <1>8 DEF Retrieve
<2> QED
  BY <2>1
<1>9. ASSUME NEW w \in Workers, GatewayUnreachable(w) PROVE Untouched'
  BY <1>9 DEF GatewayUnreachable
<1>10. ASSUME NEW w \in Workers, Refind(w) PROVE Untouched'
<2>1. /\ UNCHANGED <<status, session, failed>>
      /\ pc'[w] \in {"idle", "verify", "reverse"}
      /\ \A v \in Workers : v # w => pc'[v] = pc[v] /\ job'[v] = job[v]
  BY <1>10 DEF Refind
<2> QED
  BY <2>1
<1>11. ASSUME NEW w \in Workers, NEW p \in Payments,
              NEW o \in {"REFUNDED", "CANCELLED", "DELETED"}, StartUndo(w, p, o)
       PROVE  Untouched'
  BY <1>11 DEF StartUndo
<1>12. ASSUME NEW w \in Workers, MarkVerified(w) PROVE Untouched'
  BY <1>12 DEF MarkVerified
<1>13. ASSUME NEW w \in Workers, ReverseAllocations(w) PROVE Untouched'
  BY <1>13 DEF ReverseAllocations
<1>14. ASSUME NEW w \in Workers, ReverseForPayment(w) PROVE Untouched'
  BY <1>14 DEF ReverseForPayment
<1>15. ASSUME NEW w \in Workers, Close(w) PROVE Untouched'
  BY <1>15 DEF Close
<1>16. ASSUME NEW w \in Workers, SyncRead(w) \/ SyncSum(w) \/ SyncWrite(w)
       PROVE  Untouched'
<2>1. CASE SyncRead(w)
  BY <2>1 DEF SyncRead
<2>2. CASE SyncSum(w)
  BY <2>2 DEF SyncSum
<2>3. CASE SyncWrite(w)
  BY <2>3 DEF SyncWrite
<2> QED
  BY <1>16, <2>1, <2>2, <2>3
<1>17. CASE Crash
  BY <1>17 DEF Crash
<1>18. ASSUME NEW p \in Payments, Pay(p) PROVE Untouched'
  BY <1>18 DEF Pay
<1>19. ASSUME NEW p \in Payments, AttemptFails(p) PROVE Untouched'
  BY <1>19 DEF AttemptFails
<1>20. ASSUME NEW p \in Payments, SessionExpires(p) PROVE Untouched'
  BY <1>20 DEF SessionExpires
<1>21. ASSUME NEW m \in net, LoseWebhook(m) PROVE Untouched'
  BY <1>21 DEF LoseWebhook
<1>22. CASE UNCHANGED vars
  BY <1>22 DEF vars
<1> QED
  BY <1>1, <1>2, <1>3, <1>4, <1>5, <1>6, <1>7, <1>8, <1>9, <1>10, <1>11, <1>12,
     <1>13, <1>14, <1>15, <1>16, <1>17, <1>18, <1>19, <1>20, <1>21, <1>22
  DEF Next, WorkerStep, WorkerStart, Gateway

MapInv == KeptInv /\ Untouched

LEMMA MapInvInductive ==
    ASSUME ~RetryAllowed, ~Officers
    PROVE  (Init => MapInv) /\ (MapInv /\ [Next]_vars => MapInv')
<1>1. Init => MapInv
  <2> SUFFICES ASSUME Init PROVE MapInv
    OBVIOUS
  <2>1. KeptInv
    BY KeptInvInductive
  <2> QED
    BY <2>1 DEF Init, MapInv, Untouched
<1>2. MapInv /\ [Next]_vars => MapInv'
  BY KeptInvInductive, UntouchedStep DEF MapInv
<1> QED
  BY <1>1, <1>2

-----------------------------------------------------------------------------
(* The mapping.                                                            *)

\* Initially nothing is requested and all money is expected.
LEMMA BooksInit == Init => Books!Init
  BY DEF Init, Books!Init, Record, Money

\* What a payment maps to depends on its status, its session and its failed
\* attempt only: a step that leaves them alone is a stutter.
LEMMA BooksStutter ==
    ASSUME UNCHANGED <<status, session, failed>> PROVE UNCHANGED Books!vars
  BY DEF Books!vars, Record, Money

\* A payment that is still to be decided is open for both outcomes.
LEMMA Undecided ==
    ASSUME MapInv, NEW p \in Payments, session[p] = "open", ~failed[p]
    PROVE  status[p] = "PROCESSING" /\ Record(p) = "pending" /\ Money(p) = "expected"
<1>1. status[p] = "PROCESSING"
  BY DEF MapInv, KeptInv, GiveUpInv, PaidInv, GivenUpKnown, Lost, Unopened, Started,
         Untouched, VerifiedOnlyIfPaid, TypeOK, Statuses
<1> QED
  BY <1>1 DEF Record, Money

\* Every step of the handlers, the gateway and the payer is a step of
\* OnlinePayment or leaves what it shows alone.
LEMMA BooksStep ==
    ASSUME ~RetryAllowed, ~Officers, MapInv, [Next]_vars
    PROVE  [Books!Next]_(Books!vars)
<1> DEFINE rec == [q \in Payments |-> Record(q)]
           mon == [q \in Payments |-> Money(q)]
<1>t. TypeOK /\ Untouched
  BY DEF MapInv, KeptInv, GiveUpInv, PaidInv
<1>k. \A w \in Workers : pc[w] # "idle" => job[w] \in Payments
  BY <1>t DEF TypeOK
<1>1. ASSUME NEW w \in Workers, NEW p \in Payments, StartCheckout(w, p)
      PROVE  Books!Request(p)
  <2>1. /\ status[p] = "NONE" /\ status' = [status EXCEPT ![p] = "PROCESSING"]
        /\ session' = session /\ failed' = failed
    BY <1>1 DEF StartCheckout
  <2>2. session[p] = "none" /\ ~failed[p]
    BY <1>t, <2>1 DEF MapInv, KeptInv, GiveUpInv, PaidInv, Started, Untouched
  <2>3. Record(p) = "none"
    BY <2>1 DEF Record
  <2>4. rec' = [rec EXCEPT ![p] = "pending"]
    BY <1>t, <2>1 DEF Record, TypeOK
  <2>5. mon' = mon
    BY <1>t, <2>1, <2>2 DEF Money, TypeOK
  <2> QED
    BY <2>3, <2>4, <2>5 DEF Books!Request
<1>2. ASSUME NEW w \in Workers, OpenSession(w)
      PROVE  UNCHANGED Books!vars
  <2>1. /\ pc[w] = "opening" /\ UNCHANGED <<status, failed>>
        /\ session' = session \/ session' = [session EXCEPT ![job[w]] = "open"]
    BY <1>2 DEF OpenSession, At, db
  <2>2. job[w] \in Payments /\ status[job[w]] = "PROCESSING"
        /\ session[job[w]] = "none" /\ ~failed[job[w]]
    BY <1>t, <1>k, <2>1 DEF MapInv, KeptInv, GiveUpInv, PaidInv, OpenedOnce, Untouched
  <2>3. rec' = rec
    BY <2>1 DEF Record
  <2>4. mon' = mon
    BY <1>t, <2>1, <2>2 DEF Money, TypeOK
  <2> QED
    BY <2>3, <2>4 DEF Books!vars
<1>3. ASSUME NEW w \in Workers, CheckoutRefused(w)
      PROVE  job[w] \in Payments /\ Books!Refuse(job[w])
  <2>1. /\ pc[w] = "refused" /\ status' = [status EXCEPT ![job[w]] = "FAILED"]
        /\ session' = session /\ failed' = failed
    BY <1>3 DEF CheckoutRefused, At, outer
  <2>2. job[w] \in Payments /\ status[job[w]] = "PROCESSING"
        /\ session[job[w]] = "none" /\ ~failed[job[w]]
    BY <1>t, <1>k, <2>1
    DEF MapInv, KeptInv, GiveUpInv, GivenUpKnown, Unopened, Untouched
  <2>3. Record(job[w]) = "pending" /\ Money(job[w]) = "expected"
    BY <2>2 DEF Record, Money
  <2>4. rec' = [rec EXCEPT ![job[w]] = "given up"]
    BY <1>t, <2>1, <2>2 DEF Record, TypeOK
  <2>5. mon' = [mon EXCEPT ![job[w]] = "lost"]
    BY <1>t, <2>1, <2>2 DEF Money, TypeOK
  <2> QED
    BY <2>2, <2>3, <2>4, <2>5 DEF Books!Refuse
<1>4. ASSUME NEW w \in Workers, MarkVerified(w)
      PROVE  UNCHANGED Books!vars \/ (job[w] \in Payments /\ Books!Settle(job[w]))
  <2>1. /\ pc[w] = "verify" /\ status' = [status EXCEPT ![job[w]] = "VERIFIED"]
        /\ session' = session /\ failed' = failed
    BY <1>4 DEF MarkVerified, At, outer
  <2>2. job[w] \in Payments /\ session[job[w]] = "paid" /\ status[job[w]] # "NONE"
    BY <1>k, <2>1 DEF MapInv, KeptInv, GiveUpInv, PaidInv, CollectionKnown, Started
  <2>3. status[job[w]] \in {"PROCESSING", "VERIFIED"}
    BY <1>t, <2>2 DEF MapInv, KeptInv, GiveUpInv, GivenUpKnown, Lost, Unopened,
                      Untouched, TypeOK, Statuses
  <2>4. Money(job[w]) = "collected" /\ mon' = mon
    BY <1>t, <2>1, <2>2 DEF Money, TypeOK
  <2>5. CASE status[job[w]] = "VERIFIED"
    <3>1. rec' = rec
      BY <1>t, <2>1, <2>2, <2>5 DEF Record, TypeOK
    <3> QED
      BY <2>4, <3>1 DEF Books!vars
  <2>6. CASE status[job[w]] = "PROCESSING"
    <3>1. Record(job[w]) = "pending"
      BY <2>6 DEF Record
    <3>2. rec' = [rec EXCEPT ![job[w]] = "booked"]
      BY <1>t, <2>1, <2>2 DEF Record, TypeOK
    <3> QED
      BY <2>2, <2>4, <3>1, <3>2 DEF Books!Settle
  <2> QED
    BY <2>3, <2>5, <2>6
<1>5. ASSUME NEW w \in Workers, Close(w)
      PROVE  UNCHANGED Books!vars \/ (job[w] \in Payments /\ Books!GiveUp(job[w]))
  <2>1. pc[w] = "close" /\ goal[w] \in {"FAILED", "EXPIRED"}
    BY <1>5 DEF Close, At, MapInv, KeptInv, Kept
  <2>2. /\ status' = [status EXCEPT ![job[w]] = goal[w]]
        /\ session' = session /\ failed' = failed
    BY <1>5, <2>1 DEF Close, outer
  <2>3. job[w] \in Payments /\ status[job[w]] # "NONE" /\ Lost(job[w])
    BY <1>k, <2>1 DEF MapInv, KeptInv, GiveUpInv, PaidInv, GivenUpKnown, Started
  <2>4. status[job[w]] \in {"PROCESSING", "FAILED", "EXPIRED"}
    BY <1>t, <2>3 DEF MapInv, KeptInv, GiveUpInv, PaidInv, VerifiedOnlyIfPaid, Lost,
                      Untouched, TypeOK, Statuses
  <2>5. Money(job[w]) = "lost" /\ mon' = mon
    BY <1>t, <2>1, <2>2, <2>3 DEF Money, Lost, TypeOK
  <2>6. CASE status[job[w]] = "PROCESSING"
    <3>1. Record(job[w]) = "pending"
      BY <2>6 DEF Record
    <3>2. rec' = [rec EXCEPT ![job[w]] = "given up"]
      BY <1>t, <2>1, <2>2, <2>3 DEF Record, TypeOK
    <3> QED
      BY <2>3, <2>5, <3>1, <3>2 DEF Books!GiveUp
  <2>7. CASE status[job[w]] \in {"FAILED", "EXPIRED"}
    <3>1. rec' = rec
      BY <1>t, <2>1, <2>2, <2>3, <2>7 DEF Record, TypeOK
    <3> QED
      BY <2>5, <3>1 DEF Books!vars
  <2> QED
    BY <2>4, <2>6, <2>7
<1>6. ASSUME NEW p \in Payments, Pay(p) PROVE Books!Collect(p)
  <2>1. /\ session[p] = "open" /\ session' = [session EXCEPT ![p] = "paid"] /\ ~failed[p]
        /\ status' = status /\ failed' = failed
    BY <1>6 DEF Pay, db
  <2>2. Record(p) = "pending" /\ Money(p) = "expected"
    BY <2>1, Undecided
  <2>3. rec' = rec /\ mon' = [mon EXCEPT ![p] = "collected"]
    BY <1>t, <2>1 DEF Record, Money, TypeOK
  <2> QED
    BY <2>2, <2>3 DEF Books!Collect
<1>7. ASSUME NEW p \in Payments, AttemptFails(p)
      PROVE  UNCHANGED Books!vars \/ Books!Lose(p)
  <2>1. /\ session[p] = "open" /\ failed' = [failed EXCEPT ![p] = TRUE]
        /\ status' = status /\ session' = session
    BY <1>7 DEF AttemptFails, db
  <2>2. rec' = rec /\ mon' = [mon EXCEPT ![p] = "lost"]
    BY <1>t, <2>1 DEF Record, Money, TypeOK
  <2>3. CASE failed[p]
    <3>1. mon' = mon
      BY <2>1, <2>2, <2>3 DEF Money
    <3> QED
      BY <2>2, <3>1 DEF Books!vars
  <2>4. CASE ~failed[p]
    <3>1. Record(p) = "pending" /\ Money(p) = "expected"
      BY <2>1, <2>4, Undecided
    <3> QED
      BY <2>2, <3>1 DEF Books!Lose
  <2> QED
    BY <2>3, <2>4
<1>8. ASSUME NEW p \in Payments, SessionExpires(p)
      PROVE  UNCHANGED Books!vars \/ Books!Lose(p)
  <2>1. /\ session[p] = "open" /\ session' = [session EXCEPT ![p] = "expired"]
        /\ status' = status /\ failed' = failed
    BY <1>8 DEF SessionExpires, db
  <2>2. rec' = rec /\ mon' = [mon EXCEPT ![p] = "lost"]
    BY <1>t, <2>1 DEF Record, Money, TypeOK
  <2>3. CASE failed[p]
    <3>1. mon' = mon
      BY <2>1, <2>2, <2>3 DEF Money
    <3> QED
      BY <2>2, <3>1 DEF Books!vars
  <2>4. CASE ~failed[p]
    <3>1. Record(p) = "pending" /\ Money(p) = "expected"
      BY <2>1, <2>4, Undecided
    <3> QED
      BY <2>2, <3>1 DEF Books!Lose
  <2> QED
    BY <2>3, <2>4
<1>9. ASSUME NEW w \in Workers,
             \/ LinkSession(w) \/ Retrieve(w) \/ GatewayUnreachable(w) \/ Refind(w)
             \/ ReverseAllocations(w) \/ ReverseForPayment(w)
             \/ SyncRead(w) \/ SyncSum(w) \/ SyncWrite(w)
      PROVE  UNCHANGED Books!vars
  <2>1. UNCHANGED <<status, session, failed>>
    BY <1>9 DEF LinkSession, Retrieve, GatewayUnreachable, Refind, ReverseAllocations,
                ReverseForPayment, SyncRead, SyncSum, SyncWrite, db, outer
  <2> QED
    BY <2>1, BooksStutter
<1>10. ASSUME NEW w \in Workers, NEW p \in Payments,
              \/ ReceivePaid(w, p) \/ Poll(w, p)
              \/ \E o \in {"FAILED", "EXPIRED"} : ReceiveUnpaid(w, p, o)
              \/ \E o \in {"REFUNDED", "CANCELLED", "DELETED"} : StartUndo(w, p, o)
       PROVE  UNCHANGED Books!vars
  <2>1. UNCHANGED <<status, session, failed>>
    BY <1>10 DEF ReceivePaid, Poll, ReceiveUnpaid, StartUndo, db, outer
  <2> QED
    BY <2>1, BooksStutter
<1>11. ASSUME Crash \/ (\E m \in net : LoseWebhook(m)) \/ UNCHANGED vars
       PROVE  UNCHANGED Books!vars
  <2>1. UNCHANGED <<status, session, failed>>
    BY <1>11 DEF Crash, LoseWebhook, vars, db, outer
  <2> QED
    BY <2>1, BooksStutter
<1>12. (\E p \in Payments : Books!Request(p) \/ Books!Refuse(p) \/ Books!Collect(p)
                         \/ Books!Lose(p) \/ Books!Settle(p) \/ Books!GiveUp(p))
         => Books!Next
  BY DEF Books!Next
<1>13. CASE \E w \in Workers : WorkerStep(w)
  <2> PICK w \in Workers : WorkerStep(w)
    BY <1>13
  <2> QED
    BY <1>2, <1>3, <1>4, <1>5, <1>9, <1>12 DEF WorkerStep
<1>14. CASE \E w \in Workers : \E p \in Payments : WorkerStart(w, p)
  <2> PICK w \in Workers, p \in Payments : WorkerStart(w, p)
    BY <1>14
  <2> QED
    BY <1>1, <1>10, <1>12 DEF WorkerStart
<1>15. CASE Gateway
  BY <1>6, <1>7, <1>8, <1>11, <1>12, <1>15 DEF Gateway
<1> QED
  BY <1>11, <1>13, <1>14, <1>15 DEF Next

\* Without officers and with one attempt per session, whatever is lost, late,
\* repeated or interrupted: what is booked was collected, what is given up cannot
\* be collected any more, and neither is ever taken back.
THEOREM GatewayImplementsOnlinePayment ==
    ASSUME ~RetryAllowed, ~Officers PROVE Spec => Books!Spec
<1>1. Spec => []MapInv
  BY MapInvInductive, PTL DEF Spec
<1>2. MapInv /\ [Next]_vars => [Books!Next]_(Books!vars)
  BY BooksStep
<1> QED
  BY <1>1, <1>2, BooksInit, PTL DEF Spec, Books!Spec
=============================================================================
