------------------------- MODULE GatewaySettlement -------------------------
(***************************************************************************)
(* How an online payment leaves PROCESSING.  A resident's checkout is      *)
(* created, the payment gateway runs its session and sends webhooks        *)
(* (at least once, in any order, or never), residents ask for a sync, a    *)
(* five-minute sweep polls the gateway, and officers may refund, cancel or *)
(* delete the payment meanwhile.                                           *)
(*                                                                         *)
(* The handlers of finance/payments.service.ts run here one database call  *)
(* (one await) at a time, interleaved, because none of them holds a        *)
(* transaction or a lock across its calls.  Money is abstracted to the     *)
(* set of payments a stored paidAmount adds up.                            *)
(*                                                                         *)
(* Where a definition has a variant, the variant stands before it:         *)
(* TakeUnfound is Take with one plausible slip in it, and no other         *)
(* definition uses it.                                                     *)
(***************************************************************************)
EXTENDS Integers

CONSTANTS
    Payments,     \* online payments
    Assessments,  \* assessments they pay
    Target,       \* Target[p]: the assessment payment p pays
    NoPayment,    \* what an idle worker works on
    Workers,      \* request handlers and cron jobs that may be in flight
    RetryAllowed, \* may a session with a failed attempt still be paid?
    Officers,     \* do officers refund, cancel and delete online payments?
    MaxCrashes    \* bound on restarts of the server process

ASSUME GatewayConstants ==
    /\ Target \in [Payments -> Assessments]
    /\ NoPayment \notin Payments
    /\ RetryAllowed \in BOOLEAN
    /\ Officers \in BOOLEAN
    /\ MaxCrashes \in Nat

VARIABLES
    status,   \* status[p]: Payment.status, "NONE" before the row exists
    deleted,  \* deleted[p]: deletedAt is set
    linked,   \* linked[p]: gatewayId and expiresAt are stored
    row,      \* row[p]: p's allocation is not reversed
    held,     \* held[p]: the credit spent for p is not given back
    paid,     \* paid[a]: the payments a's stored paidAmount adds up
    session,  \* session[p]: the gateway's checkout session
    failed,   \* failed[p]: the session records a failed attempt
    net,      \* webhooks the gateway may (re)deliver
    pc,       \* pc[w]: what worker w does next
    job,      \* job[w]: the payment w works on
    goal,     \* goal[w]: the outcome w is about to write
    seen,     \* seen[w]: paidAmount as w read it
    total,    \* total[w]: the sum of allocations as w read it
    crashes,  \* restarts so far
    overtaken, \* history: overtaken[w]: another handler has written what w read
    suspect   \* history: assessments whose last sync was overtaken or cut off

db    == <<status, deleted, linked, row, held, paid>>
outer == <<session, failed, net>>
local == <<pc, job, goal, seen, total>>
past  == <<overtaken, suspect>>
vars  == <<status, deleted, linked, row, held, paid, session, failed, net,
           pc, job, goal, seen, total, crashes, overtaken, suspect>>

Statuses == {"NONE", "PROCESSING", "VERIFIED", "FAILED", "EXPIRED",
             "REFUNDED", "CANCELLED"}
Goals    == {"VERIFIED", "FAILED", "EXPIRED", "REFUNDED", "CANCELLED", "DELETED"}
Labels   == {"idle", "opening", "linking", "refused", "retrieve", "refind",
             "verify", "reverse", "release", "close", "read", "sum", "write"}
Webhooks == [type : {"VERIFIED", "FAILED", "EXPIRED"}, payment : Payments]

TypeOK ==
    /\ status \in [Payments -> Statuses]
    /\ deleted \in [Payments -> BOOLEAN]
    /\ linked \in [Payments -> BOOLEAN]
    /\ row \in [Payments -> BOOLEAN]
    /\ held \in [Payments -> BOOLEAN]
    /\ paid \in [Assessments -> SUBSET Payments]
    /\ session \in [Payments -> {"none", "open", "paid", "expired"}]
    /\ failed \in [Payments -> BOOLEAN]
    /\ net \subseteq Webhooks
    /\ pc \in [Workers -> Labels]
    /\ job \in [Workers -> Payments \cup {NoPayment}]
    /\ \A w \in Workers : pc[w] # "idle" => job[w] \in Payments
    /\ goal \in [Workers -> Goals]
    /\ seen \in [Workers -> SUBSET Payments]
    /\ total \in [Workers -> SUBSET Payments]
    /\ crashes \in Nat
    /\ overtaken \in [Workers -> BOOLEAN]
    /\ suspect \subseteq Assessments

Init ==
    /\ status = [p \in Payments |-> "NONE"]
    /\ deleted = [p \in Payments |-> FALSE]
    /\ linked = [p \in Payments |-> FALSE]
    /\ row = [p \in Payments |-> FALSE]
    /\ held = [p \in Payments |-> FALSE]
    /\ paid = [a \in Assessments |-> {}]
    /\ session = [p \in Payments |-> "none"]
    /\ failed = [p \in Payments |-> FALSE]
    /\ net = {}
    /\ pc = [w \in Workers |-> "idle"]
    /\ job = [w \in Workers |-> NoPayment]
    /\ goal = [w \in Workers |-> "VERIFIED"]
    /\ seen = [w \in Workers |-> {}]
    /\ total = [w \in Workers |-> {}]
    /\ crashes = 0
    /\ overtaken = [w \in Workers |-> FALSE]
    /\ suspect = {}

\* What the ledger holds for a: live rows of VERIFIED, undeleted payments.
Ledger(a) == {p \in Payments : /\ Target[p] = a
                               /\ status[p] = "VERIFIED"
                               /\ ~deleted[p]
                               /\ row[p]}

\* The guard every gateway transition reads before it writes.
Pending(p) == status[p] = "PROCESSING" /\ ~deleted[p]

-----------------------------------------------------------------------------
(* Worker steps.                                                           *)

Goto(w, label) == pc' = [pc EXCEPT ![w] = label]

At(w, label) == pc[w] = label

Stay == UNCHANGED <<job, goal, seen, total, crashes>>

\* History, which no step depends on: w writes what the workers in others have
\* read and not yet acted on.  What w itself had read is used up.
Overtake(w, others) ==
    overtaken' = [v \in Workers |-> v # w /\ (overtaken[v] \/ v \in others)]

\* The workers about to verify w's payment, ...
Verifying(w) == {v \in Workers : pc[v] = "verify" /\ job[v] = job[w]}

\* ... and those that have begun to compute the paidAmount w stores.
Summing(w) == {v \in Workers : /\ pc[v] \in {"sum", "write"}
                               /\ Target[job[v]] = Target[job[w]]}

\* The handler returns and its local variables go out of scope.
Return(w) ==
    /\ Goto(w, "idle")
    /\ job' = [job EXCEPT ![w] = NoPayment]
    /\ goal' = [goal EXCEPT ![w] = "VERIFIED"]
    /\ seen' = [seen EXCEPT ![w] = {}]
    /\ total' = [total EXCEPT ![w] = {}]
    /\ UNCHANGED crashes

\* Take when the row that was not found is not checked for.
TakeUnfound(w, p, outcome, label) ==
    /\ pc' = [pc EXCEPT ![w] = label]
    /\ goal' = [goal EXCEPT ![w] = outcome]
    /\ UNCHANGED <<job, seen, total, crashes>>

\* A worker takes a job whose first read has passed its guard.
Take(w, p, outcome, label) ==
    /\ pc' = [pc EXCEPT ![w] = label]
    /\ job' = [job EXCEPT ![w] = p]
    /\ goal' = [goal EXCEPT ![w] = outcome]
    /\ UNCHANGED <<seen, total, crashes>>

\* createGatewayCheckout: the row, its allocation and the credit it uses are
\* one transaction ...
StartCheckout(w, p) ==
    /\ At(w, "idle")
    /\ status[p] = "NONE"
    /\ status' = [status EXCEPT ![p] = "PROCESSING"]
    /\ row' = [row EXCEPT ![p] = TRUE]
    /\ held' = [held EXCEPT ![p] = TRUE]
    /\ Take(w, p, "VERIFIED", "opening")
    /\ UNCHANGED <<deleted, linked, paid, session, failed, net, past>>

\* ... then the gateway is called ...
OpenSession(w) ==
    /\ At(w, "opening")
    /\ \/ /\ session' = [session EXCEPT ![job[w]] = "open"]
          /\ Goto(w, "linking")
       \/ /\ UNCHANGED session
          /\ Goto(w, "refused")
    /\ UNCHANGED <<db, failed, net, past>> /\ Stay

\* ... and the session is stored on the row, or the row becomes FAILED.
LinkSession(w) ==
    /\ At(w, "linking")
    /\ linked' = [linked EXCEPT ![job[w]] = TRUE]
    /\ Return(w)
    /\ UNCHANGED <<status, deleted, row, held, paid, outer, past>>

CheckoutRefused(w) ==
    /\ At(w, "refused")
    /\ status' = [status EXCEPT ![job[w]] = "FAILED"]
    /\ Return(w)
    /\ Overtake(w, Verifying(w))
    /\ UNCHANGED <<deleted, linked, row, held, paid, outer, suspect>>

\* ReceivePaid when the status of the row is not looked at.
ReceivePaidUnguarded(w, p) ==
    /\ At(w, "idle")
    /\ [type |-> "VERIFIED", payment |-> p] \in net
    /\ status[p] # "NONE" /\ ~deleted[p]
    /\ Take(w, p, "VERIFIED", "verify")
    /\ UNCHANGED <<db, outer, past>>

\* The webhook controller.  A paid event finds the payment by gateway id or by
\* the id in its metadata; the others by gateway id only.  The gateway may
\* deliver the event again.
ReceivePaid(w, p) ==
    /\ At(w, "idle")
    /\ [type |-> "VERIFIED", payment |-> p] \in net
    /\ Pending(p)
    /\ Take(w, p, "VERIFIED", "verify")
    /\ UNCHANGED <<db, outer, past>>

ReceiveUnpaid(w, p, outcome) ==
    /\ At(w, "idle")
    /\ [type |-> outcome, payment |-> p] \in net
    /\ linked[p]
    /\ Pending(p)
    /\ Take(w, p, outcome, "reverse")
    /\ UNCHANGED <<db, outer, past>>

\* settleGatewaySession, from the sync endpoint at any time or from the sweep
\* an hour after the session was stored: read, ask the gateway, read again.
Poll(w, p) ==
    /\ At(w, "idle")
    /\ linked[p]
    /\ Pending(p)
    /\ Take(w, p, "VERIFIED", "retrieve")
    /\ UNCHANGED <<db, outer, past>>

\* Answer when whatever is not paid counts as expired.
AnswerByElimination(p) == IF session[p] = "paid" THEN "VERIFIED" ELSE "EXPIRED"

\* Answer when whatever is not expired counts as paid.
AnswerOptimistic(p) ==
    IF session[p] = "expired" \/ failed[p] THEN "EXPIRED" ELSE "VERIFIED"

Answer(p) == CASE session[p] = "paid" -> "VERIFIED"
               [] session[p] = "expired" \/ failed[p] -> "EXPIRED"
               [] OTHER -> "PENDING"

Retrieve(w) ==
    /\ At(w, "retrieve")
    /\ IF Answer(job[w]) = "PENDING"
       THEN Return(w)
       ELSE /\ Goto(w, "refind")
            /\ goal' = [goal EXCEPT ![w] = Answer(job[w])]
            /\ UNCHANGED <<job, seen, total, crashes>>
    /\ UNCHANGED <<db, outer, past>>

GatewayUnreachable(w) ==
    /\ At(w, "retrieve")
    /\ Return(w)
    /\ UNCHANGED <<db, outer, past>>

\* Refind when an expired session is not acted on.
RefindPaidOnly(w) ==
    /\ At(w, "refind")
    /\ \/ (~Pending(job[w]) \/ goal[w] # "VERIFIED") /\ Return(w)
       \/ /\ Pending(job[w]) /\ goal[w] = "VERIFIED"
          /\ Goto(w, "verify")
          /\ Stay
    /\ UNCHANGED <<db, outer, past>>

Refind(w) ==
    /\ At(w, "refind")
    /\ \/ ~Pending(job[w]) /\ Return(w)
       \/ /\ Pending(job[w])
          /\ Goto(w, IF goal[w] = "VERIFIED" THEN "verify" ELSE "reverse")
          /\ Stay
    /\ UNCHANGED <<db, outer, past>>

\* An officer refunds or cancels a verified payment, or deletes any payment.
StartUndo(w, p, outcome) ==
    /\ Officers
    /\ At(w, "idle")
    /\ ~deleted[p]
    /\ status[p] = "VERIFIED" \/ (outcome = "DELETED" /\ status[p] # "NONE")
    /\ Take(w, p, outcome, "reverse")
    /\ UNCHANGED <<db, outer, past>>

-----------------------------------------------------------------------------
(* The tails the handlers share.                                           *)

\* MarkVerified when nothing is synchronised afterwards.
MarkVerifiedUnsynced(w) ==
    /\ At(w, "verify")
    /\ status' = [status EXCEPT ![job[w]] = "VERIFIED"]
    /\ Return(w)
    /\ Overtake(w, {})
    /\ UNCHANGED <<deleted, linked, row, held, paid, outer, suspect>>

\* markGatewaySucceededForPayment writes without looking again.
MarkVerified(w) ==
    /\ At(w, "verify")
    /\ status' = [status EXCEPT ![job[w]] = "VERIFIED"]
    /\ Goto(w, "read")
    /\ Overtake(w, {})
    /\ UNCHANGED <<deleted, linked, row, held, paid, outer, suspect>> /\ Stay

\* ReverseAllocations when the call is missing.
SkipReverse(w) ==
    /\ At(w, "reverse")
    /\ Goto(w, "release")
    /\ UNCHANGED <<db, outer, past>> /\ Stay

ReverseAllocations(w) ==
    /\ At(w, "reverse")
    /\ row' = [row EXCEPT ![job[w]] = FALSE]
    /\ Goto(w, "release")
    /\ UNCHANGED <<status, deleted, linked, held, paid, outer, past>> /\ Stay

ReverseForPayment(w) ==
    /\ At(w, "release")
    /\ held' = [held EXCEPT ![job[w]] = FALSE]
    /\ Goto(w, "close")
    /\ UNCHANGED <<status, deleted, linked, row, paid, outer, past>> /\ Stay

Close(w) ==
    /\ At(w, "close")
    /\ IF goal[w] = "DELETED"
       THEN /\ deleted' = [deleted EXCEPT ![job[w]] = TRUE]
            /\ UNCHANGED status
       ELSE /\ status' = [status EXCEPT ![job[w]] = goal[w]]
            /\ UNCHANGED deleted
    /\ Goto(w, "read")
    /\ Overtake(w, Verifying(w))
    /\ UNCHANGED <<linked, row, held, paid, outer, suspect>> /\ Stay

\* syncAssessment: read the assessment, add up the allocations, write if
\* anything differs from what was read.
SyncRead(w) ==
    /\ At(w, "read")
    /\ seen' = [seen EXCEPT ![w] = paid[Target[job[w]]]]
    /\ Goto(w, "sum")
    /\ UNCHANGED <<db, outer, job, goal, total, crashes, past>>

SyncSum(w) ==
    /\ At(w, "sum")
    /\ total' = [total EXCEPT ![w] = Ledger(Target[job[w]])]
    /\ Goto(w, "write")
    /\ UNCHANGED <<db, outer, job, goal, seen, crashes, past>>

SyncWrite(w) ==
    /\ At(w, "write")
    /\ IF total[w] # seen[w]
       THEN paid' = [paid EXCEPT ![Target[job[w]]] = total[w]]
       ELSE UNCHANGED paid
    /\ Return(w)
    /\ Overtake(w, Summing(w))
    /\ suspect' = IF overtaken[w] THEN suspect \cup {Target[job[w]]}
                                  ELSE suspect \ {Target[job[w]]}
    /\ UNCHANGED <<status, deleted, linked, row, held, outer>>

WorkerStep(w) ==
    \/ OpenSession(w) \/ LinkSession(w) \/ CheckoutRefused(w)
    \/ Retrieve(w) \/ GatewayUnreachable(w) \/ Refind(w)
    \/ MarkVerified(w) \/ ReverseAllocations(w) \/ ReverseForPayment(w)
    \/ Close(w) \/ SyncRead(w) \/ SyncSum(w) \/ SyncWrite(w)

WorkerStart(w, p) ==
    \/ StartCheckout(w, p) \/ ReceivePaid(w, p) \/ Poll(w, p)
    \/ \E o \in {"FAILED", "EXPIRED"} : ReceiveUnpaid(w, p, o)
    \/ \E o \in {"REFUNDED", "CANCELLED", "DELETED"} : StartUndo(w, p, o)

\* Where a handler is past its first write to what an assessment's paidAmount adds
\* up, and has not yet stored the new amount.
Unfinished == {"release", "close", "read", "sum", "write"}

Unsettled(a) == \E w \in Workers : pc[w] \in Unfinished /\ Target[job[w]] = a

\* The server process dies: every request in flight is forgotten.
Crash ==
    /\ crashes < MaxCrashes
    /\ crashes' = crashes + 1
    /\ pc' = [w \in Workers |-> "idle"]
    /\ job' = [w \in Workers |-> NoPayment]
    /\ goal' = [w \in Workers |-> "VERIFIED"]
    /\ seen' = [w \in Workers |-> {}]
    /\ total' = [w \in Workers |-> {}]
    /\ overtaken' = [w \in Workers |-> FALSE]
    /\ suspect' = suspect \cup {a \in Assessments : Unsettled(a)}
    /\ UNCHANGED <<db, outer>>

-----------------------------------------------------------------------------
(* The gateway and the resident in front of it.                            *)

Send(type, p) == net' = net \cup {[type |-> type, payment |-> p]}

\* The resident pays; the page is reachable once the session is stored.
Pay(p) ==
    /\ session[p] = "open" /\ linked[p]
    /\ failed[p] => RetryAllowed
    /\ session' = [session EXCEPT ![p] = "paid"]
    /\ Send("VERIFIED", p)
    /\ UNCHANGED <<db, failed, local, crashes, past>>

AttemptFails(p) ==
    /\ session[p] = "open" /\ linked[p]
    /\ failed' = [failed EXCEPT ![p] = TRUE]
    /\ Send("FAILED", p)
    /\ UNCHANGED <<db, session, local, crashes, past>>

SessionExpires(p) ==
    /\ session[p] = "open"
    /\ session' = [session EXCEPT ![p] = "expired"]
    /\ Send("EXPIRED", p)
    /\ UNCHANGED <<db, failed, local, crashes, past>>

LoseWebhook(m) ==
    /\ m \in net
    /\ net' = net \ {m}
    /\ UNCHANGED <<db, session, failed, local, crashes, past>>

Gateway ==
    \/ \E p \in Payments : Pay(p) \/ AttemptFails(p) \/ SessionExpires(p)
    \/ \E m \in net : LoseWebhook(m)

Next ==
    \/ \E w \in Workers : WorkerStep(w) \/ \E p \in Payments : WorkerStart(w, p)
    \/ Crash
    \/ Gateway

Spec == Init /\ [][Next]_vars
\* What the scheduling gives: a handler that started goes on (until a crash);
\* the sweep comes back to every open payment every five minutes and the
\* gateway answers it again and again; a session does not stay open for ever.
Fairness ==
    /\ \A w \in Workers : WF_vars(WorkerStep(w))
    /\ \A p \in Payments :
          /\ WF_vars(SessionExpires(p))
          /\ SF_vars(\E w \in Workers : Poll(w, p))
          /\ SF_vars(\E w \in Workers : job[w] = p /\ Retrieve(w))

FairSpec == Spec /\ Fairness

-----------------------------------------------------------------------------
(* Properties.                                                             *)

\* Money is never booked that the gateway did not collect: a payment is
\* VERIFIED only if its session was paid, for every interleaving of webhooks,
\* polls, officers and crashes (payments.service.ts:576-594, 743-747).
VerifiedOnlyIfPaid == \A p \in Payments : status[p] = "VERIFIED" => session[p] = "paid"

\* A payment that expired, was refunded, cancelled or deleted holds neither an
\* allocation nor credit, even when a crash or another handler came between
\* the calls that undo it (payments.service.ts:653-664, 1487-1504).
ClosedHoldsNothing ==
    \A p \in Payments :
        deleted[p] \/ status[p] \in {"EXPIRED", "REFUNDED", "CANCELLED"}
            => ~row[p] /\ ~held[p]

\* A session that was paid is never given up as failed or expired
\* (payments.service.ts:734-735: "rather than risking a wrongly-expired record
\* for a paid session").
GaveUpOnlyIfUnpaid ==
    \A p \in Payments : status[p] \in {"FAILED", "EXPIRED"} => session[p] # "paid"

\* As long as no officer interferes, a VERIFIED payment keeps the allocation
\* and the credit it was created with: no losing handler reverses them.
VerifiedKeepsItsMoney ==
    \A p \in Payments : status[p] = "VERIFIED" => row[p] /\ held[p]

\* The stored paidAmount of an assessment is what its VERIFIED allocations add up
\* to, for every interleaving of the handlers that recompute it, unless a handler
\* is about to store it, a restart cut such a handler off, or two computations of
\* it overlapped; and the next one that nobody overtakes puts it right
\* (finance-sync.service.ts:54-113, payments.service.ts:594-596, 661-669).
SyncedUnlessOverlapped ==
    \A a \in Assessments : Unsettled(a) \/ a \in suspect \/ paid[a] = Ledger(a)

\* When no handler is in flight, the stored paidAmount of every assessment is
\* what its VERIFIED allocations add up to (finance-sync.service.ts:48-49:
\* "Recompute an assessment's paidAmount + status from its VERIFIED payment
\* allocations").
QuietMeansSynced ==
    (\A w \in Workers : pc[w] = "idle") => \A a \in Assessments : paid[a] = Ledger(a)

\* A payment that reached a final status other than VERIFIED, or was deleted, is
\* verified afterwards only by a handler that had read it before
\* (payments-gateway-transitions.spec.ts:157: "does not re-verify an already-final
\* payment").
FinalIsNotReverified ==
    [][\A p \in Payments :
          (deleted[p] \/ status[p] \in {"FAILED", "EXPIRED", "REFUNDED", "CANCELLED"})
              => \/ status'[p] # "VERIFIED" \/ status[p] = "VERIFIED"
                 \/ \E w \in Workers : At(w, "verify") /\ job[w] = p /\ overtaken[w]]_vars

\* Once its session is stored, a payment leaves PROCESSING, whatever webhooks
\* are lost and wherever the server crashed (payments.service.ts:678-680).
LinkedIsSettled ==
    \A p \in Payments :
        linked[p] /\ status[p] = "PROCESSING" ~> status[p] # "PROCESSING"

\* The payments as a household sees them.
Record(p) == IF status[p] = "NONE" THEN "none"
             ELSE IF status[p] = "PROCESSING" THEN "pending"
             ELSE IF status[p] = "VERIFIED" THEN "booked"
             ELSE "given up"

Money(p) == IF session[p] = "paid" THEN "collected"
            ELSE IF session[p] = "expired" \/ failed[p] THEN "lost"
            ELSE IF session[p] = "none" /\ status[p] = "FAILED" THEN "lost"
            ELSE "expected"

Books == INSTANCE OnlinePayment WITH
    record <- [p \in Payments |-> Record(p)],
    money <- [p \in Payments |-> Money(p)]

\* As long as no officer interferes, and a failed attempt ends its session, the
\* handlers, webhooks and polls implement OnlinePayment: whatever is lost, late or
\* interrupted, collected money is booked in the end and for good, and nothing
\* else is (payments.service.ts:560-672, 734-747).
ImplementsOnlinePayment == Books!FairSpec
=============================================================================
