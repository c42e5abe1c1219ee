----------------------- MODULE SubscriptionInvoices -----------------------
(***************************************************************************)
(* The subscription invoices of one community: paid by hand or through a   *)
(* checkout session at the gateway, voided, made overdue by the nightly    *)
(* sweep, which suspends the community, written off by an exemption, and   *)
(* entered as an expense of the community once paid                        *)
(* (subscriptions/invoices.service.ts, subscriptions/billing.service.ts,   *)
(* finance/expenses.service.ts, admin/admin.service.ts,                    *)
(* gateway-webhook/gateway-webhook.controller.ts).                         *)
(*                                                                         *)
(* One database or gateway call per step; a handler works on the row it    *)
(* read.  Sessions belong to the gateway.  overtaken, excused and missed   *)
(* are history.                                                            *)
(***************************************************************************)
EXTENDS Integers, FiniteSets

CONSTANTS
    Invoices,    \* invoices of the community
    MaxSessions, \* bound on checkout sessions
    Workers,     \* requests, webhooks and cron jobs that may be in flight
    NoInvoice    \* what an idle worker works on

ASSUME InvoiceConstants ==
    /\ NoInvoice \notin Invoices
    /\ MaxSessions \in Nat

Sessions == 1 .. MaxSessions

VARIABLES
    inv,       \* inv[i]: Invoice.status, none before it is issued, or deleted
    link,      \* link[i]: Invoice.gatewayInvoiceId, 0 if null
    suspended, \* Community.status is INACTIVE for "unpaid"
    exempt,    \* a BillingExemption of the community is running
    trial,     \* Subscription.status is TRIAL, not ACTIVE or over
    expense,   \* expense[i]: how many expenses are entered for invoice i
    sess,      \* sess[s]: the session as the gateway knows it
    payee,     \* payee[s]: the invoice s was opened for
    pc,        \* pc[w]: what worker w does next
    on,        \* on[w]: the invoice it works on
    with,      \* with[w]: the session it works with, or 0
    was,       \* was[w]: the status a refused checkout goes back to
    onTrial,   \* onTrial[w]: markPaid read a TRIAL subscription
    taken,     \* taken[w]: the expense number w holds has been used
    overtaken, \* overtaken[w]: what w read is not so any more
    excused,   \* the community is suspended for nothing, for a known reason
    missed     \* paid invoices whose expense was not entered, for a known reason

rows    == <<inv, link, suspended, exempt, trial, expense>>
gateway == <<sess, payee>>
locals  == <<on, with, was, onTrial>>
vars == <<inv, link, suspended, exempt, trial, expense, sess, payee, pc, on, with, was,
          onTrial, taken, overtaken, excused, missed>>

\* What is owed, and what may be paid: a draft and a waived invoice too.
Owed    == {"ISSUED", "OVERDUE", "PROCESSING"}
Payable == Owed \cup {"DRAFT", "WAIVED"}
Labels  == {"idle", "opening", "linking", "paying", "payingByHand", "activating",
            "reactivating", "recording", "numbering", "storing", "retrieving",
            "findingPaid", "findingUnpaid", "clearing", "voiding",
            "sweeping", "counting", "suspending", "exempting", "exemptingSuspended",
            "reinstating", "waiving"}

\* Among others: no invoice is PROCESSING without a session.
TypeOK ==
    /\ inv \in [Invoices -> Payable \cup {"none", "PAID", "VOID", "DELETED"}]
    /\ link \in [Invoices -> Sessions \cup {0}]
    /\ \A i \in Invoices : inv[i] = "PROCESSING" => link[i] # 0
    /\ suspended \in BOOLEAN /\ exempt \in BOOLEAN /\ trial \in BOOLEAN
    /\ expense \in [Invoices -> Nat] /\ missed \subseteq Invoices
    /\ sess \in [Sessions -> {"none", "open", "failed", "paid", "paidLater", "expired"}]
    /\ payee \in [Sessions -> Invoices \cup {NoInvoice}]
    /\ pc \in [Workers -> Labels]
    /\ on \in [Workers -> Invoices \cup {NoInvoice}]
    /\ with \in [Workers -> Sessions \cup {0}]
    /\ was \in [Workers -> Payable \cup {"none"}]
    /\ onTrial \in [Workers -> BOOLEAN] /\ taken \in [Workers -> BOOLEAN]
    /\ overtaken \in [Workers -> BOOLEAN] /\ excused \in BOOLEAN

Init ==
    /\ inv = [i \in Invoices |-> "none"] /\ link = [i \in Invoices |-> 0]
    /\ suspended = FALSE /\ exempt = FALSE /\ trial \in BOOLEAN
    /\ expense = [i \in Invoices |-> 0]
    /\ sess = [s \in Sessions |-> "none"] /\ payee = [s \in Sessions |-> NoInvoice]
    /\ pc = [w \in Workers |-> "idle"] /\ on = [w \in Workers |-> NoInvoice]
    /\ with = [w \in Workers |-> 0] /\ was = [w \in Workers |-> "none"]
    /\ onTrial = [w \in Workers |-> FALSE] /\ taken = [w \in Workers |-> FALSE]
    /\ overtaken = [w \in Workers |-> FALSE]
    /\ excused = FALSE /\ missed = {}

-----------------------------------------------------------------------------
At(w, label) == pc[w] = label

Unpaid  == {i \in Invoices : inv[i] \in Owed}
Overdue == {i \in Invoices : inv[i] = "OVERDUE"}

\* Workers that will reactivate the community, and those with an expense ahead.
Reactivating == {w \in Workers : pc[w] \in {"activating", "reactivating"}}
Recording == {w \in Workers : pc[w] \in {"activating", "reactivating", "recording",
                                         "numbering", "storing"}}

\* Workers that will write invoice i, or suspend for the overdue ones.
Writing(i) == {w \in Workers : on[w] = i /\ pc[w] \in
    {"opening", "linking", "paying", "payingByHand", "clearing", "voiding"}}
Suspending == {w \in Workers : pc[w] = "suspending"}

Begin(w, label, i, s) ==
    /\ At(w, "idle")
    /\ pc' = [pc EXCEPT ![w] = label]
    /\ on' = [on EXCEPT ![w] = i] /\ with' = [with EXCEPT ![w] = s]
    /\ UNCHANGED <<rows, gateway, was, onTrial, taken, overtaken, excused, missed>>

\* The handler goes on, or returns and forgets.
Goto(w, label) ==
    /\ pc' = [pc EXCEPT ![w] = label]
    /\ IF label # "idle" THEN UNCHANGED <<locals, taken>>
       ELSE /\ on' = [on EXCEPT ![w] = NoInvoice] /\ with' = [with EXCEPT ![w] = 0]
            /\ was' = [was EXCEPT ![w] = "none"]
            /\ onTrial' = [onTrial EXCEPT ![w] = FALSE]
            /\ taken' = [taken EXCEPT ![w] = FALSE]

\* A suspended community that owes nothing is excused by the step that made it
\* so, as long as nothing changes.
Excuse(byThisStep) ==
    excused' = (suspended' /\ Unpaid' = {} /\ (excused \/ byThisStep))

\* Whoever read one of these invoices, or the overdue ones among them, is
\* overtaken when w writes them.
Overtakes(w, written, overdue) ==
    overtaken' = [v \in Workers |->
        /\ v # w
        /\ \/ overtaken[v]
           \/ \E i \in written : v \in Writing(i)
           \/ overdue /\ v \in Suspending]

\* w writes status and session of invoice i; a deleted invoice stays deleted.
\* What was owed and is neither owed nor paid now excuses a suspension.
WriteInvoice(w, i, status, s, label) ==
    LET changed == inv[i] # "DELETED" /\ (inv[i] # status \/ link[i] # s)
    IN  /\ inv' = [inv EXCEPT ![i] = IF @ = "DELETED" THEN @ ELSE status]
        /\ link' = [link EXCEPT ![i] = s]
        /\ Overtakes(w, IF changed THEN {i} ELSE {},
                     changed /\ "OVERDUE" \in {inv[i], status})
        /\ UNCHANGED <<suspended, exempt, trial, expense, gateway, missed>>
        /\ Goto(w, label)
        /\ Excuse(inv[i] \in Owed /\ status \notin Owed \cup {"PAID"})

\* A step that changes no row.
Think(w, label) ==
    /\ Goto(w, label)
    /\ overtaken' = [overtaken EXCEPT ![w] = @ /\ label # "idle"]
    /\ UNCHANGED <<rows, gateway, excused, missed>>

-----------------------------------------------------------------------------
(* Subscriptions issue invoices and end.                                   *)

\* create makes a draft; subscribe, renew, generateInvoice and the sweep's renewal
\* issue at once, or waive the invoice of an exempt community.
Issue(i, status) ==
    /\ inv[i] = "none"
    /\ status \in {"ISSUED", "WAIVED"} => (status = "WAIVED" <=> exempt)
    /\ inv' = [inv EXCEPT ![i] = status]
    /\ UNCHANGED <<link, suspended, exempt, trial, expense, gateway, pc, locals, taken,
                   overtaken, missed>>
    /\ Excuse(FALSE)

\* It is cancelled, or the sweep finds that it has lapsed.
EndSubscription ==
    /\ trial /\ trial' = FALSE
    /\ UNCHANGED <<inv, link, suspended, exempt, expense, gateway, pc, locals, taken,
                   overtaken, excused, missed>>

-----------------------------------------------------------------------------
(* A checkout.                                                             *)

CreateCheckout(w, i) ==
    /\ inv[i] \in Payable
    /\ inv[i] = "PROCESSING" => link[i] = 0
    /\ At(w, "idle")
    /\ pc' = [pc EXCEPT ![w] = "opening"] /\ on' = [on EXCEPT ![w] = i]
    /\ was' = [was EXCEPT ![w] = IF inv[i] = "PROCESSING" THEN "ISSUED" ELSE inv[i]]
    /\ UNCHANGED <<rows, gateway, with, onTrial, taken, overtaken, excused, missed>>

OpenSession(w) ==
    /\ At(w, "opening")
    /\ \E s \in Sessions :
          /\ sess[s] = "none" /\ \A r \in Sessions : sess[r] = "none" => s <= r
          /\ sess' = [sess EXCEPT ![s] = "open"] /\ payee' = [payee EXCEPT ![s] = on[w]]
          /\ with' = [with EXCEPT ![w] = s]
    /\ pc' = [pc EXCEPT ![w] = "linking"]
    /\ UNCHANGED <<rows, on, was, onTrial, taken, overtaken, excused, missed>>

CheckoutRefused(w) ==
    /\ At(w, "opening")
    /\ WriteInvoice(w, on[w], was[w], link[on[w]], "idle")

LinkSession(w) ==
    /\ At(w, "linking")
    /\ WriteInvoice(w, on[w], "PROCESSING", with[w], "idle")
-----------------------------------------------------------------------------
(* The gateway: the payer may try again after a failed attempt.            *)

Session(before, after) ==
    /\ \E s \in Sessions : sess[s] = before /\ sess' = [sess EXCEPT ![s] = after]
    /\ UNCHANGED <<rows, payee, pc, locals, taken, overtaken, excused, missed>>

Pay == Session("open", "paid") \/ Session("failed", "paidLater")
AttemptFails == Session("open", "failed")
SessionExpires == Session("open", "expired") \/ Session("failed", "expired")

Paid(s)     == sess[s] \in {"paid", "paidLater"}
Unpaying(s) == sess[s] \in {"failed", "expired"}

-----------------------------------------------------------------------------
(* Events of a session arrive once, twice, late or never; the invoice is   *)
(* found by its session, and must be PROCESSING.                           *)

\* Found when the status is not looked at.
FoundAny(s) == {i \in Invoices : link[i] = s /\ inv[i] # "DELETED"}

Found(s) == {i \in Invoices : link[i] = s /\ inv[i] = "PROCESSING"}

ReceivePaid(w, s) ==
    /\ Paid(s)
    /\ \E i \in Found(s) : Begin(w, "paying", i, s)

ReceiveUnpaid(w, s) ==
    /\ Unpaying(s) \/ sess[s] = "paidLater"
    /\ \E i \in Found(s) : Begin(w, "clearing", i, s)

\* syncWithGateway and the sweep of stale checkouts ask the gateway ...
Settle(w, i) ==
    /\ inv[i] = "PROCESSING" /\ link[i] # 0
    /\ Begin(w, "retrieving", i, link[i])

\* Retrieve when any answer but a payment ends the session.
RetrieveImpatient(w) ==
    /\ At(w, "retrieving")
    /\ Think(w, IF Paid(with[w]) THEN "findingPaid" ELSE "findingUnpaid")

\* ... which may be unreachable, or still waiting for the payer ...
Retrieve(w) ==
    /\ At(w, "retrieving")
    /\ \/ Think(w, "idle")
       \/ Paid(with[w]) /\ Think(w, "findingPaid")
       \/ Unpaying(with[w]) /\ Think(w, "findingUnpaid")

\* ... and look the invoice up again, by its session.
FindAgain(w) ==
    LET label == IF At(w, "findingPaid") THEN "paying" ELSE "clearing"
    IN  /\ pc[w] \in {"findingPaid", "findingUnpaid"}
        /\ Think(w, IF on[w] \in Found(with[w]) THEN label ELSE "idle")

\* ClearSession when the status is left as it is.
ClearSessionOnly(w) ==
    /\ At(w, "clearing")
    /\ WriteInvoice(w, on[w], inv[on[w]], 0, "idle")

ClearSession(w) ==
    /\ At(w, "clearing")
    /\ WriteInvoice(w, on[w], "ISSUED", 0, "idle")

\* markGatewayPaidByGateway; it leaves the subscription alone.
MarkGatewayPaid(w) ==
    /\ At(w, "paying")
    /\ WriteInvoice(w, on[w], "PAID", link[on[w]], "reactivating")

-----------------------------------------------------------------------------
(* An officer marks an invoice paid, again if need be.                     *)

MarkPaid(w, i) ==
    /\ inv[i] \in Payable \cup {"PAID"}
    /\ At(w, "idle")
    /\ pc' = [pc EXCEPT ![w] = "payingByHand"] /\ on' = [on EXCEPT ![w] = i]
    /\ onTrial' = [onTrial EXCEPT ![w] = trial]
    /\ UNCHANGED <<rows, gateway, with, was, taken, overtaken, excused, missed>>

StorePaid(w) ==
    /\ At(w, "payingByHand")
    /\ WriteInvoice(w, on[w], "PAID", link[on[w]],
                    IF onTrial[w] THEN "activating" ELSE "reactivating")

\* The trial it read becomes a paid subscription.
ActivateSubscription(w) ==
    /\ At(w, "activating")
    /\ trial' = FALSE
    /\ Goto(w, "reactivating")
    /\ UNCHANGED <<inv, link, suspended, exempt, expense, gateway, overtaken, excused,
                   missed>>

\* ReactivateCommunity when it is left to the next sweep.
ReactivateNothing(w) == At(w, "reactivating") /\ Think(w, "recording")

\* The suspension is read and lifted in one step: what could come between are the
\* other handlers that lift it.
ReactivateCommunity(w) ==
    /\ At(w, "reactivating")
    /\ suspended' = FALSE
    /\ UNCHANGED <<inv, link, exempt, trial, expense, gateway, overtaken, missed>>
    /\ Goto(w, "recording")
    /\ Excuse(FALSE)

\* A resident's online payment to the community lifts the suspension as well.
ReactivateByPayment ==
    /\ suspended /\ suspended' = FALSE
    /\ UNCHANGED <<inv, link, exempt, trial, expense, gateway, pc, locals, taken,
                   overtaken, missed>>
    /\ Excuse(FALSE)

-----------------------------------------------------------------------------
(* The expense: one per invoice, under the next expense number.  The       *)
(* invoice stays paid when it cannot be entered.                           *)

FindExpense(w) ==
    /\ At(w, "recording")
    /\ Think(w, IF expense[on[w]] > 0 THEN "idle" ELSE "numbering")

\* The expense is not entered; history keeps that nobody else entered it.
Miss(invoices) == missed' = missed \cup {i \in invoices : expense[i] = 0}

\* resolveCreatedById and nextExpenseNumber.  The gateway names no user, and the
\* community may have no active one to stand in: the failure is logged and
\* forgotten.
NumberExpense(w) ==
    /\ At(w, "numbering")
    /\ \/ Think(w, "storing")
       \/ /\ with[w] # 0
          /\ Miss({on[w]})
          /\ Goto(w, "idle")
          /\ overtaken' = [overtaken EXCEPT ![w] = FALSE]
          /\ UNCHANGED <<rows, gateway, excused>>

\* w returns from storing the expense of its invoice, which uses the number up.
ExpenseStored(w, stored) ==
    LET i == on[w]
    IN  /\ At(w, "storing")
        /\ expense' = IF stored THEN [expense EXCEPT ![i] = @ + 1] ELSE expense
        /\ IF stored THEN missed' = missed \ {i} ELSE Miss({i})
        /\ pc' = [pc EXCEPT ![w] = "idle"]
        /\ on' = [on EXCEPT ![w] = NoInvoice] /\ with' = [with EXCEPT ![w] = 0]
        /\ was' = [was EXCEPT ![w] = "none"] /\ onTrial' = [onTrial EXCEPT ![w] = FALSE]
        /\ taken' = [v \in Workers |-> v # w /\ (taken[v] \/ (stored /\ At(v, "storing")))]
        /\ overtaken' = [overtaken EXCEPT ![w] = FALSE]
        /\ UNCHANGED <<inv, link, suspended, exempt, trial, gateway, excused>>

\* StoreExpense without a unique key on the invoice.
StoreExpenseUnkeyed(w) == ExpenseStored(w, ~taken[w])

\* Either unique key may refuse it; that too is logged and forgotten.
StoreExpense(w) == ExpenseStored(w, ~taken[w] /\ expense[on[w]] = 0)

\* Officers enter another expense, under the number w was about to use.
AddExpense ==
    /\ \E w \in Workers : At(w, "storing") /\ ~taken[w]
    /\ taken' = [w \in Workers |-> taken[w] \/ At(w, "storing")]
    /\ UNCHANGED <<rows, gateway, pc, locals, overtaken, excused, missed>>

-----------------------------------------------------------------------------
(* Officers void and delete; the sweep makes overdue and suspends.         *)

Void(w, i) ==
    /\ inv[i] \in Payable \cup {"VOID"}
    /\ Begin(w, "voiding", i, 0)

StoreVoid(w) ==
    /\ At(w, "voiding")
    /\ WriteInvoice(w, on[w], "VOID", link[on[w]], "idle")

Remove(w, i) ==
    /\ At(w, "idle")
    /\ inv[i] \notin {"none", "DELETED"}
    /\ WriteInvoice(w, i, "DELETED", link[i], "idle")

\* Exempt communities are passed over: the sweep reads the exemptions first.
StartSweep(w) == ~exempt /\ Begin(w, "sweeping", NoInvoice, 0)

\* Some of the issued invoices are past their due dates.
SweepOverdue(w) ==
    /\ At(w, "sweeping")
    /\ \E late \in SUBSET {i \in Invoices : inv[i] = "ISSUED"} :
          /\ inv' = [i \in Invoices |-> IF i \in late THEN "OVERDUE" ELSE inv[i]]
          /\ Overtakes(w, late, late # {})
    /\ pc' = [pc EXCEPT ![w] = "counting"]
    /\ UNCHANGED <<link, suspended, exempt, trial, expense, gateway, locals, taken,
                   excused, missed>>

CountOverdue(w) ==
    /\ At(w, "counting")
    /\ Think(w, IF Overdue = {} THEN "idle" ELSE "suspending")

SuspendCommunity(w) ==
    /\ At(w, "suspending")
    /\ suspended' = TRUE
    /\ UNCHANGED <<inv, link, exempt, trial, expense, gateway, missed>>
    /\ Goto(w, "idle")
    /\ overtaken' = [overtaken EXCEPT ![w] = FALSE]
    /\ Excuse(overtaken[w])

-----------------------------------------------------------------------------
(* An exemption: the handler remembers whether the community was suspended *)
(* when it looked.                                                         *)

GrantExemption(w) ==
    Begin(w, IF suspended THEN "exemptingSuspended" ELSE "exempting", NoInvoice, 0)

CreateExemption(w) ==
    /\ pc[w] \in {"exempting", "exemptingSuspended"}
    /\ exempt' = TRUE
    /\ Goto(w, IF At(w, "exempting") THEN "idle" ELSE "reinstating")
    /\ UNCHANGED <<inv, link, suspended, trial, expense, gateway, overtaken, excused, missed>>

Reinstate(w) ==
    /\ At(w, "reinstating")
    /\ suspended' = FALSE
    /\ UNCHANGED <<inv, link, exempt, trial, expense, gateway, overtaken, missed>>
    /\ Goto(w, "waiving")
    /\ Excuse(FALSE)

WaiveInvoices(w) ==
    /\ At(w, "waiving")
    /\ inv' = [i \in Invoices |-> IF i \in Unpaid THEN "WAIVED" ELSE inv[i]]
    /\ Overtakes(w, Unpaid, Overdue # {})
    /\ UNCHANGED <<link, suspended, exempt, trial, expense, gateway, missed>>
    /\ Goto(w, "idle")
    /\ Excuse(Unpaid # {})

\* One granted for later begins, and reinstates nobody; or it is revoked or runs out.
TurnExemption ==
    /\ exempt' = ~exempt
    /\ UNCHANGED <<inv, link, suspended, trial, expense, gateway, pc, locals, taken,
                   overtaken, excused, missed>>

-----------------------------------------------------------------------------
\* The server process dies: every handler in flight is forgotten, with what it
\* would have reactivated and entered.
Crash ==
    /\ pc' = [w \in Workers |-> "idle"] /\ on' = [w \in Workers |-> NoInvoice]
    /\ with' = [w \in Workers |-> 0] /\ was' = [w \in Workers |-> "none"]
    /\ onTrial' = [w \in Workers |-> FALSE] /\ taken' = [w \in Workers |-> FALSE]
    /\ overtaken' = [w \in Workers |-> FALSE]
    /\ Miss({on[w] : w \in Recording})
    /\ UNCHANGED <<rows, gateway>>
    /\ Excuse(Reactivating # {})

-----------------------------------------------------------------------------
Gateway == Pay \/ AttemptFails \/ SessionExpires

Checkout(w) ==
    \/ \E i \in Invoices : CreateCheckout(w, i) \/ Settle(w, i)
    \/ \E s \in Sessions : ReceivePaid(w, s) \/ ReceiveUnpaid(w, s)
    \/ OpenSession(w) \/ CheckoutRefused(w) \/ LinkSession(w)
    \/ Retrieve(w) \/ FindAgain(w) \/ ClearSession(w) \/ MarkGatewayPaid(w)

Settlement(w) ==
    \/ \E i \in Invoices : MarkPaid(w, i) \/ Void(w, i) \/ Remove(w, i)
    \/ StorePaid(w) \/ ActivateSubscription(w) \/ ReactivateCommunity(w)
    \/ FindExpense(w) \/ NumberExpense(w) \/ StoreExpense(w) \/ StoreVoid(w)

Sweep(w) == StartSweep(w) \/ SweepOverdue(w) \/ CountOverdue(w) \/ SuspendCommunity(w)

Exempt(w) == GrantExemption(w) \/ CreateExemption(w) \/ Reinstate(w) \/ WaiveInvoices(w)

Next ==
    \/ \E w \in Workers : Checkout(w) \/ Settlement(w) \/ Sweep(w) \/ Exempt(w)
    \/ \E i \in Invoices : \E status \in {"DRAFT", "ISSUED", "WAIVED"} : Issue(i, status)
    \/ EndSubscription \/ ReactivateByPayment \/ AddExpense \/ TurnExemption \/ Crash
    \/ Gateway

Spec == Init /\ [][Next]_vars

-----------------------------------------------------------------------------
(* Properties.                                                             *)

\* A paid invoice is paid for good: only a handler that read it before another
\* wrote it takes that back (invoices.service.ts:373-378, 454-456, 502-504,
\* 659-661).
PaidStaysPaid ==
    [][\A i \in Invoices : inv[i] = "PAID" /\ inv'[i] \notin {"PAID", "DELETED"} =>
          \E w \in Workers : overtaken[w] /\ on[w] = i /\ pc'[w] # pc[w]]_vars

\* A session that its invoice waits for and that was paid at once is never let
\* go, except for another session that was opened meanwhile, or by a handler
\* that read before (invoices.service.ts:520-523 "Paid => PAID; otherwise back to
\* ISSUED").
PaidSessionIsKept ==
    [][\A i \in Invoices :
          inv[i] = "PROCESSING" /\ link[i] # 0 /\ sess[link[i]] = "paid" /\ link'[i] # link[i] =>
              \E w \in Workers : overtaken[w] /\ on[w] = i /\ pc'[w] # pc[w]]_vars

\* A community suspended for not paying owes something, or is about to be
\* reactivated.  Excused: what it owed was voided, deleted or written off, or was
\* paid between the sweep's two steps, or a restart came between the payment and
\* the reactivation (billing.service.ts:165-203, invoices.service.ts:239-260).
SuspendedOwes == suspended => Unpaid # {} \/ excused \/ Reactivating # {}

\* Every paid invoice is entered as an expense, and none is entered twice, however
\* many handlers find it paid.  Missed: its number was taken by another expense,
\* the community had no user to enter it, or a restart came between the payment
\* and the entry; paying it by hand again makes up for it (expenses.service.ts:81-83
\* "each source invoice maps to at most one expense via the unique
\* subscriptionInvoiceId column", invoices.service.ts:718-742).
PaidIsExpensedOnce ==
    \A i \in Invoices :
        /\ expense[i] <= 1
        /\ inv[i] = "PAID" => expense[i] = 1 \/ i \in missed \/ \E w \in Recording : on[w] = i
=============================================================================
