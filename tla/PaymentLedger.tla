--------------------------- MODULE PaymentLedger ---------------------------
(***************************************************************************)
(* The money of one household: the assessments it owes, the payments that  *)
(* settle them, the allocations that tie a payment to an assessment, and   *)
(* the household credit that earlier payments left behind.                 *)
(*                                                                         *)
(* Every action is one whole request handler (or gateway callback) of      *)
(* finance/payments.service.ts, finance/household-credit.service.ts and    *)
(* its controller, and finance/assessments.service.ts, including the       *)
(* re-synchronisation of assessments it ends with.  Handlers do not        *)
(* interleave here: this module is about sequences of legal requests.      *)
(* GatewaySettlement breaks the gateway handlers into their database       *)
(* calls.                                                                  *)
(*                                                                         *)
(* Amounts are small naturals (net of discount); the 0.005 rounding        *)
(* tolerance of the code has no counterpart.  Payments are numbered in     *)
(* creation order, assessments in due-date order.                          *)
(***************************************************************************)
EXTENDS Integers, Sequences, SequencesExt

CONSTANTS
    Dues,           \* the household's assessments, 1..n by due date
    Amount,         \* Amount[a]: what assessment a asks for, net of discount
    Late,           \* the assessments whose due date has passed
    Managed,        \* the assessments officers issue, cancel and waive
    CreditAmounts,  \* amounts an officer grants or adjusts a credit to
    ApplyCredit,    \* whether clients tick "apply credit" on a payment
    Advances,       \* whether clients fill in "advance months" (feature on)
    Edits,          \* whether officers edit pending payments
    CheckoutErrors, \* whether the gateway may refuse to open a checkout
    MaxPayments,    \* bound on payment rows
    MaxCredits,     \* bound on household credit rows
    MaxUses         \* bound on credit application rows

ASSUME LedgerConstants ==
    /\ Dues = 1..Len(Amount)
    /\ Amount \in Seq(Nat \ {0})
    /\ Late \subseteq Dues
    /\ Managed \subseteq Dues
    /\ CreditAmounts \subseteq Nat
    /\ {ApplyCredit, Advances, Edits, CheckoutErrors} \subseteq BOOLEAN
    /\ {MaxPayments, MaxCredits, MaxUses} \subseteq Nat

VARIABLES
    due,    \* due[a]: status and stored paidAmount of an assessment
    pay,    \* the payment rows, in creation order
    alloc,  \* alloc[p, a]: the allocation row of payment p to assessment a
    credit, \* the household credit rows, in creation order
    used    \* the credit application rows, in creation order

vars == <<due, pay, alloc, credit, used>>

PaymentIds == 1..MaxPayments
NoOne == 0                       \* an application without a paying payment

DueStatus == {"DRAFT", "ISSUED", "PARTIALLY_PAID", "PAID", "OVERDUE",
              "WAIVED", "CANCELLED"}
PayStatus == {"PENDING_VERIFICATION", "PROCESSING", "VERIFIED", "REJECTED",
              "REFUNDED", "CANCELLED", "FAILED", "EXPIRED"}
PayKind   == {"CASH", "ADVANCE", "ONLINE", "CREDIT_ISSUE"}

Min2(x, y) == IF x < y THEN x ELSE y
Max2(x, y) == IF x > y THEN x ELSE y

Outstanding == {a \in Dues :
                  due[a].status \in {"ISSUED", "PARTIALLY_PAID", "OVERDUE"}}
Collectible(a) == Max2(Amount[a] - due[a].paid, 0)

Rows(p) == {a \in Dues : alloc[p, a].amount > 0}

(***************************************************************************)
(* First come, first served: what each member of an ordered family takes   *)
(* of a total.  The code spreads money this way over payment targets, over *)
(* credit rows and over the assessments of an advance payment.             *)
(*                                                                         *)
(* Here and below, where a definition has a variant, the variant stands    *)
(* before it: FifoUncapped is Fifo with one plausible slip in it, and no   *)
(* other definition uses it.                                               *)
(***************************************************************************)
FifoUncapped(cap, total) ==
    [i \in DOMAIN cap |->
        Max2(0, total - SumFunctionOnSet(cap, {j \in DOMAIN cap : j < i}))]

Fifo(cap, total) ==
    [i \in DOMAIN cap |->
        Min2(cap[i],
             Max2(0, total - SumFunctionOnSet(cap, {j \in DOMAIN cap : j < i})))]

-----------------------------------------------------------------------------
(* Synchronising an assessment with the ledger.                            *)

\* Everything VERIFIED, undeleted payments still hold allocated to a.
LedgerPaid(a) ==
    SumFunctionOnSet([p \in PaymentIds |-> alloc[p, a].amount],
        {p \in 1..Len(pay) : /\ pay[p].status = "VERIFIED"
                             /\ ~pay[p].deleted
                             /\ alloc[p, a].live})

\* DetermineStatus when the early return for settled assessments is missing.
StatusFromPaidOnly(a, status, paid) ==
    IF paid >= Amount[a] THEN "PAID"
    ELSE IF paid > 0 THEN "PARTIALLY_PAID"
    ELSE IF a \in Late THEN "OVERDUE" ELSE "ISSUED"

\* DetermineStatus when a PAID assessment counts as settled for good.
StatusKeepsPaid(a, status, paid) ==
    IF status \in {"CANCELLED", "WAIVED", "PAID"} THEN status
    ELSE IF paid >= Amount[a] THEN "PAID"
    ELSE IF paid > 0 THEN "PARTIALLY_PAID"
    ELSE IF a \in Late THEN "OVERDUE" ELSE "ISSUED"

DetermineStatus(a, status, paid) ==
    IF status \in {"CANCELLED", "WAIVED"} THEN status
    ELSE IF paid >= Amount[a] THEN "PAID"
    ELSE IF paid > 0 THEN "PARTIALLY_PAID"
    ELSE IF a \in Late THEN "OVERDUE" ELSE "ISSUED"

\* The assessments in S are re-read against the new ledger, the rest are not.
SyncAssessments(S) ==
    due' = [a \in Dues |->
              IF a \in S
              THEN LET paid == LedgerPaid(a)'
                   IN  [status |-> DetermineStatus(a, due[a].status, paid), paid |-> paid]
              ELSE due[a]]

-----------------------------------------------------------------------------
(* Household credit.                                                       *)

Book == [alloc |-> alloc, credit |-> credit, used |-> used]

AvailableCredit ==
    SumFunction([c \in 1..Len(credit) |-> credit[c].balance])

\* An upsert on the unique (payment, assessment) row: a new row is live, an
\* existing one is only incremented.
TopUp(row, n) ==
    [amount |-> row.amount + n, live |-> IF row.amount = 0 THEN n > 0 ELSE row.live]

\* One row for each credit that is spent; nothing depends on their order.
Applications(take, a, payer) ==
    LET hits == SetToSeq({c \in DOMAIN take : take[c] > 0})
    IN  [k \in DOMAIN hits |-> [credit |-> hits[k], due |-> a, amount |-> take[hits[k]],
                                payer |-> payer, live |-> TRUE]]

\* Spend when the balances are not decremented.
SpendWithoutDebit(book, a, n, payer) ==
    LET take == Fifo([c \in DOMAIN book.credit |-> book.credit[c].balance], n)
        From(p) == SumFunctionOnSet(take,
                     {c \in DOMAIN take : book.credit[c].source = p})
    IN  [alloc  |-> [k \in DOMAIN book.alloc |->
                       IF k[2] = a THEN TopUp(book.alloc[k], From(k[1]))
                       ELSE book.alloc[k]],
         credit |-> book.credit,
         used   |-> book.used \o Applications(take, a, payer)]

\* applyToAssessment: spend up to n of the household's credit on a, oldest
\* credit first, by allocating from each credit's source payment.
Spend(book, a, n, payer) ==
    LET take == Fifo([c \in DOMAIN book.credit |-> book.credit[c].balance], n)
        From(p) == SumFunctionOnSet(take,
                     {c \in DOMAIN take : book.credit[c].source = p})
    IN  [alloc  |-> [k \in DOMAIN book.alloc |->
                       IF k[2] = a THEN TopUp(book.alloc[k], From(k[1]))
                       ELSE book.alloc[k]],
         credit |-> [c \in DOMAIN take |->
                       [book.credit[c] EXCEPT !.balance = @ - take[c]]],
         used   |-> book.used \o Applications(take, a, payer)]

\* Spend n[a] on every a of DOMAIN n, the last due last.
SpendAll(book, n, payer) ==
    MapThenFoldSet(LAMBDA a, b : Spend(b, a, n[a], payer), book, LAMBDA a : a, Max, DOMAIN n)

KeepBook(book) ==
    /\ alloc' = book.alloc
    /\ credit' = book.credit
    /\ used' = book.used
    /\ Len(used') <= MaxUses

\* Reverse the applications in U: their rows on the source payments stop
\* counting, whoever else shares them.
Unapply(book, U) ==
    [book EXCEPT
        !.alloc = [k \in DOMAIN @ |->
            IF \E u \in U : k = <<credit[used[u].credit].source, used[u].due>>
            THEN [@[k] EXCEPT !.live = FALSE] ELSE @[k]],
        !.used = [u \in DOMAIN @ |->
            IF u \in U THEN [@[u] EXCEPT !.live = FALSE] ELSE @[u]]]

UsesPaidBy(p) == {u \in 1..Len(used) : used[u].payer = p /\ used[u].live}
UsesOf(c)     == {u \in 1..Len(used) : used[u].credit = c /\ used[u].live}

\* GiveBack when the call is missing.
GiveNothingBack(book, p) == book

\* reverseForPayment: give the credit p consumed back, then unapply it.
GiveBack(book, p) ==
    LET U == UsesPaidBy(p)
        Back(c) == SumFunctionOnSet([u \in 1..Len(used) |-> used[u].amount],
                                    {u \in U : used[u].credit = c})
        back == [c \in DOMAIN book.credit |->
                   [book.credit[c] EXCEPT !.balance = @ + Back(c)]]
    IN  [Unapply(book, U) EXCEPT !.credit = back]

\* ReverseRows when the call is missing.
ReverseNoRows(book, p) == book

\* reverseAllocations: p's own rows stop counting.
ReverseRows(book, p) ==
    [book EXCEPT !.alloc = [k \in DOMAIN @ |->
        IF k[1] = p THEN [@[k] EXCEPT !.live = FALSE] ELSE @[k]]]

\* clearPaymentCredit: what p left as unspent credit is gone.
ClearCredit(book, p) ==
    [book EXCEPT !.credit = [c \in DOMAIN @ |->
        IF @[c].source = p THEN [@[c] EXCEPT !.balance = 0] ELSE @[c]]]

-----------------------------------------------------------------------------
Init ==
    /\ \E drafts \in SUBSET Managed :
          due = [a \in Dues |-> [status |-> IF a \in drafts THEN "DRAFT" ELSE "ISSUED",
                                 paid   |-> 0]]
    /\ pay = << >>
    /\ alloc = [k \in PaymentIds \X Dues |-> [amount |-> 0, live |-> FALSE]]
    /\ credit = << >>
    /\ used = << >>

Live(p) == p \in 1..Len(pay) /\ ~pay[p].deleted
HasStatus(p, S) == Live(p) /\ pay[p].status \in S

NewPayment(kind, amount, status) ==
    /\ Len(pay) < MaxPayments
    /\ pay' = Append(pay, [kind |-> kind, amount |-> amount,
                           status |-> status, deleted |-> FALSE])

SetStatus(p, status) == pay' = [pay EXCEPT ![p].status = status]

\* resolveTargets refuses an assessment that is settled, waived or cancelled.
Payable == {a \in Dues : due[a].status \notin {"PAID", "WAIVED", "CANCELLED"}}

\* What a client may ask to pay: a positive part of some payable assessments.
Targets == UNION {{f \in [S -> 1..Max(ToSet(Amount))] : \A a \in S : f[a] <= Amount[a]} :
                    S \in (SUBSET Payable) \ {{}}}

\* The rows of a new payment: the cash part of each target that has one.
CashRows(book, p, cash) ==
    [book EXCEPT !.alloc = [k \in DOMAIN @ |->
        IF k[1] = p /\ k[2] \in DOMAIN cash
        THEN [amount |-> cash[k[2]], live |-> cash[k[2]] > 0] ELSE @[k]]]

CreditToUse(f, useCredit) ==
    IF useCredit THEN Min2(AvailableCredit, SumFunction(f)) ELSE 0

\* The payment, its rows and the credit spent on its behalf, in one
\* transaction; no assessment is synchronised.
RecordPayment(kind, status, f, useCredit) ==
    LET p       == Len(pay) + 1
        applied == CreditToUse(f, useCredit)
        covered == Fifo(f, applied)
        cash    == [a \in DOMAIN f |-> f[a] - covered[a]]
        payable == SumFunction(f) - applied
    IN  /\ payable > 0
        /\ NewPayment(kind, payable, status)
        /\ KeepBook(SpendAll(CashRows(Book, p, cash), covered, p))
        /\ UNCHANGED due

\* POST /payments: cash, wallet with proof, or an advance payment.
CreatePayment ==
    \E f \in Targets :
        \/ \E useCredit \in {FALSE, ApplyCredit} :
              RecordPayment("CASH", "PENDING_VERIFICATION", f, useCredit)
        \/ Advances /\ RecordPayment("ADVANCE", "PENDING_VERIFICATION", f, FALSE)

\* POST /payments/checkout: the gateway opens a session, or refuses to and the
\* payment is marked FAILED and nothing else.
CreateCheckout ==
    \E f \in Targets, useCredit \in {FALSE, ApplyCredit} :
        \/ RecordPayment("ONLINE", "PROCESSING", f, useCredit)
        \/ CheckoutErrors /\ RecordPayment("ONLINE", "FAILED", f, useCredit)

\* The checkout branch where credit covers everything: no payment row.
SettleByCredit ==
    \E f \in Targets :
        /\ ApplyCredit
        /\ SumFunction(f) = CreditToUse(f, TRUE)
        /\ KeepBook(SpendAll(Book, f, NoOne))
        /\ UNCHANGED <<due, pay>>

\* replaceAllocations: p's rows are deleted and the new ones created.
ReplaceRows(p, f) ==
    alloc' = [k \in DOMAIN alloc |->
                IF k[1] # p THEN alloc[k]
                ELSE IF k[2] \in DOMAIN f THEN [amount |-> f[k[2]], live |-> TRUE]
                ELSE [amount |-> 0, live |-> FALSE]]

\* PUT /payments/:id.  The new amount is stored first.  New targets replace
\* the rows if they add up to it; the check comes after the deletion, so a
\* request it refuses leaves the payment without rows.
UpdatePayment(p) ==
    /\ Edits
    /\ HasStatus(p, {"PENDING_VERIFICATION"})
    /\ \E n \in 1..Max(ToSet(Amount)) :
          /\ pay' = [pay EXCEPT ![p].amount = n]
          /\ \/ UNCHANGED alloc
             \/ ReplaceRows(p, << >>)
             \/ \E f \in Targets : SumFunction(f) = n /\ ReplaceRows(p, f)
    /\ UNCHANGED <<due, credit, used>>

-----------------------------------------------------------------------------
(* What officers and the gateway do with a payment.                        *)

VerifyPlain(p) ==
    /\ pay[p].kind # "ADVANCE"
    /\ SetStatus(p, "VERIFIED")
    /\ UNCHANGED <<alloc, credit, used>>
    /\ SyncAssessments(Rows(p))

\* An advance payment is spread over the outstanding assessments by due date
\* and the rest becomes credit.  A row that already exists violates the unique
\* key: the handler dies there, with the payment already VERIFIED.
VerifyAdvance(p) ==
    LET take  == Fifo([a \in Outstanding |-> Collectible(a)], pay[p].amount)
        hits  == {a \in DOMAIN take : take[a] > 0}
        clash == hits \cap Rows(p)
        done  == {a \in hits : \A b \in clash : a < b}
        left  == pay[p].amount - SumFunction(take)
    IN  /\ pay[p].kind = "ADVANCE"
        /\ SetStatus(p, "VERIFIED")
        /\ alloc' = [k \in DOMAIN alloc |->
                       IF k[1] = p /\ k[2] \in done
                       THEN [amount |-> take[k[2]], live |-> TRUE] ELSE alloc[k]]
        /\ IF clash = {} /\ left > 0
           THEN /\ Len(credit) < MaxCredits
                /\ credit' = Append(credit, [source |-> p, balance |-> left,
                                             granted |-> left])
           ELSE UNCHANGED credit
        /\ UNCHANGED used
        /\ SyncAssessments(IF clash = {} THEN Rows(p)' ELSE done)

Verify(p) ==
    /\ HasStatus(p, {"PENDING_VERIFICATION"})
    /\ VerifyPlain(p) \/ VerifyAdvance(p)

\* Unwind when nothing is synchronised afterwards.
UnwindUnsynced(p) ==
    LET back == GiveBack(ClearCredit(ReverseRows(Book, p), p), p)
    IN  /\ alloc' = back.alloc
        /\ credit' = back.credit
        /\ used' = back.used
        /\ UNCHANGED due

\* The un-transacted tail reject, refund, cancel and remove share.
Unwind(p) ==
    LET back == GiveBack(ClearCredit(ReverseRows(Book, p), p), p)
    IN  /\ alloc' = back.alloc
        /\ credit' = back.credit
        /\ used' = back.used
        /\ SyncAssessments(Rows(p) \cup {used[u].due : u \in UsesPaidBy(p)})

Reject(p) ==
    HasStatus(p, {"PENDING_VERIFICATION"}) /\ SetStatus(p, "REJECTED") /\ Unwind(p)

Refund(p) ==
    HasStatus(p, {"VERIFIED"}) /\ SetStatus(p, "REFUNDED") /\ Unwind(p)

Cancel(p) ==
    /\ HasStatus(p, {"PENDING_VERIFICATION", "VERIFIED"})
    /\ SetStatus(p, "CANCELLED")
    /\ Unwind(p)

RemovePayment(p) ==
    /\ Live(p)
    /\ pay' = [pay EXCEPT ![p].deleted = TRUE]
    /\ Unwind(p)

GatewaySucceeded(p) ==
    /\ HasStatus(p, {"PROCESSING"})
    /\ SetStatus(p, "VERIFIED")
    /\ UNCHANGED <<alloc, credit, used>>
    /\ SyncAssessments(Rows(p))

\* markGatewayFailed and markGatewayExpired differ in the status only.
GatewayGaveUp(p, status) ==
    /\ HasStatus(p, {"PROCESSING"})
    /\ SetStatus(p, status)
    /\ LET back == GiveBack(ReverseRows(Book, p), p)
       IN  /\ alloc' = back.alloc
           /\ credit' = back.credit
           /\ used' = back.used
    /\ SyncAssessments(Rows(p) \cup {used[u].due : u \in UsesPaidBy(p)})

GatewayFailed(p)  == GatewayGaveUp(p, "FAILED")
GatewayExpired(p) == GatewayGaveUp(p, "EXPIRED")

-----------------------------------------------------------------------------
(* What officers do with credit.                                           *)

\* issueCredit: a VERIFIED synthetic payment and the credit it backs.
IssueCredit(n) ==
    /\ n > 0
    /\ NewPayment("CREDIT_ISSUE", n, "VERIFIED")
    /\ Len(credit) < MaxCredits
    /\ credit' = Append(credit, [source |-> Len(pay) + 1, balance |-> n,
                                 granted |-> n])
    /\ UNCHANGED <<due, alloc, used>>

SpentOf(c) == SumFunctionOnSet([u \in 1..Len(used) |-> used[u].amount], UsesOf(c))

\* updateBalance: any balance; "granted" follows as history.
AdjustCredit(c, n) ==
    /\ c \in 1..Len(credit)
    /\ credit' = [credit EXCEPT ![c].balance = n, ![c].granted = n + SpentOf(c)]
    /\ UNCHANGED <<due, pay, alloc, used>>

\* VoidCredit when the synthetic source payment is left VERIFIED.
VoidKeepsSource(c) ==
    /\ c \in 1..Len(credit)
    /\ LET book == Unapply(Book, UsesOf(c))
       IN  /\ alloc' = book.alloc
           /\ used' = book.used
           /\ credit' = [credit EXCEPT ![c].balance = 0]
    /\ UNCHANGED pay
    /\ SyncAssessments({used[u].due : u \in UsesOf(c)})

\* voidCredit: unapply, drop the balance, refund a synthetic source payment.
VoidCredit(c) ==
    /\ c \in 1..Len(credit)
    /\ LET book == Unapply(Book, UsesOf(c))
       IN  /\ alloc' = book.alloc
           /\ used' = book.used
           /\ credit' = [credit EXCEPT ![c].balance = 0]
    /\ LET s == credit[c].source
       IN  IF pay[s].kind = "CREDIT_ISSUE" THEN SetStatus(s, "REFUNDED")
           ELSE UNCHANGED pay
    /\ SyncAssessments({used[u].due : u \in UsesOf(c)})

\* POST /household-credits/apply: settle outstanding assessments by credit.
ApplyManual ==
    \E f \in Targets :
        /\ DOMAIN f \subseteq Outstanding
        /\ \A a \in DOMAIN f : f[a] <= Collectible(a)
        /\ KeepBook(SpendAll(Book, f, NoOne))
        /\ UNCHANGED pay
        /\ SyncAssessments(DOMAIN f)

-----------------------------------------------------------------------------
(* What officers and the lazy sweep do with an assessment.                 *)

MoveDue(a, from, to) ==
    /\ due[a].status \in from
    /\ due' = [due EXCEPT ![a].status = to]
    /\ UNCHANGED <<pay, alloc, credit, used>>

IssueDue(a)  == MoveDue(a, {"DRAFT", "CANCELLED"}, "ISSUED")
CancelDue(a) == MoveDue(a, DueStatus \ {"PAID", "CANCELLED"}, "CANCELLED")
WaiveDue(a)  ==
    MoveDue(a, DueStatus \ {"PAID", "CANCELLED", "WAIVED", "DRAFT"}, "WAIVED")

SweepOverdue ==
    LET hit == {a \in Late : due[a].status \in {"ISSUED", "PARTIALLY_PAID"}}
    IN  /\ hit # {}
        /\ due' = [a \in Dues |->
                     IF a \in hit THEN [due[a] EXCEPT !.status = "OVERDUE"]
                     ELSE due[a]]
        /\ UNCHANGED <<pay, alloc, credit, used>>

-----------------------------------------------------------------------------
PaymentAction(p) ==
    \/ UpdatePayment(p) \/ Verify(p) \/ Reject(p) \/ Refund(p) \/ Cancel(p)
    \/ RemovePayment(p) \/ GatewaySucceeded(p) \/ GatewayFailed(p) \/ GatewayExpired(p)

CreditAction ==
    \/ \E n \in CreditAmounts : IssueCredit(n)
    \/ \E c \in 1..MaxCredits :
          VoidCredit(c) \/ \E n \in CreditAmounts : AdjustCredit(c, n)
    \/ ApplyManual

DueAction == SweepOverdue \/ \E a \in Managed : IssueDue(a) \/ CancelDue(a) \/ WaiveDue(a)

Next ==
    \/ CreatePayment \/ CreateCheckout \/ SettleByCredit
    \/ \E p \in PaymentIds : PaymentAction(p)
    \/ CreditAction
    \/ DueAction

Spec == Init /\ [][Next]_vars
-----------------------------------------------------------------------------
(* Properties.                                                             *)

Row == [amount : Nat, live : BOOLEAN]

\* Every variable has its type; balances and stored sums never go negative.
TypeOK ==
    /\ due \in [Dues -> [status : DueStatus, paid : Nat]]
    /\ pay \in Seq([kind : PayKind, amount : Nat, status : PayStatus,
                    deleted : BOOLEAN])
    /\ alloc \in [PaymentIds \X Dues -> Row]
    /\ credit \in Seq([source : PaymentIds, balance : Nat, granted : Nat])
    /\ used \in Seq([credit : 1..MaxCredits, due : Dues, amount : Nat,
                     payer : PaymentIds \cup {NoOne}, live : BOOLEAN])

\* The stored paidAmount of every assessment is the sum of the live
\* allocations of VERIFIED payments, after every request
\* (household-credit.service.ts:37-42, finance-sync.service.ts:48-53).
PaidMatchesLedger == \A a \in Dues : due[a].paid = LedgerPaid(a)

\* No sequence of applying, reversing, restoring, clearing and voiding lets a
\* credit be spent beyond what it was granted: what is left plus what live
\* applications hold never exceeds the grant.
CreditWithinGrant ==
    \A c \in 1..Len(credit) : credit[c].balance + SpentOf(c) <= credit[c].granted

\* An assessment shown as PAID is covered by its stored paidAmount and one
\* shown as PARTIALLY_PAID is not, whatever payments came and went.
PaidStatusHonest ==
    \A a \in Dues :
        /\ due[a].status = "PAID" => due[a].paid >= Amount[a]
        /\ due[a].status = "PARTIALLY_PAID" => due[a].paid \in 1..(Amount[a] - 1)

HeldBy(p) == SumFunctionOnSet([a \in Dues |-> alloc[p, a].amount],
                              {a \in Dues : alloc[p, a].live})

\* A cash or online payment that still stands holds exactly its amount in
\* live allocations, and one that was rejected, refunded, cancelled, expired
\* or deleted holds nothing: credit never touches its rows.
CashHeldExactly ==
    \A p \in 1..Len(pay) : pay[p].kind \in {"CASH", "ONLINE"} =>
        /\ HasStatus(p, {"PENDING_VERIFICATION", "PROCESSING", "VERIFIED"})
              => HeldBy(p) = pay[p].amount
        /\ (pay[p].deleted \/ pay[p].status \in {"REJECTED", "REFUNDED",
                                               "CANCELLED", "EXPIRED"})
              => HeldBy(p) = 0

\* A payment that failed, expired, was rejected, refunded, cancelled or
\* deleted no longer holds credit that it consumed
\* (household-credit.service.ts:252-257: "reject/cancel/refund/delete/gateway
\* failure ... Restores the credit balances").
NoCreditHeldByDeadPayment ==
    \A u \in 1..Len(used) : used[u].live /\ used[u].payer # NoOne =>
        HasStatus(used[u].payer, {"PENDING_VERIFICATION", "PROCESSING", "VERIFIED"})

\* Credit that was spent and not given back counts towards the assessment it
\* was spent on: its row on a VERIFIED source payment is live
\* (household-credit.service.ts:38-42: applying works "by allocating from the
\* credit's source payment - so the existing accounting stays correct").
SpentCreditCounts ==
    \A u \in 1..Len(used) :
        LET s == credit[used[u].credit].source
        IN  used[u].live /\ HasStatus(s, {"VERIFIED"}) => alloc[s, used[u].due].live

\* Payments, credit and the overdue sweep never bring a waived or cancelled
\* assessment back to life; only an officer issuing or cancelling it does.
SettledByOfficerOnly ==
    [][\A a \in Dues :
         /\ due[a].status = "WAIVED" => due'[a].status \in {"WAIVED", "CANCELLED"}
         /\ due[a].status = "CANCELLED" /\ due'[a].status # "CANCELLED"
              => due'[a].status = "ISSUED" /\ due'[a].paid = due[a].paid
      ]_vars
=============================================================================
