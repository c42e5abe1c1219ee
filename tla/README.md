# CommunityOS in TLA+

CommunityOS runs homeowners' associations: a NestJS backend over PostgreSQL
(`src/Community-os-backend`), a React client (`src/Community-os-frontend`), and a
payment gateway (PayMongo) that calls back over webhooks. Requests, webhooks and
cron jobs are `async` functions of one or more Node processes; each `await` of a
Prisma call is a point where another request may run. Transactions are used in a
few places and nowhere with a stronger isolation level than PostgreSQL's default,
so most handlers are sequences of separate database calls: read a row, check a
status, write.

These modules specify the parts of the backend where that matters most: the money
(what residents owe and paid, what a community owes the platform, how the monthly
dues are generated), the accounts (who may sign in, who holds a household, who is
president), and the numbers of vehicle stickers.

## Inventory

State is in the database; what follows names the tables (Prisma models) each part
owns. Paths are below `src/Community-os-backend/src/modules`.

| Part | State | Operations that change it | Hard behaviour | What makes it correct |
|---|---|---|---|---|
| Payments (`finance/payments.service.ts`) | `Payment`, `PaymentAllocation` | create, checkout, update, verify, reject, refund, cancel, remove, gateway succeeded / failed / expired, sweep | every undo is four separate calls; guards are read long before the write | a payment counts once, for its amount, only while it stands |
| Household credit (`finance/household-credit.service.ts`) | `HouseholdCredit`, `HouseholdCreditApplication`, rows on the source payment | issue, adjust, void, apply, restore on undo | shared allocation rows, spending first come first served | no credit is spent twice or lost |
| Assessments (`finance/assessments.service.ts`) | `Assessment` | create, generate, update, issue, cancel, waive, updateStatus, remove | stored `paidAmount` and `status` are a cache of the ledger | the cache is honest; officers' decisions stay |
| Synchronisation (`finance/finance-sync.service.ts`) | the same, `BillingPeriod.status` | syncAssessment, syncPeriod, sweepOverdue | read, sum and write without a transaction | last write is the newest sum |
| Gateway and webhooks (`gateway-webhook`, `payments-gateway`) | none of its own; the gateway's checkout sessions | webhook, createCheckout, retrieveCheckout | events lost, repeated, reordered; the gateway unreachable | nothing booked that was not collected; every session settled |
| Subscription invoices (`subscriptions/invoices.service.ts`) | `Invoice`, `Subscription.status`, expenses | create, update, checkout, mark paid, gateway paid / failed / expired, void, remove, sweep | checkout writes PROCESSING over what happened meanwhile | an invoice is paid once, stays paid, and is entered as one expense |
| Subscriptions and billing (`subscriptions`, exemptions in `admin`) | `Subscription`, `Community.status`, `BillingExemption` | subscribe, renew, cancel, daily sweep (invoice, suspend), grant and revoke an exemption | sweep against payment and write-off | a paying community is not suspended |
| Dues automation (`finance/dues-automation.service.ts`, `billing-periods`) | `BillingPeriod`, `Assessment` | generate the period, late fees, sync of the period | re-runs, two runs at once, fee on fee | one assessment per household and period |
| Authentication (`auth/auth.service.ts`) | `Account` lock fields, `RefreshToken`, OTPs | login, refresh, logout, change and reset password, OTP | rotation and counting are read-modify-write | an ended session stays ended; lockout counts every failure |
| Vehicle stickers (`vehicle-stickers`) | `Sequence`, `VehicleSticker`, requests | request, approve, reject, cancel, issue, edit; sync of the sequence | numbers typed by hand against the row-locked sequence | automatic numbers are free; an approved request has its stickers |
| Items and reservations (`facilities`, `reservations`) | `FacilityItem`, loans, `Reservation` | approve and return a loan, reserve, approve, cancel | check of stock and of overlap, then act | no more lent than there is; no slot twice |
| Polls (`polls`) | `Poll`, options, votes | vote, update, publish, close | one vote per resident is checked, then stored | one vote; closed stays closed |
| Users and households (`users`, `residents`, `households`, `good-standing`) | `User`, `Resident`, `Household`, requests | create, link, demote, remove, switch household, assign a renter, move out, close, acquire | the last president and the holder of a household are checked outside transactions | one president remains; one account per household |

Communities, features, roles, permissions, complaints, maintenance, construction,
visitors, vehicles, pets, announcements, events, documents, notifications, utility
billing, reports, imports, administration and the client are in the list of
components of `PROJECT.json` with the reason why they are not modelled: static
catalogues, single-row registers, read-only aggregation, or I/O.

How the modelled parts interact: *Payments* reads assessments to decide what may be
paid, writes rows, calls *household credit* inside its own transactions (spending)
and outside of them (restoring), and calls *synchronisation* for the assessments it
believes it touched. *Gateway and webhooks* calls payments, and then invoices, with
each event. *Dues automation* creates the assessments that payments settle, and ends
each generation with the synchronisation of the period; officers' edits of
assessments call it too. *Billing* suspends a community over its invoices, and a
paid invoice lifts that. *Users, residents and households* write the statuses that
*authentication* checks, and revoke its tokens. Officers reach all of them at any
time.

## Modules

| Module | What it is |
|---|---|
| `PaymentLedger` | one household's assessments, payments, allocations and credit; one action per whole request |
| `GatewaySettlement` | how an online payment leaves PROCESSING; one action per database call, handlers interleaved, with webhooks, the sweep, officers and restarts |
| `OnlinePayment` | what the online payments promise; implemented by `GatewaySettlement` |
| `OnlinePaymentProofs` | the theorem that `GatewaySettlement` implements `OnlinePayment` |
| `SubscriptionInvoices` | one community's invoices, their checkout sessions, the suspension and the expense |
| `DuesAutomation` | one month's dues: daily run, generation by hand, late fees, the period's status |
| `AccountSessions` | one account: lockout, refresh tokens, passwords, and being shut out |
| `HouseholdAccounts` | the accounts of one household, and the presidency |
| `StickerNumbers` | sticker requests and the numbers they get |
| `...Proofs` | theorems about the module of that name |
| `MC...` | the instances of the module of that name |

`PaymentLedger` and `GatewaySettlement` look at the same code at two grains. The
first asks what sequences of legal requests do, with all the accounting; the second
what overlapping requests do to one another, with the accounting reduced to which
payments a stored sum adds up. The later modules are all at the second grain: a
*worker* is a request, webhook or cron job in flight, `pc[w]` names its next database
call or transaction, and its locals are what the handler keeps between two awaits. A
step that starts a handler contains its first reads and its guard; no write repeats
the guard, because the code's writes do not. A deleted row keeps its `deletedAt`
whatever status a late writer gives it, in the code and in the models.

**History.** Code of this kind loses races; it is written for requests that rarely
overlap. A property that simply forbade every lost race would fail and say little,
and one that only speaks of an idle system would miss most of the behaviour. The
modules therefore carry history variables that record *that* a race was lost:
`overtaken[w]` is set when another step rewrites what `w` has read and is about to
act on, and is never read by a guard. The properties then say that whatever goes
wrong, goes wrong by such an overlap, named in the property and nowhere wider. This
is as strong as the code allows: without the excuse each of them fails.

Where a definition has a variant that no other definition uses (`FifoUncapped` for
`Fifo`, `SkipReverse` for `ReverseAllocations`), the variant is the same operation
with one plausible slip. Each property is listed in `PROJECT.json` with a variant
under which its run fails: a property no slip can break would say nothing.

### PaymentLedger

State: `due[a]` (status and stored paidAmount of an assessment), `pay` (payment rows
in creation order), `alloc[p, a]` (the allocation row, unique per payment and
assessment; amount 0 means there is no row, `live` means `reversedAt` is null),
`credit` (household credits, oldest first, with the paying source and, as a history
value, what was granted) and `used` (credit applications).

| Action | Code |
|---|---|
| `CreatePayment`, `CreateCheckout`, `SettleByCredit` | `create`, `createGatewayCheckout` with its two early ends |
| `UpdatePayment` | `update` with `replaceAllocations`, including the request it refuses after it has deleted the rows |
| `Verify` | `verify`; for an advance payment with `allocateAdvancePayment`, including the unique key it may hit halfway |
| `Reject`, `Refund`, `Cancel`, `RemovePayment` | the handlers of these names; `Unwind` is the tail they share |
| `GatewaySucceeded`, `GatewayFailed`, `GatewayExpired` | `markGateway...` |
| `IssueCredit`, `AdjustCredit`, `VoidCredit`, `ApplyManual` | the four officer operations on credit |
| `IssueDue`, `CancelDue`, `WaiveDue`, `SweepOverdue` | the transitions of an assessment |

Every action includes the synchronisation the handler ends with, for exactly the
assessments the handler passes to it (`SyncAssessments`), and nothing where the
code calls none. `Fifo` is the one algorithm the code uses in three places to
spread money in order. Amounts are small naturals, net of discount; a client may
ask to pay at most an assessment's amount per request (the code does not check an
explicit amount against the balance). Payments by billing period, which first
create the assessment, bonds and reactivation of inactive communities are left out.

### GatewaySettlement and OnlinePayment

State: the database (`status`, `deleted`, `linked` for a stored session, `row`,
`held`, `paid`), the gateway (`session`, `failed`, `net`), and the handlers in flight
(`pc`, `job`, `goal`, `seen`, `total` per worker). `net` is a set and messages stay
in it: delivery is at least once and unordered, and `LoseWebhook` makes it none.

A worker takes a job in a step that contains the handler's first read and its guard
(`StartCheckout`, `ReceivePaid`, `ReceiveUnpaid`, `Poll`, `StartUndo`), and then makes
one database call per step: `MarkVerified` or `ReverseAllocations`,
`ReverseForPayment`, `Close`, then `SyncRead`, `SyncSum`, `SyncWrite`. A poll asks the
gateway in between (`Retrieve`, `GatewayUnreachable`) and looks at the row once more
(`Refind`). `Crash` forgets all handlers in flight.

Two history variables name the races the handlers lose. `overtaken[w]` says that
another handler wrote what `w` had read: that closed the payment `w` is about to
verify, or stored the amount `w` has begun to recompute. `suspect` holds the
assessments whose last sync was overtaken, or was cut off by a restart; a sync that
nobody overtakes takes its assessment out again. `SyncedUnlessOverlapped` says that
nothing else puts a stored amount out of step, and `gateway_stale_sum` shows the
overlap itself, from which no later step of the two handlers recovers.

The gateway is modelled from how the code uses it: a session is open until it is
paid or expires; an attempt may fail; whether a session with a failed attempt can
still be paid is `RetryAllowed`. The payer reaches a session only after its URL was
stored and returned.

`OnlinePayment` is the promise behind it, in the household's words: a payment is
*requested*, its money is *collected* or *lost*, and it is *booked* (exactly if
collected) or *given up* (exactly if lost). The refinement mapping is `Record` (from
the row's status) and `Money` (from the session): everything else, the workers, the
messages and the polls, is how the promise is kept. `Books!FairSpec` is a property of
`gateway_undisturbed`, safety and liveness: collected money is booked in the end,
whatever is lost, repeated, late or interrupted. It holds without officers and
without retries, and the abstract specification shows why neither can be had: an
officer may cancel what is being collected, and a retry collects what was given up.

### SubscriptionInvoices

State: `inv[i]` and `link[i]` (the invoice's status and stored session), `suspended`,
`exempt` (a billing exemption is running), `trial`, `expense[i]` (how many expenses are
entered for the invoice), the sessions at the gateway (`sess`, `payee`), and the locals
of each worker. `was[w]` is the status a checkout found, to which it goes back when the
gateway refuses.

| Action | Code |
|---|---|
| `Issue`, `EndSubscription` | create (a draft), subscribe, renew, generateInvoice and the sweep's renewal, which waive the invoice of an exempt community; cancel, and lapsing in the sweep |
| `CreateCheckout`, `OpenSession`, `CheckoutRefused`, `LinkSession` | `createGatewayCheckout` around the call to the gateway |
| `ReceivePaid`, `ReceiveUnpaid` | the webhook, which finds a PROCESSING invoice by its session |
| `Settle`, `Retrieve`, `FindAgain` | `syncWithGateway` and the sweep of stale checkouts |
| `MarkGatewayPaid`, `ClearSession` | `markGatewayPaidByGateway`, failed and expired |
| `MarkPaid`, `StorePaid`, `ActivateSubscription`, `ReactivateCommunity` | `markPaid`, and the tail both ways of paying share |
| `ReactivateByPayment` | a resident's online payment lifts the suspension as well (`payments.service.ts`) |
| `FindExpense`, `NumberExpense`, `StoreExpense`, `AddExpense` | `createSubscriptionExpense` with `resolveCreatedById`, and another expense that takes its number |
| `Void`, `StoreVoid`, `Remove` | officers |
| `StartSweep`, `SweepOverdue`, `CountOverdue`, `SuspendCommunity` | the nightly sweep: who is exempt, what is overdue, who owes, who is suspended |
| `GrantExemption`, `CreateExemption`, `Reinstate`, `WaiveInvoices`, `TurnExemption` | `admin.service.ts`: a running exemption reinstates a community it found suspended and writes off what it owes |
| `Crash` | the server restarts: the tail of a payment in flight is forgotten |

The expense is entered after the invoice is PAID, in calls of its own whose failure is
logged and forgotten (`invoices.service.ts:733-741`). `missed` holds the invoices it left
without one: the number was taken by another expense (`StoreExpense`), the gateway names
no user and the community has no active one (`NumberExpense`), or the server stopped in
between (`Crash`). Marking the invoice paid by hand once more enters it. `expense[i]` is
a count, so that "once" can be said: `PaidIsExpensedOnce` rests on the unique key
`subscriptionInvoiceId`, and fails without it (`StoreExpenseUnkeyed`).

`excused` says that a community is suspended although it owes nothing, because its last
debt was voided, deleted or written off, was paid between the sweep's count and its
write, or was paid by a handler that a restart cut off before it lifted the suspension.

### DuesAutomation

State: `rows[n]`, the assessments by number (a deleted row keeps its number),
`period`, whether the due date has passed (`late`), and the locals of each worker:
households still to bill, overdue rows still to look at, the number read, the status
derived. Late fees are rows `for` another row.

| Action | Code |
|---|---|
| `Run`, `FindPeriod`, `OpenPeriod`, `CheckExisting`, `ReadNumber`, `CreateAssessments` | `processCommunity` and `ensureDuesPeriod`; `Generate` is the officers' way in |
| `CreatePeriod` | creation of billing periods by officers |
| `DerivePeriod`, `StorePeriod`, `RestateAssessments` | `syncPeriod`: derive, write if different, bring the rows in line |
| `ListOverdue`, `CheckDuplicate`, `ReadFeeNumber`, `ChargeFee` | `applyLateFees` |
| `DraftAssessment`, `Issue`, `CancelAssessment`, `WaiveAssessment`, `RemoveAssessment` | `assessments.service.ts` |
| `Pay` | a payment of the row verified or undone, with its sync |
| `UpdatePeriod`, `RemovePeriod`, `DeletePeriod`, `Sweep`, `FlipPeriod` | officers on the period; `sweepOverdue` |
| `Tick`, `Crash` | the due date passes; the server restarts |

`since[w]` holds the rows that appeared after `w` looked at who is billed (or which
row has its fee) and before it read the latest number. Only those can be doubled: a
row that appears later takes the number `w` is about to use, and the key
`[communityId, assessmentNumber]` fails the whole operation. The code does not say
that it relies on this key; `BillsOnce` and `FeesOnce` show that it does, and their
mutants (renumbering per insert, filling gaps in the numbers) that a small change
would undo it. `behind` holds the handlers that derived the period's status before
an officer wrote another, `typed` says that an officer typed a number out of order.

### AccountSessions

State: the account (`attempts`, `locked`, `account`, `user`, `deleted`), the refresh
tokens (`token[t]`), and per worker the token it was called with, the count it read
and the status it read or will write. History: `chain[t]` is the token of the login
that `t` descends from, `ended` the logins that were ended (signed out, new password,
shut out), `strays` the tokens that were issued by a request that had read what was
revoked meanwhile, `fails` the failures there really were, `skewed` that two counts
overlapped.

| Action | Code |
|---|---|
| `LoginWrong`, `CountAttempts`, `RecordFailedAttempt`, `LoginRight`, `ClearFailedAttempts`, `LockPasses` | `login`, `recordFailedAttempt`, `clearFailedAttempts` |
| `IssueRefreshToken` | `createSession` |
| `Refresh`, `CheckAccount`, `Rotate`, `RevokeExpired` | `refresh` |
| `Logout`, `ChangePassword`, `StorePassword`, `ResetPassword`, `StoreReset` | the handlers of these names |
| `UpdateUser`, `SetUserStatus`, `ActivateAccount`, `RevokeUserSessions`, `RemoveUser`, `SoftDelete` | `users.service.ts` |
| `MoveOut`, `DeactivateLinkedAccount` | `resident.service.ts` |
| `CloseHousehold`, `DeactivateLinkedAccounts` | `households.service.ts` |

### HouseholdAccounts

State: `home[p]` and `user[p]` of three people, the holders of the President role,
and the requests in flight. Handlers take account and resident numbers at one moment
and insert at another; `taken[w]` says that a number `w` holds was used meanwhile, and
the insert then fails. This is the only thing that makes "one account per household"
survive two registrations at once, and `NewHolderIsAlone` says for whom it does.
`vacant` says that the last president left by a way that asks no guard.

| Action | Code |
|---|---|
| `Register`, `FindNoUser`, `Enroll` | `register` of `auth.service.ts` from its transaction on |
| `CreateUser`, `NumberResident`, `NumberUser`, `CreateAccount`, `LinkUser`, `NumberLinkedUser`, `LinkAccount` | `users.service.ts`, create with a new and with an existing resident |
| `CreateRenter`, `NumberRenter`, `AssignRenter` | a renter's account, which replaces the active ones |
| `UpdateUser`, `GuardUpdate`, `StoreUpdate`, `RemoveUser`, `GuardRemoval`, `SoftDelete` | update and remove with `ensureNotLastActivePresident` |
| `AddResident`, `SwitchHousehold`, `MoveOut`, `DeactivateLinkedAccount`, `Deactivate`, `DeactivateLinkedAccounts` | residents and households |

### StickerNumbers

State: the committed sequence, used numbers and request statuses; per worker what
its transaction has taken and written so far. `lock` is the `FOR UPDATE` lock. A step
reads what is committed and its own writes (read committed); `Commit` and `RollBack`
end the transaction.

| Action | Code |
|---|---|
| `Request`, `StoreRequest`, `CancelRequest`, `StoreCancelled`, `RejectRequest`, `StoreRejected` | the requests |
| `ApproveRequest`, `IssueDirectly`, `ResolveNumbers`, `AllocateNumbers`, `ScanStickers`, `SyncSequence`, `Commit`, `RollBack` | approval and direct issuance with `resolveNumbers`, `allocateNumbers`, `syncSequence` |
| `EditNumber` | `update` of a sticker with another number |

A community may have stickers from before its sequence existed: `Init` starts with any
set of used numbers. `contested` holds requests of which two reviews or a cancellation
overlapped, `outside` the numbers that no issuance wrote: those from before, and those
an officer edited onto a sticker.

## Runs

| Run | Instance | Shows |
|---|---|---|
| `ledger_plain` | 2 assessments (2 and 1), 2 payments, 2 credits, 2 applications; one assessment late and managed; edits and refused checkouts on; credit applied by officers only | `PaidMatchesLedger`, `PaidStatusHonest`, `SpentCreditCounts`, `SettledByOfficerOnly` hold |
| `ledger_credit` | the same assessments; residents spend credit, advance payments on, every checkout opens | `CreditWithinGrant`, `CashHeldExactly`, `NoCreditHeldByDeadPayment` hold |
| `ledger_lost_credit` | 3 payments, 2 credits, 3 applications | `SpentCreditCounts` fails: a reversed row is topped up, not revived |
| `gateway_races` | 1 payment, 3 workers, retries, officers, 1 crash | `VerifiedOnlyIfPaid`, `ClosedHoldsNothing`, `SyncedUnlessOverlapped`, `FinalIsNotReverified` hold |
| `gateway_undisturbed` | 1 payment, 2 workers, 1 crash, no retries, no officers, fair | `GaveUpOnlyIfUnpaid`, `VerifiedKeepsItsMoney`, `LinkedIsSettled` hold, and `OnlinePayment` is implemented |
| `gateway_stale_sum` | 2 payments of 1 assessment, 2 workers, no retries, no officers, no crash | `QuietMeansSynced` fails: of two overlapping syncs the older sum is written last |
| `subscription_invoices` | 1 invoice, 2 sessions, 2 workers, exemptions, restarts | `PaidStaysPaid`, `PaidSessionIsKept`, `SuspendedOwes`, `PaidIsExpensedOnce` hold |
| `dues_automation` | 2 households, the cron job and 1 more worker, 4 numbers, 1 move of an officer, payer or crash, fair | `BillsOnce`, `FeesOnce`, `WaivedStays`, `EveryoneIsBilled` hold |
| `dues_fee_on_fee` | 1 household, the cron job, 3 numbers | `FeesAreForDues` fails: a late fee is overdue and of the same charge type, and gets a late fee |
| `account_sessions` | 2 workers, 3 tokens, a lock after 2 failures | `EndedStaysEnded`, `ShutOutHoldsNothing`, `OneTokenPerLogin`, `CountIsExact`, `LockHolds`, `ApprovedCanSignIn` hold |
| `household_accounts` | 3 people, 2 workers | `SomePresident`, `NewHolderIsAlone` hold |
| `sticker_numbers` | 1 request of two stickers, 3 numbers of which any may be used before, 2 workers | `SequenceIsFree`, `IssuedAsApproved` hold |

Each module has one type invariant, checked in one of its runs.

### Conditions

The runs hold under conditions that are part of what they show. Each of the
following was found by lifting a condition, and is what the code does:

- Residents' spending credit on a payment allocates on a VERIFIED source and
  synchronises nothing: `PaidMatchesLedger` fails with `ApplyCredit` and three
  payments.
- An advance payment that was created with targets already has rows; verifying it meets
  their unique key, after the payment was set to VERIFIED and before that assessment is
  synchronised: `PaidMatchesLedger` fails with `Advances` and two payments. The credit an
  advance payment leaves loses its rows as in `ledger_lost_credit` when it is voided and
  adjusted upwards again: `SpentCreditCounts` fails with `Advances`.
- A checkout the gateway refuses leaves a FAILED payment that keeps its credit:
  `NoCreditHeldByDeadPayment` fails with `CheckoutErrors`.
- An edited amount leaves the allocation rows of a PENDING payment as they were:
  `CashHeldExactly` fails with `Edits`. And verifying an advance payment that was
  created with targets allocates its amount a second time; `CashHeldExactly` speaks of
  cash and online payments only.
- A handler that read PROCESSING verifies a payment that another handler or an officer
  has closed meanwhile: `FinalIsNotReverified` excuses the handler that was overtaken
  while it was about to verify.
- Of two overlapping syncs the older sum may be written last, and a restart between an
  undo and its sync leaves the amount as it was: nothing repeats the sync until another
  payment of that assessment does. `SyncedUnlessOverlapped` says when, and
  `QuietMeansSynced` fails.
- A server that stops between creating a payment and storing its session leaves it
  PROCESSING for good: the sweep looks for stored sessions. `LinkedIsSettled` speaks of
  linked payments for that reason.
- A poll that sees a failed attempt expires a payment whose session may be paid
  afterwards: `GaveUpOnlyIfUnpaid` fails with `RetryAllowed`. The same happens to
  invoices, where `PaidSessionIsKept` therefore speaks of sessions paid at once.
- Voiding or deleting the last unpaid invoice does not lift a suspension; paying does.
  Nor does the write-off of an exemption, if the sweep suspends between the
  reinstatement and it.
- A checkout writes PROCESSING over an invoice that was paid or voided meanwhile, and a
  late void over one that was paid: `PaidStaysPaid` excuses handlers that read the
  invoice before.
- An expense whose number another expense took, whose community has no active user, or
  whose handler a restart cut off, is not entered, and nobody tries again unless an
  officer marks the invoice paid once more.
- Deleting an empty month's billing period keeps its unique key. The daily run does not
  find the period, fails to create it, and its loop ends there, for the communities
  that follow too; `EveryoneIsBilled` excludes the deleted period.
- `syncPeriod` marks a period PAID when every assessment is PAID, and its comment says
  PAID or WAIVED; a waived period waives its ISSUED rows, while OVERDUE ones stay owed.
- Closing a household makes its users INACTIVE and leaves account statuses and tokens;
  these tokens are among the strays. Every later refresh checks the user's status.
- Moving out, a renter's account and closing a household do not ask whether the last
  president goes.
- An officer's edit of a sticker's number does not move the sequence
  (`vehicle-stickers.service.ts:1143`); automatic issuance that reaches that number
  fails until the issuance of a typed or wished number moves the sequence beyond it.
  The same holds of stickers from before the sequence: `allocateNumbers` comes before
  `syncSequence`, which would have moved it, and the failing insert rolls both back.
- The excuses of the properties about accounts, dues and stickers (`skewed`, `strays`,
  `overtaken`, `vacant`, `contested`, `since`, `behind`) are races the code loses too:
  counts that overlap, a refresh that read before a revocation, two presidents who
  demote each other, a request verified twice at once, a bill that appears between a
  run's look and its reading of the number, a sync that read before a waiver.

### Bounds

Two assessments, one of which takes two payments to settle, are the least with a
partial payment and a payment of two targets. Two payments with two credits reach a
credit issued, spent, its source undone, and the payer undone, in every order; the
failing run has three payments so that a source, a payer and a competitor exist
together. `MaxPayments`, `MaxCredits`, `MaxUses` are guards of the actions that
append. Two workers show every pairwise overlap; the handlers share nothing but rows,
so a third adds no new kind of step. `gateway_races` has three for the one excuse that
needs them: whoever overtakes a sync may itself have been overtaken. One crash reaches every point at which a handler
can stop, as its work is never resumed.

- `subscription_invoices`: invoices meet in the suspension and in expense numbers only;
  with one, the suspension depends on it alone, which is where a race shows, and
  `AddExpense` stands for all other expenses. Two sessions are the least in which one
  replaces another.
- `dues_automation`: two households are the least of which one is billed and one left
  out. Four numbers hold a bill for each and a fee for each, or a double bill.
  `MaxMoves` bounds what officers, payers and crashes do; the scheduled run, the clock
  and sweeps are not bounded by it. Runs stop at the last number (`OutOfNumbers`), the
  one place where a bound shows in a property.
- `account_sessions`: three tokens are a login, its rotation and a second device, or
  two rotations. A lock after two failures tells the last permitted failure from the
  one before; `MaxFails` equals it, and the count it bounds includes what is counted
  after the lock has passed.
- `household_accounts`: a president, a newcomer and a competitor.
- `sticker_numbers`: two stickers and a competitor's number; a third of the sequence is
  left for what is typed, or was there before.

Symmetry is used for workers, people and invoices, in runs with safety properties only.

`CHECK_DEADLOCK FALSE` is set where the system may rightly have nothing to do: every
payment settled with no event outstanding, or the tokens, sticker numbers or
assessment numbers of the instance used up.

### Fairness

`Fairness` in `GatewaySettlement`: a started handler takes its next step (weak, per
worker: the Node event loop); a session that is open for ever does not exist (weak:
the gateway expires sessions); each unsettled stored session is polled again and
again, and the gateway answers some poll (strong: the five-minute cron sweep walks
through all of them, and a worker being busy, or one unreachable gateway, only delays
it). No fairness is assumed of webhooks, payers or officers. `OnlinePayment` asks in
return for weak fairness of booking what was collected.

`FairSpec` in `DuesAutomation`: the scheduler starts the daily run whenever the last one
has ended (weak, `dues-automation.service.ts:39`), and a started handler goes on (weak).
Nothing is assumed of officers, payers or the clock.

The other modules have safety properties only: what they would promise in the end
(that a session is settled, that a review is finished) rests on retries by people.

## Proofs

Every safety property that a passing run checks is also a theorem, for every value of
the constants that the `...Constants` assumption of its module permits. TLC found out
that the formula, and the inductive invariant behind it, hold on small instances before each
was proved; the proofs say that the instances were not too small.

Each proof has the same shape: an invariant that every step keeps (`...Step`), one step
of the proof per action, and then the property from it. What follows says why the
property alone is not enough and what the invariant adds. Where a theorem has a
hypothesis on a constant, the property fails without it, as said under *Conditions*.

### PaymentLedger

| Theorem | States | Hypothesis | Invariant |
|---|---|---|---|
| `TypeCorrect` | `[]TypeOK` | | `TypeInv` |
| `StatusIsHonest` | `[]PaidStatusHonest` | | inductive given `TypeInv` |
| `OfficersSettle` | `SettledByOfficerOnly` | | `TypeInv`, `DueMoved` |
| `GrantIsNotExceeded` | `[]CreditWithinGrant` | | `GrantInv` |
| `DeadPaymentsHoldNoCredit` | `[]NoCreditHeldByDeadPayment` | not `CheckoutErrors` | `PayerInv` |
| `CashIsHeldExactly` | `[]CashHeldExactly` | not `Edits` | `CashInv` |
| `PaidIsTheLedger` | `[]PaidMatchesLedger` | neither `ApplyCredit` nor `Advances` | `BackedInv`, `PaidInv` |
| `AppliedCreditCounts` | `[]SpentCreditCounts` | neither `ApplyCredit` nor `Advances` | `SoundInv` |

An action of this module is a whole request, and its next state is computed by a chain
of operators (`Fifo`, `SpendAll`, `GiveBack`, `ClearCredit`, `SyncAssessments`). The
proofs therefore go in three layers: lemmas about sums and folds, lemmas that say what
each operator leaves of the books (`...Shape`), and lemmas that say what each action does
(`...Effect`), from which each invariant is preserved.

- *Sums and folds.* `MapThenFoldSet` and `SumFunctionOnSet` are recursions over finite
  sets. `CountingInduction` and `SubsetInduction` state induction over a *set* of good
  numbers or subsets, and follow from the well-foundedness of the order of the naturals.
  `FoldExists` and `FoldUnique` give every fold of the module its equation, and from that
  come the laws of sums the proofs need (`SumRemove`, `SumOfSum`, `SumSplit`,
  `SumCongruence`, `SumBounds`).
- `TypeInv` says that the books are well formed: applications name credits that exist,
  credits name payments that exist. Only then is what an undo reads, by following an
  application to its credit and that to its source, a row at all.
- `GrantInv` is `CreditWithinGrant`, said of the books in the middle of a request:
  `SpendWithin` shows that each application takes from the balance what it adds to the
  applications, and that an undo gives back at most once what an application holds.
- `PayerInv` says that a live application was made for a payment that stands. An undo
  retires every application of its payer before the payer stops standing; a refused
  checkout does not.
- `CashInv` adds that rows of payments that do not exist yet are dead (`UnbornInv`, for a
  payment inherits whatever its row held), and that credit comes from advance payments
  and issued credit only (`SourceInv`), so that spending and giving back credit touch no
  row of a cash or online payment.
- `PaidMatchesLedger` speaks of the assessments a handler does *not* synchronise.
  `BackedInv` says why they are not touched: every live row of a payment that is a source
  of credit has a live application behind it (`Backing`), so a handler that follows the
  applications finds all the rows that change. That needs every credit to have its own
  source, which an advance payment verified twice would break.
- `SoundInv` says the converse, and relates the two records of the same money: the row of
  every live application is live as long as its source is a standing credit, and a dead
  row of such a source is empty. The second half is what `ledger_lost_credit` loses: a
  reversal leaves the amount in the dead row, and the next application tops it up. With
  officers' applications only, no live source has had its rows reversed.

### GatewaySettlement and OnlinePayment

| Theorem | States | Hypothesis | Invariant |
|---|---|---|---|
| `TypeCorrect` | `[]TypeOK` | | inductive, as it says that a busy worker has a job |
| `NothingVerifiedUnpaid` | `[]VerifiedOnlyIfPaid` | | `PaidInv` |
| `NothingLeftBehind` | `[]ClosedHoldsNothing` | | `HoldInv` |
| `NothingPaidGivenUp` | `[]GaveUpOnlyIfUnpaid` | not `RetryAllowed` | `GiveUpInv` |
| `VerifiedMoneyKept` | `[]VerifiedKeepsItsMoney` | neither `RetryAllowed` nor `Officers` | `KeptInv` |
| `FinalStaysFinal` | `FinalIsNotReverified` | | `RightsKnown` |
| `StoredIsTheLedger` | `[]SyncedUnlessOverlapped` | | `SyncInv` |
| `GatewayImplementsOnlinePayment` | `Books!Spec` | neither `RetryAllowed` nor `Officers` | `MapInv` |

`VerifiedOnlyIfPaid` is not inductive: the writer of VERIFIED does not look at the
session. `PaidInv` adds what every worker knows at each label (`CollectionKnown`: at
"verify", and at "refind" with a good answer, the session is paid, because each
webhook in `net` tells the truth), that undoing workers do not carry the goal
VERIFIED, and that sessions never go back (`OpenedOnce`: a session is opened by the
worker that created the row, and `Started`: rows are created once). `HoldInv` adds
what an undoing worker has left behind at each label (`Released`), which no other
worker can spoil because rows and credit are live only from creation on. `GiveUpInv`
adds that whoever gives a payment up knows its session is `Lost`, and that a lost
session stays lost; this is where a retry breaks the argument. `KeptInv` adds that a
payment's money goes only with a lost session.

`RightsKnown` says what a handler about to verify still knows if nobody overtook it: the
payment has not been closed. `SyncInv` follows a sync through its three calls
(`ReadingsFresh`): as long as it is not overtaken, the amount it read is the amount
stored, and the sum it is about to write is the sum there is, or another handler has
changed the ledger since and will sync after it. That is where an overlap shows: the
sync that writes second must have been overtaken by the first, or have summed up what
the first left. Whoever leaves the stored amount behind is therefore still on its way
to store it (`Unsettled`), was cut off, or was overtaken (`suspect`).

The safety part of the refinement is proved: `Spec => Books!Spec`. Its invariant `MapInv`
is `KeptInv` with `Untouched`: nobody but the worker that created a payment acts on it
before it has a session. A step that leaves status, session and failed attempt alone is a
stutter (`BooksStutter`), and an open session with no failed attempt is undecided
(`Undecided`); from these each of the other steps is the one step of `OnlinePayment` it
looks like, or a stutter (`BooksStep`). Both conditions are needed: TLC refutes
`Books!Spec` as soon as `RetryAllowed` or `Officers` is set, and `gateway_races` checks
what is left then.

### SubscriptionInvoices

| Theorem | States | Invariant |
|---|---|---|
| `TypeCorrect` | `[]TypeOK` | `TypeInv` |
| `PaymentsStay`, `SessionsStay` | `PaidStaysPaid`, `PaidSessionIsKept` | `IInv` |
| `SuspensionIsOwed` | `[]SuspendedOwes` | with `IInv`, inductive |
| `PaidExpensedOnce` | `[]PaidIsExpensedOnce` | with `IInv`, inductive |

The two action properties excuse workers that were overtaken; `FreshInv` says what a
worker that was not still knows: the invoice it will write has the status, and the
session, that it read. That an expense is entered once needs no such knowledge, as it is
the unique key that refuses the second; that it is entered at all is carried by whoever
wrote PAID, from one label of the tail to the next (`Recording`). `TypeInv` adds what a worker holds at each label (`Holding`), above
all that the session it gives up was not paid at once.

### DuesAutomation

| Theorem | States | Invariant |
|---|---|---|
| `TypeCorrect` | `[]TypeOK` | `TypeInv` |
| `WaiverStays` | `WaivedStays` | `AbreastInv` |
| `BilledOnce`, `ChargedOnce` | `BillsOnce`, `FeesOnce` | `KnowInv` |

That a household is billed once rests on the key of assessment numbers, and the proof
says how. As long as officers type no numbers, the taken numbers have no gap (`Gapless`).
So the number after the one a worker read is free only if no row was inserted since, and
then the worker knows of every bill but those that came between its look and its reading
(`Informed`); if it is not free, the insert fails. A late fee is charged likewise.

### AccountSessions

| Theorem | States | Invariant |
|---|---|---|
| `TypeCorrect` | `[]TypeOK` | `TypeInv` |
| `CountStaysExact`, `LockIsHeld` | `[]CountIsExact`, `LockHolds` | `CountInv` |
| `ApprovedSignsIn` | `[]ApprovedCanSignIn` | inductive given `TypeInv` |
| `OneLoginOneToken` | `[]OneTokenPerLogin` | `RotationInv` |
| `EndedLoginsStayEnded` | `[]EndedStaysEnded` | `EndInv` |
| `ShutOutHasNothing` | `[]ShutOutHoldsNothing` | `ShutInv` |

The properties speak of tokens, and tokens are issued at the end of handlers that decided
long before. Each invariant speaks of these handlers too: `RotationInv` of the requests
that will continue a login (`Renewing`: one at most, and while there is one the login has
no live token), `EndInv` of those that read what is still so (`Timely`: none of an ended
login), `ShutInv` of those that will not look at the user again (`Admitted`: none, once the
user is shut out and the tokens are revoked). `TypeInv` adds that every token descends
from one that was issued (`Chained`).

### HouseholdAccounts

| Theorem | States | Invariant |
|---|---|---|
| `TypeCorrect` | `[]TypeOK` | `TypeInv` |
| `PresidencyIsHeld` | `[]SomePresident` | `PresidentInv` |
| `NewcomersAreAlone` | `NewHolderIsAlone` | `HolderInv` |

`PresidentInv` adds that a request past the guard, about to take a status or a role from
an active president, still has another one to count on, unless it was overtaken
(`Guarded`). `HolderInv` adds that a request that found no holder still finds none, or was
overtaken, or has lost its number and will fail (`NoHolder`); the type invariant needs to
know that someone about to be added is about to be added by one request only (`Alone`).

### StickerNumbers

| Theorem | States | Invariant |
|---|---|---|
| `TypeCorrect` | `[]TypeOK` | inductive, as it says that a worker that has written the sequence has locked it |
| `IssuanceNeverFails` | `[]SequenceIsFree` | `NumberInv` |
| `ApprovedAndIssued` | `[]IssuedAsApproved` | `ReviewInv` |

`SequenceIsFree` is not inductive: a commit may insert whatever a worker holds.
`NumberInv` adds `Reserved`, that whoever has taken numbers holds the lock and has
moved its copy of the sequence beyond them, and that a typed number is below that copy
by the time it is inserted (so the lock is held when `used` grows); and `Wanted`, that
a worker that asks the sequence asks for one number at least. That the highest number
`syncSequence` reads is the highest there is (`HighestIsHighest`) rests on the order of
the naturals being well-founded. `ReviewInv` adds what a reviewer that was not overtaken
knows of the request it will approve, and that whoever stores a new one is alone with it.

### Only model-checked

Liveness is out of the prover's reach and stays with TLC: `LinkedIsSettled`,
`EveryoneIsBilled`, and the fairness part of `ImplementsOnlinePayment`. So do the three
properties that are expected to fail, of which TLC gives the counterexample.

## Plan

Done: `PaymentLedger`, `GatewaySettlement`, `OnlinePayment` and the refinement,
`SubscriptionInvoices`, `DuesAutomation`, `AccountSessions`, `HouseholdAccounts`,
`StickerNumbers`, with proofs of all their safety properties.

Left, in this order:

1. Abstract specifications of the other components with a refinement proof, as
   `OnlinePayment` has: the household's money behind `PaymentLedger`, and the sign-in
   behind `AccountSessions`.
2. Requests for a household (`households.service.ts`), which end in
   `HouseholdAccounts`' `SwitchHousehold`.
3. Advance payments by billing period, which meet `DuesAutomation` in the assessments
   they create.
4. Items, reservations and polls: one check and one write each.

## Not modelled

Component by component in `PROJECT.json`. Within the modelled parts:

- Money: wording, notifications, numbering of payments, the 0.005 rounding tolerance
  (amounts are integers here), construction bonds, and the isolation of the few
  transactions in the code, which `PaymentLedger` treats as atomic. `GatewaySettlement`
  gives credit back in one step (`ReverseForPayment`), while `reverseForPayment` reads the
  applications and restores them one by one: two undos that overlap there may give the
  same credit back twice (`household-credit.service.ts:264-296`).
- Invoices: edits, plans, and the features a plan switches on. In one step each: the read
  and the write of a reactivation (`invoices.service.ts:239-260`), between which an
  officer might deactivate the community by hand; the look for an exemption and the
  invoice that follows it (`subscriptions.service.ts:435-455`); the user who enters an
  expense and its number (`NumberExpense`).
- Dues: charge types other than one, months other than one, grace days, edits of
  amounts, and moves of a row between periods. A household's row, the credit applied to
  it and its sync are one step (`Insert`, `dues-automation.service.ts:137-172`), and so
  are the lazy sweep's read of a period and its write (`Sweep`).
- Accounts: session rows (written, read nowhere), one-time codes, e-mails, verification
  of residents, good standing. Closing a household reads its members and then writes
  their users (`households.service.ts:146-167`), here in one step.
- Stickers: fees, validity, deletion, and numbers outside the sequence's form.
- Everywhere: authorisation and tenancy (one community).

Items, reservations and polls are small and independent of the rest: each reads one
counter, slot or ballot and then writes it, and what an overlap does is in the list of
hazards. They are left out in favour of parts where state of several kinds has to agree.
