--------------------------- MODULE DuesAutomation ---------------------------
(***************************************************************************)
(* The dues of one month in one community: the daily run that bills every  *)
(* active household and charges late fees, the officers who bill by hand,  *)
(* move assessments and edit the billing period, and the overdue sweep     *)
(* (finance/dues-automation.service.ts, assessments.service.ts,            *)
(* billing-periods.service.ts, finance-sync.service.ts).                   *)
(*                                                                         *)
(* One charge type, generated automatically, with a late fee and no grace  *)
(* days, and its billing period of the month.  Assessments are rows of the *)
(* key [communityId, assessmentNumber]; the key and the latest number      *)
(* count deleted rows, of which nothing else is left.  Every row falls due *)
(* with the period.  Paying is a single step, from credit or not           *)
(* (PaymentLedger has it in full), and PARTIALLY_PAID goes with ISSUED.    *)
(*                                                                         *)
(* since, behind and typed are history.                                    *)
(***************************************************************************)
EXTENDS Integers, FiniteSets

CONSTANTS
    Households, \* the active households
    Workers,    \* requests that may be in flight
    Cron,       \* the scheduled job, one of the workers
    MaxNumber,  \* bound on assessment numbers
    MaxMoves    \* bound on what officers and payers do, and on restarts

ASSUME DuesConstants ==
    /\ MaxNumber \in Nat \ {0} /\ MaxMoves \in Nat
    /\ Cron \in Workers /\ Households # {}

Numbers == 1 .. MaxNumber
Dues == 0  \* what a row is for that is no late fee

VARIABLES
    rows,    \* rows[n]: the assessment numbered n
    period,  \* BillingPeriod.status, none, or deleted
    late,    \* the due date has passed
    moves,   \* what officers and payers have done, and restarts
    pc,      \* pc[w]: what worker w does next
    job,     \* job[w]: the operation it is part of
    todo,    \* todo[w]: households w has still to bill
    list,    \* list[w]: overdue rows w has still to look at
    target,  \* target[w]: the row w charges a fee for
    number,  \* number[w]: the latest assessment number, as w read it
    seen,    \* seen[w]: the period's status, as w derived it
    since,   \* since[w]: rows inserted or revived since w looked for them
    behind,  \* workers that have read the period before its last edit
    typed    \* an officer typed a number that was not the next one

flow == <<pc, job>>
locals == <<todo, list, target, number, seen>>
world == <<late, moves>>
history == <<since, behind, typed>>
vars == <<rows, period, world, flow, locals, history>>

Open == {"ISSUED", "OVERDUE"}
RowStatuses == Open \cup {"none", "deleted", "DRAFT", "PAID", "WAIVED", "CANCELLED"}
PeriodStatuses == {"OPEN", "PAID", "OVERDUE", "WAIVED", "CANCELLED"}
Jobs == {"none", "run", "generate", "open", "sync", "sweep", "remove"}
Labels == {"idle", "ensuring", "opening", "checking", "numbering", "creating",
           "deriving", "storing", "restating", "listing", "charging", "feeNumbering", "feeing",
           "flipping", "removing"}
NoRow == [home |-> CHOOSE h \in Households : TRUE, status |-> "none", paid |-> FALSE,
          for |-> Dues]

At(w, label) == pc[w] = label
Taken(n) == rows[n].status # "none"

\* A fee comes after what it is for.
TypeOK ==
    /\ rows \in [Numbers -> [home : Households, status : RowStatuses, paid : BOOLEAN,
                             for : Numbers \cup {Dues}]]
    /\ period \in PeriodStatuses \cup {"none", "deleted"}
    /\ late \in BOOLEAN /\ moves \in 0 .. MaxMoves
    /\ pc \in [Workers -> Labels] /\ job \in [Workers -> Jobs]
    /\ todo \in [Workers -> SUBSET Households] /\ list \in [Workers -> SUBSET Numbers]
    /\ target \in [Workers -> Numbers \cup {Dues}]
    /\ number \in [Workers -> 0 .. MaxNumber]
    /\ seen \in [Workers -> PeriodStatuses \cup {"none"}]
    /\ since \in [Workers -> SUBSET Numbers] /\ behind \subseteq Workers
    /\ typed \in BOOLEAN
    /\ \A n \in Numbers : rows[n].for < n

Init ==
    /\ rows = [n \in Numbers |-> NoRow]
    /\ period = "none" /\ late = FALSE /\ moves = 0
    /\ pc = [w \in Workers |-> "idle"] /\ job = [w \in Workers |-> "none"]
    /\ todo = [w \in Workers |-> {}] /\ list = [w \in Workers |-> {}]
    /\ target = [w \in Workers |-> Dues] /\ number = [w \in Workers |-> 0]
    /\ seen = [w \in Workers |-> "none"]
    /\ since = [w \in Workers |-> {}] /\ behind = {} /\ typed = FALSE

-----------------------------------------------------------------------------
Live(n) == rows[n].status \notin {"none", "deleted"}
Latest == IF \E n \in Numbers : Taken(n)
          THEN CHOOSE n \in Numbers : Taken(n) /\ \A m \in Numbers : Taken(m) => m <= n
          ELSE 0
Bills == {n \in Numbers : Live(n) /\ rows[n].for = Dues}
Uncancelled == {n \in Bills : rows[n].status # "CANCELLED"}
Fees(n) == {m \in Numbers : Live(m) /\ rows[m].for = n}

\* The rows of h that keep operation j from billing it: the run counts the
\* cancelled ones, the officers' generation does not.
Counted(j, h) ==
    {n \in IF j = "run" THEN Bills ELSE Uncancelled : rows[n].home = h}

Determine(s, paid) ==
    IF s \in {"CANCELLED", "WAIVED"} THEN s
    ELSE IF paid THEN "PAID"
    ELSE IF late THEN "OVERDUE" ELSE "ISSUED"

Goto(w, label) == pc' = [pc EXCEPT ![w] = label] /\ UNCHANGED job
Begin(w, j, label) ==
    /\ At(w, "idle")
    /\ pc' = [pc EXCEPT ![w] = label] /\ job' = [job EXCEPT ![w] = j]
    /\ UNCHANGED locals

\* The handler returns or throws.
Return(w) ==
    /\ pc' = [pc EXCEPT ![w] = "idle"] /\ job' = [job EXCEPT ![w] = "none"]
    /\ todo' = [todo EXCEPT ![w] = {}] /\ list' = [list EXCEPT ![w] = {}]
    /\ target' = [target EXCEPT ![w] = Dues] /\ number' = [number EXCEPT ![w] = 0]
    /\ seen' = [seen EXCEPT ![w] = "none"] /\ since' = [since EXCEPT ![w] = {}]

Bill(h, s) == [home |-> h, status |-> s, paid |-> FALSE, for |-> Dues]

\* Row n appears behind the backs of those who have looked.
Appears(n) ==
    since' = [v \in Workers |->
        IF pc[v] \in {"numbering", "feeNumbering"} THEN since[v] \cup {n} ELSE since[v]]

\* w writes the period; the others that have read it and will write it are behind.
WritePeriod(w, s) ==
    LET readers == {v \in Workers : pc[v] \in {"storing", "flipping"}}
    IN  /\ period' = s
        /\ behind' = (IF s = period THEN behind ELSE behind \cup readers) \ {w}

Move(w) == w # Cron /\ moves < MaxMoves /\ moves' = moves + 1 /\ UNCHANGED late

-----------------------------------------------------------------------------
(* Billing: the daily run and the officers' generation.                    *)

\* By the schedule, or by an officer.
Run(w) ==
    /\ IF w = Cron THEN UNCHANGED world ELSE Move(w)
    /\ Begin(w, "run", "ensuring")
    /\ UNCHANGED <<rows, period, history>>

Generate(w) ==
    /\ Move(w)
    /\ Begin(w, "generate", "ensuring")
    /\ UNCHANGED <<rows, period, history>>

\* create and generate of billing periods, which pass over one that exists.
CreatePeriod(w) ==
    /\ Move(w)
    /\ period \in {"none", "deleted"}
    /\ Begin(w, "open", "opening")
    /\ UNCHANGED <<rows, period, history>>

\* FindPeriod when a period that is there counts as billed.
FindPeriodBilled(w) ==
    /\ At(w, "ensuring")
    /\ Goto(w, IF period \in PeriodStatuses THEN "listing" ELSE "opening")
    /\ UNCHANGED <<rows, period, world, locals, history>>

FindPeriod(w) ==
    /\ At(w, "ensuring")
    /\ Goto(w, IF period \in PeriodStatuses THEN "checking" ELSE "opening")
    /\ UNCHANGED <<rows, period, world, locals, history>>

\* The period's key counts a deleted period too.
OpenPeriod(w) ==
    /\ At(w, "opening")
    /\ IF period # "none" THEN Return(w) /\ UNCHANGED period
       ELSE /\ period' = "OPEN"
            /\ IF job[w] = "open" THEN Return(w)
               ELSE Goto(w, "checking") /\ UNCHANGED <<locals, since>>
    /\ UNCHANGED <<rows, world, behind, typed>>

\* With nobody to bill the run goes on to the late fees; the officers' generation
\* throws.
CheckExisting(w) ==
    LET eligible == {h \in Households : Counted(job[w], h) = {}}
    IN  /\ At(w, "checking")
        /\ IF eligible = {} /\ job[w] = "generate" THEN Return(w)
           ELSE /\ todo' = [todo EXCEPT ![w] = eligible]
                /\ Goto(w, IF eligible = {} THEN "listing" ELSE "numbering")
                /\ UNCHANGED <<list, target, number, seen, since>>
        /\ UNCHANGED <<rows, period, world, behind, typed>>

ReadNumber(w) ==
    /\ At(w, "numbering")
    /\ number' = [number EXCEPT ![w] = Latest]
    /\ Goto(w, "creating")
    /\ UNCHANGED <<rows, period, world, todo, list, target, seen, history>>

\* Household h gets row n; the key refuses a used number, which ends the whole
\* operation.
Insert(w, h, n) ==
    IF Taken(n) THEN Return(w) /\ UNCHANGED rows
    ELSE /\ rows' = [rows EXCEPT ![n] = Bill(h, Determine("ISSUED", FALSE))]
         /\ Appears(n)
         /\ todo' = [todo EXCEPT ![w] = @ \ {h}]
         /\ number' = [number EXCEPT ![w] = n]
         /\ Goto(w, IF todo[w] = {h} THEN "deriving" ELSE "creating")
         /\ UNCHANGED <<list, target, seen>>

\* CreateAssessments when each insert reads the latest number again.
CreateRenumbered(w) ==
    /\ At(w, "creating")
    /\ Latest < MaxNumber
    /\ \E h \in todo[w] : Insert(w, h, Latest + 1)
    /\ UNCHANGED <<period, world, behind, typed>>

\* The number is read once and counted up from there.
CreateAssessments(w) ==
    /\ At(w, "creating")
    /\ number[w] < MaxNumber
    /\ \E h \in todo[w] : Insert(w, h, number[w] + 1)
    /\ UNCHANGED <<period, world, behind, typed>>

-----------------------------------------------------------------------------
(* The billing period's status.                                            *)

\* Derived without regard to the status the period has.
DerivedAfresh ==
    LET active == {rows[n].status : n \in Uncancelled}
    IN  IF active = {"PAID"} THEN "PAID"
        ELSE IF "OVERDUE" \in active /\ late THEN "OVERDUE" ELSE "OPEN"

Derived ==
    LET active == {rows[n].status : n \in Uncancelled}
    IN  IF period \in {"WAIVED", "CANCELLED"} THEN period
        ELSE IF period = "deleted" THEN "CANCELLED"
        ELSE IF active = {"PAID"} THEN "PAID"
        ELSE IF "OVERDUE" \in active /\ late THEN "OVERDUE" ELSE "OPEN"

\* syncPeriod reads the period with its assessments ...
DerivePeriod(w) ==
    LET read == IF period = "deleted" THEN "CANCELLED" ELSE period
    IN  /\ At(w, "deriving")
        /\ seen' = [seen EXCEPT ![w] = Derived]
        /\ behind' = behind \ {w}
        /\ Goto(w, IF Derived = read THEN "restating" ELSE "storing")
        /\ UNCHANGED <<rows, period, world, todo, list, target, number, since, typed>>

\* ... writes the status if it is another one ...
StorePeriod(w) ==
    /\ At(w, "storing")
    /\ WritePeriod(w, IF period = "deleted" THEN period ELSE seen[w])
    /\ Goto(w, "restating")
    /\ UNCHANGED <<rows, world, locals, since, typed>>

Restated(from, to) ==
    [n \in Numbers |-> IF n \in Bills /\ rows[n].status = from
                       THEN [rows[n] EXCEPT !.status = to] ELSE rows[n]]

\* ... and brings the assessments in line with it.
RestateAssessments(w) ==
    /\ At(w, "restating")
    /\ rows' = IF seen[w] = "WAIVED" THEN Restated("ISSUED", "WAIVED")
               ELSE IF seen[w] \in {"PAID", "CANCELLED"} THEN Restated("WAIVED", "ISSUED")
               ELSE rows
    /\ IF job[w] # "run" THEN Return(w)
       ELSE /\ Goto(w, "listing")
            /\ since' = [since EXCEPT ![w] = {}]
            /\ UNCHANGED <<todo, list, target, number, seen>>
    /\ UNCHANGED <<period, world, behind, typed>>

-----------------------------------------------------------------------------
(* Late fees.                                                              *)

\* Every open row of the charge type past its due date, fees included.
ListOverdue(w) ==
    LET overdue == {n \in Numbers : /\ Live(n) /\ rows[n].status \in Open
                                    /\ ~rows[n].paid /\ late}
    IN  /\ At(w, "listing")
        /\ IF overdue = {} THEN Return(w)
           ELSE /\ list' = [list EXCEPT ![w] = overdue]
                /\ Goto(w, "charging")
                /\ UNCHANGED <<todo, target, number, seen, since>>
        /\ UNCHANGED <<rows, period, world, behind, typed>>

\* CheckDuplicate when it does not look.
CheckNoDuplicate(w) ==
    /\ At(w, "charging")
    /\ IF list[w] = {} THEN Return(w)
       ELSE \E n \in list[w] :
                /\ list' = [list EXCEPT ![w] = @ \ {n}]
                /\ target' = [target EXCEPT ![w] = n] /\ Goto(w, "feeNumbering")
                /\ since' = [since EXCEPT ![w] = {}]
                /\ UNCHANGED <<todo, number, seen>>
    /\ UNCHANGED <<rows, period, world, behind, typed>>

\* A row that has its fee is passed over; any other is charged next.
CheckDuplicate(w) ==
    /\ At(w, "charging")
    /\ IF list[w] = {} THEN Return(w)
       ELSE \E n \in list[w] :
                /\ list' = [list EXCEPT ![w] = @ \ {n}]
                /\ IF Fees(n) # {} THEN UNCHANGED <<flow, target>>
                   ELSE target' = [target EXCEPT ![w] = n] /\ Goto(w, "feeNumbering")
                /\ since' = [since EXCEPT ![w] = {}]
                /\ UNCHANGED <<todo, number, seen>>
    /\ UNCHANGED <<rows, period, world, behind, typed>>

\* ReadFeeNumber when gaps are filled.
ReadFreeNumber(w) ==
    /\ At(w, "feeNumbering")
    /\ ~(\A n \in Numbers : Taken(n))
    /\ number' = [number EXCEPT ![w] =
            (CHOOSE n \in Numbers : ~Taken(n) /\ \A m \in 1 .. n - 1 : Taken(m)) - 1]
    /\ Goto(w, "feeing")
    /\ UNCHANGED <<rows, period, world, todo, list, target, seen, history>>

ReadFeeNumber(w) ==
    /\ At(w, "feeNumbering")
    /\ number' = [number EXCEPT ![w] = Latest]
    /\ Goto(w, "feeing")
    /\ UNCHANGED <<rows, period, world, todo, list, target, seen, history>>

\* The fee is overdue at once, and is of the same charge type.
ChargeFee(w) ==
    LET n == number[w] + 1
        fee == [home |-> rows[target[w]].home, status |-> "OVERDUE", paid |-> FALSE,
                for |-> target[w]]
    IN  /\ At(w, "feeing")
        /\ n <= MaxNumber
        /\ IF Taken(n) THEN Return(w) /\ UNCHANGED rows
           ELSE /\ rows' = [rows EXCEPT ![n] = fee]
                /\ Appears(n)
                /\ target' = [target EXCEPT ![w] = Dues]
                /\ Goto(w, "charging")
                /\ UNCHANGED <<todo, list, number, seen>>
        /\ UNCHANGED <<period, world, behind, typed>>

-----------------------------------------------------------------------------
(* Officers and payers.                                                    *)

\* create: a draft in the period, its number the next one or typed.
DraftAssessment(w, h, n) ==
    /\ Move(w)
    /\ period \in PeriodStatuses /\ ~Taken(n)
    /\ rows' = [rows EXCEPT ![n] = Bill(h, "DRAFT")]
    /\ Appears(n)
    /\ typed' = (typed \/ n # Latest + 1)
    /\ Begin(w, "sync", "deriving")
    /\ UNCHANGED <<period, behind>>

\* issue, which may revive a cancelled row and does not look at the period.
Issue(w, n) ==
    /\ w # Cron /\ At(w, "idle")
    /\ Live(n) /\ rows[n].status \in {"DRAFT", "CANCELLED"}
    /\ rows' = [rows EXCEPT ![n].status = "ISSUED"]
    /\ since' = [v \in Workers |-> IF pc[v] = "idle" THEN since[v] ELSE since[v] \cup {n}]
    /\ UNCHANGED <<period, world, flow, locals, behind, typed>>

\* cancel, waive.
MoveAssessment(w, n, s, refused) ==
    /\ Move(w)
    /\ Live(n) /\ rows[n].status \notin refused
    /\ rows' = [rows EXCEPT ![n].status = s]
    /\ IF rows[n].for = Dues THEN Begin(w, "sync", "deriving")
       ELSE At(w, "idle") /\ UNCHANGED <<flow, locals>>
    /\ UNCHANGED <<period, history>>

CancelAssessment(w, n) == MoveAssessment(w, n, "CANCELLED", {"PAID", "CANCELLED"})
WaiveAssessment(w, n) == MoveAssessment(w, n, "WAIVED", {"PAID", "CANCELLED", "WAIVED", "DRAFT"})

RemoveAssessment(w, n) ==
    /\ Move(w)
    /\ Live(n)
    /\ rows' = [rows EXCEPT ![n] = [NoRow EXCEPT !.status = "deleted"]]
    /\ IF rows[n].for = Dues THEN Begin(w, "sync", "deriving")
       ELSE At(w, "idle") /\ UNCHANGED <<flow, locals>>
    /\ UNCHANGED <<period, history>>

\* A payment is verified or undone, and the row synchronised; not its period.
Pay(n) ==
    /\ moves < MaxMoves /\ moves' = moves + 1
    /\ Live(n) /\ (~rows[n].paid => rows[n].status \in Open \cup {"DRAFT"})
    /\ rows' = [rows EXCEPT ![n].paid = ~@, ![n].status = Determine(@, ~rows[n].paid)]
    /\ UNCHANGED <<period, late, flow, locals, history>>

\* update of the billing period, its status given by the officer.
UpdatePeriod(w, s) ==
    /\ Move(w)
    /\ period \in PeriodStatuses
    /\ WritePeriod(w, s)
    /\ Begin(w, "sync", "deriving")
    /\ UNCHANGED <<rows, since, typed>>

\* remove of a billing period counts its rows, and deletes it if there are none.
RemovePeriod(w) ==
    /\ Move(w)
    /\ period \in PeriodStatuses /\ Bills = {}
    /\ Begin(w, "remove", "removing")
    /\ UNCHANGED <<rows, period, history>>

DeletePeriod(w) ==
    /\ At(w, "removing")
    /\ WritePeriod(w, "deleted")
    /\ Return(w)
    /\ UNCHANGED <<rows, world, typed>>

\* sweepOverdue flips the rows and finds the open periods that have overdue ones ...
Sweep(w) ==
    LET flipped == [n \in Numbers |->
            IF Live(n) /\ rows[n].status = "ISSUED" THEN [rows[n] EXCEPT !.status = "OVERDUE"]
            ELSE rows[n]]
    IN  /\ w # Cron /\ late
        /\ rows' = flipped
        /\ IF period = "OPEN" /\ \E n \in Bills : flipped[n].status = "OVERDUE"
           THEN Begin(w, "sweep", "flipping") ELSE At(w, "idle") /\ UNCHANGED <<flow, locals>>
        /\ behind' = behind \ {w}
        /\ UNCHANGED <<period, world, since, typed>>

\* ... and writes them OVERDUE.
FlipPeriod(w) ==
    /\ At(w, "flipping")
    /\ WritePeriod(w, IF period = "deleted" THEN period ELSE "OVERDUE")
    /\ Return(w)
    /\ UNCHANGED <<rows, world, typed>>

-----------------------------------------------------------------------------
Tick ==
    /\ ~late /\ late' = TRUE
    /\ UNCHANGED <<rows, period, moves, flow, locals, history>>

\* The server restarts and every request is lost.
Crash ==
    /\ since' = [w \in Workers |-> {}] /\ behind' = {} /\ UNCHANGED typed
    /\ moves < MaxMoves /\ moves' = moves + 1
    /\ pc' = [w \in Workers |-> "idle"] /\ job' = [w \in Workers |-> "none"]
    /\ todo' = [w \in Workers |-> {}] /\ list' = [w \in Workers |-> {}]
    /\ target' = [w \in Workers |-> Dues] /\ number' = [w \in Workers |-> 0]
    /\ seen' = [w \in Workers |-> "none"]
    /\ UNCHANGED <<rows, period, late>>

Continue(w) ==
    \/ FindPeriod(w) \/ OpenPeriod(w) \/ CheckExisting(w) \/ ReadNumber(w)
    \/ CreateAssessments(w) \/ DerivePeriod(w) \/ StorePeriod(w)
    \/ RestateAssessments(w)
    \/ ListOverdue(w) \/ CheckDuplicate(w) \/ ReadFeeNumber(w) \/ ChargeFee(w)
    \/ DeletePeriod(w) \/ FlipPeriod(w)

Officer(w) ==
    \/ Generate(w) \/ CreatePeriod(w) \/ RemovePeriod(w) \/ Sweep(w)
    \/ \E h \in Households, n \in Numbers : DraftAssessment(w, h, n)
    \/ \E n \in Numbers : \/ Issue(w, n) \/ CancelAssessment(w, n)
                          \/ WaiveAssessment(w, n) \/ RemoveAssessment(w, n)
    \/ \E s \in PeriodStatuses : UpdatePeriod(w, s)

Next ==
    \/ \E w \in Workers : Run(w) \/ Continue(w) \/ Officer(w)
    \/ \E n \in Numbers : Pay(n)
    \/ Tick \/ Crash

Spec == Init /\ [][Next]_vars

\* The scheduler starts the job every day (dues-automation.service.ts:39), and
\* what has begun goes on.
FairSpec ==
    /\ Spec /\ WF_vars(Run(Cron))
    /\ \A w \in Workers : WF_vars(Continue(w))

-----------------------------------------------------------------------------
(* Properties.                                                             *)

\* However runs, officers and restarts overlap, no operation bills a household
\* that has a bill, unless that bill appeared between the operation's look at the
\* period and its reading of the latest number: later ones make its numbers
\* collide, as long as officers type no numbers (dues-automation.service.ts:77-83,
\* "exactly one assessment").
BillsOnce ==
    [][\A w \in Workers : \A h \in todo[w] \ todo'[w] :
            rows' # rows /\ ~typed => Counted(job[w], h) \subseteq since[w]]_vars

\* The same for the late fee of a row (dues-automation.service.ts:184-189, "once
\* per source assessment").
FeesOnce ==
    [][\A w \in Workers :
            At(w, "feeing") /\ rows' # rows /\ target'[w] = Dues /\ ~typed
                => Fees(target[w]) \subseteq since[w]]_vars

\* A waived period stays waived (finance-sync.service.ts:115-120) until an officer
\* edits it, or a handler that had read it before the waiver writes it.
WaivedStays ==
    [][period = "WAIVED" /\ period' # "WAIVED" =>
            \/ moves' # moves \/ period' = "deleted"
            \/ \E w \in behind : pc'[w] # pc[w]]_vars

Unbilled == {h \in Households : Counted("run", h) = {}}
OutOfNumbers == Latest + Cardinality(Unbilled) > MaxNumber

\* Whatever was interrupted, the daily run has every household billed in the end
\* (dues-automation.service.ts:36 "Idempotent - safe to re-run at any time"), unless
\* the period was deleted: its key is then taken for good, and every run fails.
EveryoneIsBilled == []<>(Unbilled = {} \/ OutOfNumbers \/ period = "deleted")

\* Late fees are for recurring charges that are overdue (dues-automation.service.ts:
\* 184-189), not for late fees.
FeesAreForDues == \A n \in Numbers : rows[n].for # Dues => rows[rows[n].for].for = Dues
=============================================================================
