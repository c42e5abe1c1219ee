------------------------- MODULE DuesAutomationProofs -------------------------
(***************************************************************************)
(* What DuesAutomation promises holds for any number of households,        *)
(* workers, assessment numbers and moves.                                  *)
(***************************************************************************)
EXTENDS DuesAutomation, TLAPS, WellFoundedInduction

Row == [home : Households, status : RowStatuses, paid : BOOLEAN, for : Numbers \cup {Dues}]

LEMMA NumbersAreNatural ==
    /\ \A n \in Numbers : n \in Nat /\ n > 0 /\ n <= MaxNumber
    /\ \A n \in Nat : n > 0 /\ n <= MaxNumber => n \in Numbers
    /\ MaxNumber \in Nat /\ Dues = 0 /\ Dues \notin Numbers
  BY DuesConstants DEF Numbers, Dues

LEMMA NoRowIsARow == NoRow \in Row /\ [NoRow EXCEPT !.status = "deleted"] \in Row /\ NoRow.for = Dues
<1>1. (CHOOSE h \in Households : TRUE) \in Households
  BY DuesConstants
<1> QED
  BY <1>1 DEF NoRow, Row, RowStatuses

\* The latest number is the highest that is taken, or 0.
LEMMA LatestIsLatest ==
    /\ Latest \in Numbers \cup {0}
    /\ \A n \in Numbers : Taken(n) => n <= Latest
    /\ Latest # 0 => Taken(Latest)
<1> DEFINE S == {n \in Numbers : Taken(n)}
           T == {MaxNumber - n : n \in S}
<1>1. CASE S = {}
  BY <1>1 DEF Latest
<1>2. CASE S # {}
  <2>1. \A t \in T : t \in Nat
    <3> TAKE t \in T
    <3>1. PICK n \in S : t = MaxNumber - n
      OBVIOUS
    <3> QED
      BY <3>1, NumbersAreNatural
  <2>2. PICK t \in T : \A u \in T : ~(<<u, t>> \in OpToRel(<, Nat))
    <3>1. T # {}
      BY <1>2
    <3> HIDE DEF T
    <3> QED
      BY <2>1, <3>1, NatLessThanWellFounded, WFMin
  <2>3. \A u \in T : t <= u
    <3> HIDE DEF T
    <3> TAKE u \in T
    <3>1. <<u, t>> \in Nat \X Nat /\ ~(u < t)
      BY <2>1, <2>2 DEF OpToRel
    <3> QED
      BY <3>1
  <2>4. PICK n \in S : t = MaxNumber - n
    OBVIOUS
  <2>5. \A m \in S : m <= n
    <3> TAKE m \in S
    <3>1. MaxNumber - n <= MaxNumber - m
      BY <2>3, <2>4
    <3> QED
      BY <3>1, NumbersAreNatural
  <2>6. Latest \in S /\ \A m \in S : m <= Latest
    BY <2>4, <2>5 DEF Latest
  <2> QED
    BY <2>6
<1> QED
  BY <1>1, <1>2

-----------------------------------------------------------------------------
(* Types, with what a worker holds: rows it was told of are rows, and the  *)
(* number it counts from is the latest that was taken when it looked.      *)

Holding(w) ==
    /\ todo[w] # {} => pc[w] \in {"numbering", "creating"}
    /\ pc[w] \in {"feeNumbering", "feeing"} => target[w] \in Numbers
    /\ target[w] \in Numbers => Taken(target[w])
    /\ \A n \in list[w] : Taken(n)
    /\ pc[w] \in {"creating", "feeing"} => number[w] = 0 \/ Taken(number[w])
    /\ pc[w] = "feeing" => target[w] <= number[w]

HoldInv == \A w \in Workers : Holding(w)

RowsOK ==
    /\ rows \in [Numbers -> Row]
    /\ \A n \in Numbers : rows[n].for < n

WorldOK ==
    /\ period \in PeriodStatuses \cup {"none", "deleted"}
    /\ late \in BOOLEAN /\ moves \in 0 .. MaxMoves

LocalsOK ==
    /\ pc \in [Workers -> Labels] /\ job \in [Workers -> Jobs]
    /\ todo \in [Workers -> SUBSET Households] /\ list \in [Workers -> SUBSET Numbers]
    /\ target \in [Workers -> Numbers \cup {Dues}]
    /\ number \in [Workers -> 0 .. MaxNumber]
    /\ seen \in [Workers -> PeriodStatuses \cup {"none"}]

HistoryOK == since \in [Workers -> SUBSET Numbers] /\ behind \subseteq Workers /\ typed \in BOOLEAN

LEMMA TypeParts == TypeOK <=> RowsOK /\ WorldOK /\ LocalsOK /\ HistoryOK
  BY DEF TypeOK, RowsOK, WorldOK, LocalsOK, HistoryOK, Row

\* The handler is done and holds nothing.
LEMMA ReturnHolds ==
    ASSUME LocalsOK, NEW w \in Workers, Return(w)
    PROVE  /\ LocalsOK' /\ Holding(w)' /\ pc'[w] = "idle"
           /\ since \in [Workers -> SUBSET Numbers] => since' \in [Workers -> SUBSET Numbers]
           /\ \A v \in Workers : v # w =>
                 /\ pc'[v] = pc[v] /\ job'[v] = job[v] /\ todo'[v] = todo[v] /\ list'[v] = list[v]
                 /\ target'[v] = target[v] /\ number'[v] = number[v] /\ since'[v] = since[v]
<1>1. /\ pc' = [pc EXCEPT ![w] = "idle"] /\ job' = [job EXCEPT ![w] = "none"]
      /\ todo' = [todo EXCEPT ![w] = {}] /\ list' = [list EXCEPT ![w] = {}]
      /\ target' = [target EXCEPT ![w] = Dues] /\ number' = [number EXCEPT ![w] = 0]
      /\ seen' = [seen EXCEPT ![w] = "none"] /\ since' = [since EXCEPT ![w] = {}]
  BY DEF Return
<1>2. LocalsOK'
  BY <1>1, NumbersAreNatural DEF LocalsOK, Labels, Jobs
<1>3. Holding(w)'
  BY <1>1, NumbersAreNatural DEF LocalsOK, Holding
<1>4. /\ pc'[w] = "idle"
      /\ since \in [Workers -> SUBSET Numbers] => since' \in [Workers -> SUBSET Numbers]
  BY <1>1 DEF LocalsOK
<1>5. \A v \in Workers : v # w =>
         /\ pc'[v] = pc[v] /\ job'[v] = job[v] /\ todo'[v] = todo[v] /\ list'[v] = list[v]
         /\ target'[v] = target[v] /\ number'[v] = number[v] /\ since'[v] = since[v]
  BY <1>1 DEF LocalsOK
<1> QED
  BY <1>2, <1>3, <1>4, <1>5

\* Rows stay rows, and what holds of a worker that does not move goes on to hold.
LEMMA OthersHold ==
    ASSUME NEW v \in Workers, Holding(v), LocalsOK,
           \A n \in Numbers : Taken(n) => Taken(n)',
           pc'[v] = pc[v], todo'[v] = todo[v], list'[v] = list[v], target'[v] = target[v],
           number'[v] = number[v]
    PROVE  Holding(v)'
<1>1. list[v] \subseteq Numbers /\ number[v] \in 0 .. MaxNumber
  BY DEF LocalsOK
<1>2. number[v] = 0 \/ number[v] \in Numbers
  BY <1>1, NumbersAreNatural
<1> QED
  BY <1>1, <1>2 DEF Holding

TypeInv == TypeOK /\ HoldInv

LEMMA TypeInit == Init => TypeInv
<1> SUFFICES ASSUME Init PROVE TypeInv
  OBVIOUS
<1>1. RowsOK
  BY NoRowIsARow, NumbersAreNatural DEF Init, RowsOK
<1>2. WorldOK
  <2>1. 0 \in 0 .. MaxMoves
    BY DuesConstants
  <2> QED
    BY <2>1 DEF Init, WorldOK
<1>h. HistoryOK
  BY DEF Init, HistoryOK
<1>3. LocalsOK
  BY DuesConstants DEF Init, LocalsOK, Labels, Jobs
<1>4. HoldInv
  BY NumbersAreNatural DEF Init, HoldInv, Holding
<1> QED
  BY <1>1, <1>2, <1>h, <1>3, <1>4, TypeParts DEF TypeInv

-----------------------------------------------------------------------------
(* What a step may do to the rows.  A row that has been inserted keeps its *)
(* number for good, and its household and purpose as long as it lives; a   *)
(* cancelled one is revived, and a new one appears, in sight of those who  *)
(* have looked for it.                                                     *)

RowStep(m) ==
    /\ Taken(m) => Taken(m)'
    /\ Taken(m) /\ Live(m)' =>
          /\ Live(m) /\ rows'[m].home = rows[m].home /\ rows'[m].for = rows[m].for
          /\ rows[m].status = "CANCELLED" /\ rows'[m].status # "CANCELLED" =>
                \A v \in Workers : pc[v] # "idle" => m \in since'[v]
    /\ ~Taken(m) /\ Taken(m)' => Appears(m)

\* A row whose status is not none comes at n, where there was none.
LEMMA RowInserted ==
    ASSUME RowsOK, NEW n \in Numbers, ~Taken(n), NEW r \in Row, r.status # "none", r.for < n,
           rows' = [rows EXCEPT ![n] = r], Appears(n)
    PROVE  RowsOK' /\ \A m \in Numbers : RowStep(m)
<1>1. RowsOK'
  BY DEF RowsOK
<1>2. \A m \in Numbers : m # n => rows'[m] = rows[m]
  BY DEF RowsOK
<1>3. ASSUME NEW m \in Numbers PROVE RowStep(m)
  <2>1. CASE m = n
    BY <2>1 DEF RowStep
  <2>2. CASE m # n
    BY <1>2, <2>2 DEF RowStep, Taken, Live
  <2> QED
    BY <2>1, <2>2
<1> QED
  BY <1>1, <1>3

\* Row n gets another status, and is paid or not.
LEMMA RowMoved ==
    ASSUME RowsOK, NEW n \in Numbers, Live(n), NEW s \in RowStatuses \ {"none", "deleted"},
           NEW p \in BOOLEAN, rows' = [rows EXCEPT ![n] = [@ EXCEPT !.status = s, !.paid = p]],
           rows[n].status = "CANCELLED" /\ s # "CANCELLED" =>
              \A v \in Workers : pc[v] # "idle" => n \in since'[v]
    PROVE  RowsOK' /\ \A m \in Numbers : RowStep(m)
<1>1. rows[n] \in Row
  BY DEF RowsOK
<1>2. /\ [rows[n] EXCEPT !.status = s, !.paid = p] \in Row
      /\ rows'[n].status = s /\ rows'[n].home = rows[n].home /\ rows'[n].for = rows[n].for
  BY <1>1 DEF Row, RowsOK
<1>3. \A m \in Numbers : m # n => rows'[m] = rows[m]
  BY DEF RowsOK
<1>4. RowsOK'
  BY <1>2, <1>3 DEF RowsOK
<1>5. ASSUME NEW m \in Numbers PROVE RowStep(m)
  <2>1. CASE m = n
    BY <1>2, <2>1 DEF RowStep, Taken, Live
  <2>2. CASE m # n
    BY <1>3, <2>2 DEF RowStep, Taken, Live
  <2> QED
    BY <2>1, <2>2
<1> QED
  BY <1>4, <1>5

\* Some rows get another status, none of them a cancelled one.
LEMMA RowsRestated ==
    ASSUME RowsOK, NEW s \in RowStatuses \ {"none", "deleted"}, NEW some \in SUBSET Numbers,
           \A n \in some : Live(n) /\ rows[n].status # "CANCELLED",
           rows' = [n \in Numbers |-> IF n \in some THEN [rows[n] EXCEPT !.status = s] ELSE rows[n]]
    PROVE  RowsOK' /\ \A m \in Numbers : RowStep(m)
<1>1. ASSUME NEW m \in Numbers
      PROVE  /\ rows[m] \in Row /\ rows'[m] \in Row
             /\ rows'[m].home = rows[m].home /\ rows'[m].for = rows[m].for
             /\ m \in some => rows'[m].status = s
             /\ m \notin some => rows'[m].status = rows[m].status
  <2>1. rows[m] \in Row
    BY DEF RowsOK
  <2> QED
    BY <2>1 DEF Row
<1>2. RowsOK'
  BY <1>1 DEF RowsOK
<1>3. ASSUME NEW m \in Numbers PROVE RowStep(m)
  <2>1. CASE m \in some
    BY <1>1, <2>1 DEF RowStep, Taken, Live
  <2>2. CASE m \notin some
    BY <1>1, <2>2 DEF RowStep, Taken, Live
  <2> QED
    BY <2>1, <2>2
<1> QED
  BY <1>2, <1>3

LEMMA DetermineTypes ==
    ASSUME NEW s \in RowStatuses, NEW p \in BOOLEAN
    PROVE  /\ Determine(s, p) \in RowStatuses \ {"none", "deleted", "DRAFT"}
           /\ s = "CANCELLED" => Determine(s, p) = "CANCELLED"
  BY DEF Determine, RowStatuses, Open

LEMMA RowsStep == TypeInv /\ [Next]_vars => RowsOK' /\ \A m \in Numbers : RowStep(m)
<1> SUFFICES ASSUME TypeInv, [Next]_vars PROVE RowsOK' /\ \A m \in Numbers : RowStep(m)
  OBVIOUS
<1>t. RowsOK /\ LocalsOK /\ \A v \in Workers : Holding(v)
  BY TypeParts DEF TypeInv, HoldInv
<1>1. CASE rows' = rows
  BY <1>t, <1>1 DEF RowsOK, RowStep, Taken, Live
<1>2. ASSUME NEW w \in Workers, CreateAssessments(w), rows' # rows
      PROVE  RowsOK' /\ \A m \in Numbers : RowStep(m)
  <2>1. PICK h \in todo[w] : Insert(w, h, number[w] + 1)
    BY <1>2 DEF CreateAssessments
  <2> DEFINE n == number[w] + 1
  <2>2. number[w] \in 0 .. MaxNumber /\ number[w] < MaxNumber /\ h \in Households
    BY <1>t, <1>2 DEF LocalsOK, CreateAssessments
  <2>3. n \in Numbers
    BY <2>2, NumbersAreNatural
  <2>4. ~Taken(n) /\ rows' = [rows EXCEPT ![n] = Bill(h, Determine("ISSUED", FALSE))] /\ Appears(n)
    BY <1>2, <2>1 DEF Insert
  <2>5. /\ Bill(h, Determine("ISSUED", FALSE)) \in Row
        /\ Bill(h, Determine("ISSUED", FALSE)).status # "none"
        /\ Bill(h, Determine("ISSUED", FALSE)).for = Dues
    <3>1. Determine("ISSUED", FALSE) \in RowStatuses \ {"none"}
      BY DetermineTypes DEF RowStatuses, Open
    <3> QED
      BY <2>2, <3>1 DEF Bill, Row
  <2>6. Dues < n
    BY <2>3, NumbersAreNatural
  <2> QED
    BY <1>t, <2>3, <2>4, <2>5, <2>6, RowInserted
<1>3. ASSUME NEW w \in Workers, ChargeFee(w), rows' # rows
      PROVE  RowsOK' /\ \A m \in Numbers : RowStep(m)
  <2> DEFINE n == number[w] + 1
             fee == [home |-> rows[target[w]].home, status |-> "OVERDUE", paid |-> FALSE,
                     for |-> target[w]]
  <2>1. ~Taken(n) /\ rows' = [rows EXCEPT ![n] = fee] /\ Appears(n) /\ pc[w] = "feeing"
        /\ n <= MaxNumber
    BY <1>3 DEF ChargeFee, At
  <2>2. target[w] \in Numbers /\ target[w] <= number[w] /\ number[w] \in 0 .. MaxNumber
    BY <1>t, <2>1 DEF Holding, LocalsOK
  <2>3. n \in Numbers /\ target[w] < n
    BY <2>1, <2>2, NumbersAreNatural
  <2>4. rows[target[w]] \in Row
    BY <1>t, <2>2 DEF RowsOK
  <2>5. fee \in Row /\ fee.status # "none" /\ fee.for = target[w]
    BY <2>2, <2>4 DEF Row, RowStatuses, Open
  <2> HIDE DEF fee
  <2> QED
    BY <1>t, <2>1, <2>3, <2>5, RowInserted
<1>4. ASSUME NEW w \in Workers, NEW h \in Households, NEW n \in Numbers, DraftAssessment(w, h, n)
      PROVE  RowsOK' /\ \A m \in Numbers : RowStep(m)
  <2>1. ~Taken(n) /\ rows' = [rows EXCEPT ![n] = Bill(h, "DRAFT")] /\ Appears(n)
    BY <1>4 DEF DraftAssessment
  <2>2. /\ Bill(h, "DRAFT") \in Row /\ Bill(h, "DRAFT").status # "none"
        /\ Bill(h, "DRAFT").for = Dues
    BY DEF Bill, Row, RowStatuses
  <2>3. Dues < n
    BY NumbersAreNatural
  <2> QED
    BY <1>t, <2>1, <2>2, <2>3, RowInserted
<1>5. ASSUME NEW n \in Numbers, NEW s \in RowStatuses \ {"none", "deleted"}, Live(n),
             rows' = [rows EXCEPT ![n].status = s],
             rows[n].status = "CANCELLED" /\ s # "CANCELLED" =>
                \A v \in Workers : pc[v] # "idle" => n \in since'[v]
      PROVE  RowsOK' /\ \A m \in Numbers : RowStep(m)
  <2>1. rows[n] \in Row
    BY <1>t DEF RowsOK
  <2>2. PICK p \in BOOLEAN : rows[n].paid = p
    BY <2>1 DEF Row
  <2>3. [rows[n] EXCEPT !.status = s] = [rows[n] EXCEPT !.status = s, !.paid = p]
    BY <2>1, <2>2 DEF Row
  <2>4. rows' = [rows EXCEPT ![n] = [@ EXCEPT !.status = s, !.paid = p]]
    BY <1>5, <2>3
  <2> QED
    BY <1>t, <1>5, <2>4, RowMoved
<1>6. ASSUME NEW w \in Workers, NEW n \in Numbers, Issue(w, n)
      PROVE  RowsOK' /\ \A m \in Numbers : RowStep(m)
  <2>1. \A v \in Workers : pc[v] # "idle" => n \in since'[v]
    BY <1>6 DEF Issue
  <2> QED
    BY <1>5, <1>6, <2>1 DEF Issue, RowStatuses, Open
<1>7. ASSUME NEW w \in Workers, NEW n \in Numbers,
             CancelAssessment(w, n) \/ WaiveAssessment(w, n)
      PROVE  RowsOK' /\ \A m \in Numbers : RowStep(m)
  BY <1>5, <1>7 DEF CancelAssessment, WaiveAssessment, MoveAssessment, RowStatuses
<1>8. ASSUME NEW w \in Workers, NEW n \in Numbers, RemoveAssessment(w, n)
      PROVE  RowsOK' /\ \A m \in Numbers : RowStep(m)
  <2> DEFINE gone == [NoRow EXCEPT !.status = "deleted"]
  <2>1. Live(n) /\ rows' = [rows EXCEPT ![n] = gone]
    BY <1>8 DEF RemoveAssessment
  <2>2. gone \in Row /\ gone.status = "deleted" /\ gone.for = Dues
    BY NoRowIsARow DEF NoRow
  <2> HIDE DEF gone
  <2>3. \A m \in Numbers : m # n => rows'[m] = rows[m]
    BY <1>t, <2>1 DEF RowsOK
  <2>4. rows'[n] = gone
    BY <1>t, <2>1 DEF RowsOK
  <2>5. RowsOK'
    BY <1>t, <2>1, <2>2, NumbersAreNatural DEF RowsOK
  <2>6. RowStep(n)
    BY <2>1, <2>2, <2>4 DEF RowStep, Live, Taken
  <2>7. ASSUME NEW m \in Numbers, m # n PROVE RowStep(m)
    BY <2>3, <2>7 DEF RowStep, Live, Taken
  <2> QED
    BY <2>5, <2>6, <2>7
<1>9. ASSUME NEW n \in Numbers, Pay(n) PROVE RowsOK' /\ \A m \in Numbers : RowStep(m)
  <2>1. rows[n] \in Row
    BY <1>t DEF RowsOK
  <2> DEFINE s == Determine(rows[n].status, ~rows[n].paid)
             p == ~rows[n].paid
  <2>2. /\ p \in BOOLEAN /\ s \in RowStatuses \ {"none", "deleted"}
        /\ rows[n].status = "CANCELLED" => s = "CANCELLED"
    BY <2>1, DetermineTypes DEF Row
  <2>3. Live(n) /\ rows' = [rows EXCEPT ![n] = [@ EXCEPT !.status = s, !.paid = p]]
    BY <1>t, <1>9, <2>1 DEF Pay, RowsOK, Row
  <2> HIDE DEF s, p
  <2> QED
    BY <1>t, <2>2, <2>3, RowMoved
<1>10. ASSUME NEW w \in Workers, RestateAssessments(w), rows' # rows
       PROVE  RowsOK' /\ \A m \in Numbers : RowStep(m)
  <2>1. PICK from \in {"ISSUED", "WAIVED"}, to \in {"ISSUED", "WAIVED"} : rows' = Restated(from, to)
    BY <1>10 DEF RestateAssessments
  <2> DEFINE some == {n \in Bills : rows[n].status = from}
  <2>2. rows' = [n \in Numbers |-> IF n \in some THEN [rows[n] EXCEPT !.status = to] ELSE rows[n]]
    BY <2>1 DEF Restated
  <2>3. /\ some \in SUBSET Numbers /\ \A n \in some : Live(n) /\ rows[n].status # "CANCELLED"
        /\ to \in RowStatuses \ {"none", "deleted"}
    BY DEF Bills, RowStatuses, Open
  <2> HIDE DEF some
  <2> QED
    BY <1>t, <2>2, <2>3, RowsRestated
<1>11. ASSUME NEW w \in Workers, Sweep(w) PROVE RowsOK' /\ \A m \in Numbers : RowStep(m)
  <2> DEFINE some == {n \in Numbers : Live(n) /\ rows[n].status = "ISSUED"}
  <2>1. rows' = [n \in Numbers |-> IF n \in some THEN [rows[n] EXCEPT !.status = "OVERDUE"]
                                                ELSE rows[n]]
    BY <1>11 DEF Sweep
  <2>2. /\ some \in SUBSET Numbers /\ \A n \in some : Live(n) /\ rows[n].status # "CANCELLED"
        /\ "OVERDUE" \in RowStatuses \ {"none", "deleted"}
    BY DEF RowStatuses, Open
  <2> HIDE DEF some
  <2> QED
    BY <1>t, <2>1, <2>2, RowsRestated
<1> QED
  BY <1>1, <1>2, <1>3, <1>4, <1>6, <1>7, <1>8, <1>9, <1>10, <1>11
  DEF Next, Continue, Officer, Run, Generate, CreatePeriod, FindPeriod, OpenPeriod, CheckExisting,
      ReadNumber, DerivePeriod, StorePeriod, ListOverdue, CheckDuplicate, ReadFeeNumber, UpdatePeriod,
      RemovePeriod, DeletePeriod, FlipPeriod, Tick, Crash, vars

-----------------------------------------------------------------------------
(* What a step does to the workers.                                        *)

\* Only w moves.
Elsewhere(w) ==
    \A v \in Workers : v # w =>
        /\ pc'[v] = pc[v] /\ job'[v] = job[v] /\ todo'[v] = todo[v] /\ list'[v] = list[v]
        /\ target'[v] = target[v] /\ number'[v] = number[v]

\* What is left to show of a step by w.
LEMMA WorkerStep ==
    ASSUME TypeInv, [Next]_vars, NEW w \in Workers, WorldOK', LocalsOK', HistoryOK',
           Elsewhere(w), Holding(w)'
    PROVE  TypeInv'
<1>1. /\ RowsOK' /\ \A n \in Numbers : Taken(n) => Taken(n)'
  BY RowsStep DEF RowStep
<1>2. LocalsOK /\ \A v \in Workers : Holding(v)
  BY TypeParts DEF TypeInv, HoldInv
<1>3. TypeOK'
  BY <1>1, TypeParts, PTL
<1>4. \A v \in Workers : Holding(v)'
  BY <1>1, <1>2, OthersHold DEF Elsewhere
<1> QED
  BY <1>3, <1>4 DEF TypeInv, HoldInv

LEMMA BeginHolds ==
    ASSUME LocalsOK, NEW w \in Workers, Holding(w), NEW j \in Jobs,
           NEW label \in {"ensuring", "opening", "deriving", "removing", "flipping"},
           Begin(w, j, label), \A n \in Numbers : Taken(n) => Taken(n)'
    PROVE  LocalsOK' /\ Elsewhere(w) /\ Holding(w)'
<1>1. /\ pc[w] = "idle" /\ pc' = [pc EXCEPT ![w] = label] /\ job' = [job EXCEPT ![w] = j]
      /\ UNCHANGED <<todo, list, target, number, seen>>
  BY DEF Begin, At, locals
<1>2. LocalsOK' /\ Elsewhere(w)
  BY <1>1 DEF LocalsOK, Elsewhere, Labels
<1>3. Holding(w)'
  BY <1>1 DEF LocalsOK, Holding
<1> QED
  BY <1>2, <1>3

\* w goes on and keeps what it holds, or lets some of it go.
LEMMA GotoHolds ==
    ASSUME LocalsOK, NEW w \in Workers, Holding(w), NEW label \in Labels, Goto(w, label),
           UNCHANGED locals, \A n \in Numbers : Taken(n) => Taken(n)',
           label \notin {"feeNumbering", "feeing", "creating"},
           todo[w] # {} => label = "numbering"
    PROVE  LocalsOK' /\ Elsewhere(w) /\ Holding(w)'
<1>1. pc' = [pc EXCEPT ![w] = label] /\ UNCHANGED <<job, todo, list, target, number, seen>>
  BY DEF Goto, locals
<1>2. LocalsOK' /\ Elsewhere(w)
  BY <1>1 DEF LocalsOK, Elsewhere
<1>3. Holding(w)'
  BY <1>1 DEF LocalsOK, Holding
<1> QED
  BY <1>2, <1>3

LEMMA HistoryKept ==
    ASSUME HistoryOK, behind' \subseteq behind \cup Workers, typed' \in BOOLEAN,
           \/ since' = since
           \/ \E n \in Numbers : Appears(n)
           \/ \E n \in Numbers, S \in SUBSET Workers :
                 since' = [v \in Workers |-> IF v \in S THEN since[v] \cup {n} ELSE since[v]]
           \/ \E v \in Workers : since' = [since EXCEPT ![v] = {}]
    PROVE  HistoryOK'
<1>1. CASE since' = since
  BY <1>1 DEF HistoryOK
<1>2. ASSUME NEW n \in Numbers, Appears(n) PROVE HistoryOK'
  BY <1>2 DEF HistoryOK, Appears
<1>3. ASSUME NEW n \in Numbers, NEW S \in SUBSET Workers,
             since' = [v \in Workers |-> IF v \in S THEN since[v] \cup {n} ELSE since[v]]
      PROVE  HistoryOK'
  BY <1>3 DEF HistoryOK
<1>4. ASSUME NEW v \in Workers, since' = [since EXCEPT ![v] = {}] PROVE HistoryOK'
  BY <1>4 DEF HistoryOK
<1> QED
  BY <1>1, <1>2, <1>3, <1>4

LEMMA TypeStep == TypeInv /\ [Next]_vars => TypeInv'
<1> SUFFICES ASSUME TypeInv, [Next]_vars PROVE TypeInv'
  OBVIOUS
<1>t. RowsOK /\ WorldOK /\ LocalsOK /\ HistoryOK /\ \A v \in Workers : Holding(v)
  BY TypeParts DEF TypeInv, HoldInv
<1>r. \A n \in Numbers : Taken(n) => Taken(n)'
  BY RowsStep DEF RowStep
<1>n. \A v \in Workers : number[v] = 0 \/ number[v] \in Numbers
  BY <1>t, NumbersAreNatural DEF LocalsOK
<1>m. ASSUME NEW w, Move(w) PROVE late' = late /\ moves' \in 0 .. MaxMoves
  BY <1>t, <1>m, DuesConstants DEF Move, WorldOK
\* w returns.
<1>1. ASSUME NEW w \in Workers, Return(w), WorldOK', behind' \subseteq behind \cup Workers,
             typed' = typed
      PROVE  TypeInv'
  <2>1. HistoryOK'
    BY <1>t, <1>1, HistoryKept DEF Return, HistoryOK
  <2> QED
    BY <1>t, <1>1, <2>1, ReturnHolds, WorkerStep DEF Elsewhere
\* w starts something.
<1>2. ASSUME NEW w \in Workers, NEW j \in Jobs,
             NEW label \in {"ensuring", "opening", "deriving", "removing", "flipping"},
             Begin(w, j, label), WorldOK', HistoryOK'
      PROVE  TypeInv'
  BY <1>t, <1>r, <1>2, BeginHolds, WorkerStep
\* w goes on with what it has.
<1>3. ASSUME NEW w \in Workers, NEW label \in Labels, Goto(w, label), UNCHANGED locals,
             label \notin {"feeNumbering", "feeing", "creating"},
             todo[w] # {} => label = "numbering", WorldOK', HistoryOK'
      PROVE  TypeInv'
  BY <1>t, <1>r, <1>3, GotoHolds, WorkerStep
\* Nobody moves.
<1>4. ASSUME UNCHANGED <<flow, locals>>, WorldOK', HistoryOK' PROVE TypeInv'
  <2>1. UNCHANGED <<pc, job, todo, list, target, number, seen>>
    BY <1>4 DEF flow, locals
  <2>2. LocalsOK'
    BY <1>t, <2>1 DEF LocalsOK
  <2>3. TypeOK'
    BY <1>4, <2>2, RowsStep, TypeParts, PTL
  <2>4. \A v \in Workers : Holding(v)'
    BY <1>t, <1>r, <2>1, OthersHold
  <2> QED
    BY <2>3, <2>4 DEF TypeInv, HoldInv
<1>5. ASSUME NEW w \in Workers, Run(w) \/ Generate(w) \/ CreatePeriod(w) \/ RemovePeriod(w)
      PROVE  TypeInv'
  <2>1. WorldOK'
    BY <1>t, <1>m, <1>5 DEF Run, Generate, CreatePeriod, RemovePeriod, WorldOK, world
  <2>2. HistoryOK'
    BY <1>t, <1>5 DEF Run, Generate, CreatePeriod, RemovePeriod, HistoryOK, history
  <2>3. PICK j \in Jobs, label \in {"ensuring", "opening", "removing"} : Begin(w, j, label)
    BY <1>5 DEF Run, Generate, CreatePeriod, RemovePeriod, Jobs
  <2> QED
    BY <1>2, <2>1, <2>2, <2>3
<1>6. ASSUME NEW w \in Workers, FindPeriod(w) PROVE TypeInv'
  <2>1. WorldOK' /\ HistoryOK' /\ pc[w] = "ensuring" /\ UNCHANGED locals
    BY <1>t, <1>6 DEF FindPeriod, WorldOK, HistoryOK, world, history, At
  <2>2. PICK label \in {"checking", "opening"} : Goto(w, label)
    BY <1>6 DEF FindPeriod
  <2>3. todo[w] = {}
    BY <1>t, <2>1 DEF Holding
  <2> QED
    BY <1>3, <2>1, <2>2, <2>3 DEF Labels
<1>7. ASSUME NEW w \in Workers, OpenPeriod(w) PROVE TypeInv'
  <2>1. WorldOK' /\ pc[w] = "opening" /\ behind' = behind /\ typed' = typed
    BY <1>t, <1>7 DEF OpenPeriod, WorldOK, world, At, PeriodStatuses
  <2>2. CASE Return(w)
    BY <1>1, <2>1, <2>2
  <2>3. CASE Goto(w, "checking") /\ UNCHANGED <<locals, since>>
    <3>1. todo[w] = {} /\ HistoryOK'
      BY <1>t, <2>1, <2>3 DEF Holding, HistoryOK
    <3> QED
      BY <1>3, <2>1, <2>3, <3>1 DEF Labels
  <2> QED
    BY <1>7, <2>2, <2>3 DEF OpenPeriod
<1>8. ASSUME NEW w \in Workers, CheckExisting(w) PROVE TypeInv'
  <2>1. WorldOK' /\ pc[w] = "checking" /\ behind' = behind /\ typed' = typed
    BY <1>t, <1>8 DEF CheckExisting, WorldOK, world, At
  <2>2. CASE Return(w)
    BY <1>1, <2>1, <2>2
  <2>3. CASE ~Return(w)
    <3>1. PICK eligible \in SUBSET Households :
            /\ todo' = [todo EXCEPT ![w] = eligible]
            /\ Goto(w, IF eligible = {} THEN "listing" ELSE "numbering")
            /\ UNCHANGED <<list, target, number, seen, since>>
      BY <1>8, <2>3 DEF CheckExisting
    <3>2. PICK label \in {"listing", "numbering"} :
            pc' = [pc EXCEPT ![w] = label] /\ job' = job /\ (eligible # {} => label = "numbering")
      BY <3>1 DEF Goto
    <3>3. LocalsOK' /\ Elsewhere(w)
      BY <1>t, <3>1, <3>2 DEF LocalsOK, Elsewhere, Labels
    <3>4. Holding(w)'
      BY <1>t, <1>r, <3>1, <3>2 DEF LocalsOK, Holding
    <3>5. HistoryOK'
      BY <1>t, <2>1, <3>1 DEF HistoryOK
    <3> QED
      BY <2>1, <3>3, <3>4, <3>5, WorkerStep
  <2> QED
    BY <2>2, <2>3
<1>9. ASSUME NEW w \in Workers, ReadNumber(w) \/ ReadFeeNumber(w) PROVE TypeInv'
  <2>1. /\ WorldOK' /\ HistoryOK' /\ rows' = rows
        /\ number' = [number EXCEPT ![w] = Latest]
        /\ UNCHANGED <<todo, list, target, seen, job>>
    BY <1>t, <1>9 DEF ReadNumber, ReadFeeNumber, WorldOK, HistoryOK, world, history, Goto
  <2>2. PICK label \in {"creating", "feeing"} :
          /\ pc' = [pc EXCEPT ![w] = label]
          /\ label = "creating" => pc[w] = "numbering"
          /\ label = "feeing" => pc[w] = "feeNumbering"
    BY <1>9 DEF ReadNumber, ReadFeeNumber, Goto, At
  <2>3. Latest \in 0 .. MaxNumber
    BY LatestIsLatest, NumbersAreNatural
  <2>4. LocalsOK' /\ Elsewhere(w)
    BY <1>t, <2>1, <2>2, <2>3 DEF LocalsOK, Elsewhere, Labels
  <2>5. Holding(w)'
    BY <1>t, <2>1, <2>2, LatestIsLatest DEF LocalsOK, Holding, Taken
  <2> QED
    BY <2>1, <2>4, <2>5, WorkerStep
<1>10. ASSUME NEW w \in Workers, CreateAssessments(w) PROVE TypeInv'
  <2>1. PICK h \in todo[w] : Insert(w, h, number[w] + 1)
    BY <1>10 DEF CreateAssessments
  <2>n. PICK n \in Numbers : n = number[w] + 1
    BY <1>t, <1>10, NumbersAreNatural DEF CreateAssessments, LocalsOK
  <2>2. WorldOK' /\ pc[w] = "creating" /\ behind' = behind /\ typed' = typed
    BY <1>t, <1>10, NumbersAreNatural DEF CreateAssessments, WorldOK, LocalsOK, world, At
  <2>3. CASE Return(w)
    BY <1>1, <2>2, <2>3
  <2>4. CASE ~Return(w)
    <3>1. /\ rows' = [rows EXCEPT ![n] = Bill(h, Determine("ISSUED", FALSE))] /\ Appears(n)
          /\ todo' = [todo EXCEPT ![w] = @ \ {h}] /\ number' = [number EXCEPT ![w] = n]
          /\ pc' = [pc EXCEPT ![w] = IF todo[w] = {h} THEN "deriving" ELSE "creating"]
          /\ UNCHANGED <<job, list, target, seen>>
      BY <2>1, <2>4, <2>n DEF Insert, Goto
    <3>2. LocalsOK' /\ Elsewhere(w)
      BY <1>t, <2>2, <3>1, NumbersAreNatural DEF LocalsOK, Elsewhere, Labels
    <3>3. Taken(n)'
      <4>1. rows'[n].status = Determine("ISSUED", FALSE)
        BY <1>t, <2>2, <3>1 DEF RowsOK, Bill
      <4>2. Determine("ISSUED", FALSE) # "none"
        BY DetermineTypes DEF RowStatuses, Open
      <4> QED
        BY <4>1, <4>2 DEF Taken
    <3>4. Holding(w)'
      <4>1. /\ pc'[w] = IF todo[w] = {h} THEN "deriving" ELSE "creating"
            /\ todo'[w] = todo[w] \ {h} /\ list'[w] = list[w] /\ target'[w] = target[w]
            /\ number'[w] = n /\ list[w] \subseteq Numbers
        BY <1>t, <3>1 DEF LocalsOK
      <4>2. todo'[w] # {} => pc'[w] = "creating"
        BY <4>1
      <4>3. /\ target'[w] \in Numbers => rows'[target'[w]].status # "none"
            /\ \A m \in list'[w] : rows'[m].status # "none"
        BY <1>t, <1>r, <4>1 DEF Holding, Taken
      <4> QED
        BY <3>3, <4>1, <4>2, <4>3 DEF Holding, Taken
    <3>5. HistoryOK'
      BY <1>t, <2>2, <3>1, HistoryKept DEF HistoryOK
    <3> QED
      BY <2>2, <3>2, <3>4, <3>5, WorkerStep
  <2> QED
    BY <2>3, <2>4
<1>11. ASSUME NEW w \in Workers, DerivePeriod(w) PROVE TypeInv'
  <2>1. /\ WorldOK' /\ HistoryOK' /\ pc[w] = "deriving"
        /\ seen' = [seen EXCEPT ![w] = Derived]
        /\ UNCHANGED <<todo, list, target, number, job>>
    BY <1>t, <1>11 DEF DerivePeriod, WorldOK, HistoryOK, world, At, Goto
  <2>2. PICK label \in {"restating", "storing"} : pc' = [pc EXCEPT ![w] = label]
    BY <1>11 DEF DerivePeriod, Goto
  <2>3. Derived \in PeriodStatuses
    BY DEF Derived, PeriodStatuses
  <2>4. LocalsOK' /\ Elsewhere(w)
    BY <1>t, <2>1, <2>2, <2>3 DEF LocalsOK, Elsewhere, Labels
  <2>5. Holding(w)'
    BY <1>t, <1>r, <2>1, <2>2 DEF LocalsOK, Holding
  <2> QED
    BY <2>1, <2>4, <2>5, WorkerStep
<1>12. ASSUME NEW w \in Workers, StorePeriod(w) PROVE TypeInv'
  <2>1. WorldOK' /\ HistoryOK' /\ pc[w] = "storing"
    BY <1>t, <1>12
    DEF StorePeriod, WritePeriod, WorldOK, HistoryOK, LocalsOK, PeriodStatuses, world, At
  <2>2. todo[w] = {} /\ Goto(w, "restating") /\ UNCHANGED locals
    BY <1>t, <1>12, <2>1 DEF StorePeriod, Holding
  <2> QED
    BY <1>3, <2>1, <2>2 DEF Labels
<1>13. ASSUME NEW w \in Workers, RestateAssessments(w) PROVE TypeInv'
  <2>1. WorldOK' /\ pc[w] = "restating" /\ behind' = behind /\ typed' = typed
    BY <1>t, <1>13 DEF RestateAssessments, WorldOK, world, At
  <2>2. CASE Return(w)
    BY <1>1, <2>1, <2>2
  <2>3. CASE Goto(w, "listing") /\ since' = [since EXCEPT ![w] = {}]
             /\ UNCHANGED <<todo, list, target, number, seen>>
    <3>1. todo[w] = {} /\ HistoryOK'
      BY <1>t, <2>1, <2>3, HistoryKept DEF Holding, HistoryOK
    <3> QED
      BY <1>3, <2>1, <2>3, <3>1 DEF Labels, locals
  <2> QED
    BY <1>13, <2>2, <2>3 DEF RestateAssessments
<1>14. ASSUME NEW w \in Workers, ListOverdue(w) PROVE TypeInv'
  <2>1. WorldOK' /\ pc[w] = "listing" /\ behind' = behind /\ typed' = typed
    BY <1>t, <1>14 DEF ListOverdue, WorldOK, world, At
  <2>2. CASE Return(w)
    BY <1>1, <2>1, <2>2
  <2>3. CASE ~Return(w)
    <3>1. PICK overdue \in SUBSET {n \in Numbers : Taken(n)} :
            /\ list' = [list EXCEPT ![w] = overdue] /\ Goto(w, "charging")
            /\ UNCHANGED <<todo, target, number, seen, since>>
      BY <1>14, <2>3 DEF ListOverdue, Live, Taken
    <3>2. pc' = [pc EXCEPT ![w] = "charging"] /\ job' = job
      BY <3>1 DEF Goto
    <3>3. LocalsOK' /\ Elsewhere(w)
      BY <1>t, <3>1, <3>2 DEF LocalsOK, Elsewhere, Labels
    <3>4. Holding(w)'
      BY <1>t, <1>r, <2>1, <3>1, <3>2 DEF LocalsOK, Holding
    <3>5. HistoryOK'
      BY <1>t, <2>1, <3>1 DEF HistoryOK
    <3> QED
      BY <2>1, <3>3, <3>4, <3>5, WorkerStep
  <2> QED
    BY <2>2, <2>3
<1>15. ASSUME NEW w \in Workers, CheckDuplicate(w) PROVE TypeInv'
  <2>1. WorldOK' /\ pc[w] = "charging" /\ behind' = behind /\ typed' = typed
    BY <1>t, <1>15 DEF CheckDuplicate, WorldOK, world, At
  <2>2. CASE Return(w)
    BY <1>1, <2>1, <2>2
  <2>3. CASE ~Return(w)
    <3>1. PICK n \in list[w] :
            /\ list' = [list EXCEPT ![w] = @ \ {n}]
            /\ \/ UNCHANGED <<flow, target>>
               \/ target' = [target EXCEPT ![w] = n] /\ Goto(w, "feeNumbering")
            /\ since' = [since EXCEPT ![w] = {}]
            /\ UNCHANGED <<todo, number, seen>>
      BY <1>15, <2>3 DEF CheckDuplicate
    <3>2. n \in Numbers /\ Taken(n)
      BY <1>t, <3>1 DEF LocalsOK, Holding
    <3>3. \/ UNCHANGED <<pc, job, target>>
          \/ /\ target' = [target EXCEPT ![w] = n] /\ job' = job
             /\ pc' = [pc EXCEPT ![w] = "feeNumbering"]
      BY <3>1 DEF flow, Goto
    <3>4. LocalsOK' /\ Elsewhere(w)
      BY <1>t, <3>1, <3>2, <3>3 DEF LocalsOK, Elsewhere, Labels
    <3>5. Holding(w)'
      BY <1>t, <1>r, <2>1, <3>1, <3>2, <3>3 DEF LocalsOK, Holding
    <3>6. HistoryOK'
      BY <1>t, <2>1, <3>1, HistoryKept DEF HistoryOK
    <3> QED
      BY <2>1, <3>4, <3>5, <3>6, WorkerStep
  <2> QED
    BY <2>2, <2>3
<1>16. ASSUME NEW w \in Workers, ChargeFee(w) PROVE TypeInv'
  <2> DEFINE n == number[w] + 1
  <2>1. /\ WorldOK' /\ pc[w] = "feeing" /\ behind' = behind /\ typed' = typed
        /\ n \in Numbers
    BY <1>t, <1>16, NumbersAreNatural DEF ChargeFee, WorldOK, LocalsOK, world, At
  <2>2. CASE Return(w)
    BY <1>1, <2>1, <2>2
  <2>3. CASE ~Return(w)
    <3>1. /\ Appears(n) /\ target' = [target EXCEPT ![w] = Dues]
          /\ pc' = [pc EXCEPT ![w] = "charging"]
          /\ UNCHANGED <<job, todo, list, number, seen>>
      BY <1>16, <2>3 DEF ChargeFee, Goto
    <3>2. LocalsOK' /\ Elsewhere(w)
      BY <1>t, <3>1 DEF LocalsOK, Elsewhere, Labels
    <3>3. Holding(w)'
      BY <1>t, <1>r, <2>1, <3>1, NumbersAreNatural DEF LocalsOK, Holding
    <3>4. HistoryOK'
      BY <1>t, <2>1, <3>1, HistoryKept DEF HistoryOK
    <3> QED
      BY <2>1, <3>2, <3>3, <3>4, WorkerStep
  <2> QED
    BY <2>2, <2>3
<1>17. ASSUME NEW w \in Workers, NEW h \in Households, NEW n \in Numbers, DraftAssessment(w, h, n)
       PROVE  TypeInv'
  <2>1. WorldOK'
    BY <1>t, <1>m, <1>17 DEF DraftAssessment, WorldOK
  <2>2. HistoryOK'
    <3>1. Appears(n) /\ behind' = behind /\ typed' \in BOOLEAN
      BY <1>17 DEF DraftAssessment
    <3> QED
      BY <1>t, <3>1, HistoryKept
  <2> QED
    BY <1>2, <1>17, <2>1, <2>2 DEF DraftAssessment, Jobs
<1>18. ASSUME NEW w \in Workers, NEW n \in Numbers, Issue(w, n) PROVE TypeInv'
  <2>1. WorldOK' /\ UNCHANGED <<flow, locals>>
    BY <1>t, <1>18 DEF Issue, WorldOK, world
  <2>2. since' \in [Workers -> SUBSET Numbers]
    BY <1>t, <1>18 DEF Issue, HistoryOK
  <2>3. HistoryOK'
    BY <1>t, <1>18, <2>2 DEF Issue, HistoryOK
  <2> QED
    BY <1>4, <2>1, <2>3
<1>19. ASSUME NEW w \in Workers, NEW n \in Numbers,
              CancelAssessment(w, n) \/ WaiveAssessment(w, n) \/ RemoveAssessment(w, n)
       PROVE  TypeInv'
  <2>1. WorldOK' /\ HistoryOK'
    BY <1>t, <1>m, <1>19
    DEF CancelAssessment, WaiveAssessment, MoveAssessment, RemoveAssessment, WorldOK, HistoryOK, history
  <2>2. Begin(w, "sync", "deriving") \/ UNCHANGED <<flow, locals>>
    BY <1>19 DEF CancelAssessment, WaiveAssessment, MoveAssessment, RemoveAssessment
  <2> QED
    BY <1>2, <1>4, <2>1, <2>2 DEF Jobs
<1>20. ASSUME NEW n \in Numbers, Pay(n) PROVE TypeInv'
  <2>1. WorldOK' /\ HistoryOK' /\ UNCHANGED <<flow, locals>>
    BY <1>t, <1>20, DuesConstants DEF Pay, WorldOK, HistoryOK, history
  <2> QED
    BY <1>4, <2>1
<1>21. ASSUME NEW w \in Workers, NEW s \in PeriodStatuses, UpdatePeriod(w, s) PROVE TypeInv'
  <2>1. WorldOK' /\ HistoryOK'
    BY <1>t, <1>m, <1>21 DEF UpdatePeriod, WritePeriod, WorldOK, HistoryOK
  <2> QED
    BY <1>2, <1>21, <2>1 DEF UpdatePeriod, Jobs
<1>22. ASSUME NEW w \in Workers, DeletePeriod(w) \/ FlipPeriod(w) PROVE TypeInv'
  <2>1. WorldOK' /\ behind' \subseteq behind \cup Workers /\ typed' = typed /\ Return(w)
    BY <1>t, <1>22 DEF DeletePeriod, FlipPeriod, WritePeriod, WorldOK, PeriodStatuses, world
  <2> QED
    BY <1>1, <2>1
<1>23. ASSUME NEW w \in Workers, Sweep(w) PROVE TypeInv'
  <2>1. WorldOK' /\ HistoryOK'
    BY <1>t, <1>23 DEF Sweep, WorldOK, HistoryOK, world
  <2>2. Begin(w, "sweep", "flipping") \/ UNCHANGED <<flow, locals>>
    BY <1>23 DEF Sweep
  <2> QED
    BY <1>2, <1>4, <2>1, <2>2 DEF Jobs
<1>24. CASE Tick \/ UNCHANGED vars
  <2>1. WorldOK' /\ HistoryOK' /\ UNCHANGED <<flow, locals>>
    BY <1>t, <1>24 DEF Tick, WorldOK, HistoryOK, history, vars, world
  <2> QED
    BY <1>4, <2>1
<1>25. CASE Crash
  <2>1. WorldOK' /\ HistoryOK'
    BY <1>t, <1>25, DuesConstants DEF Crash, WorldOK, HistoryOK
  <2>2. LocalsOK' /\ HoldInv'
    BY <1>25, NumbersAreNatural DEF Crash, LocalsOK, HoldInv, Holding, Labels, Jobs
  <2>3. TypeOK'
    BY <2>1, <2>2, RowsStep, TypeParts, PTL
  <2> QED
    BY <2>2, <2>3 DEF TypeInv
<1> QED
  BY <1>5, <1>6, <1>7, <1>8, <1>9, <1>10, <1>11, <1>12, <1>13, <1>14, <1>15, <1>16, <1>17, <1>18,
     <1>19, <1>20, <1>21, <1>22, <1>23, <1>24, <1>25
  DEF Next, Continue, Officer

\* Rows, workers and the period have their types, and a late fee has a higher number
\* than what it is for.
THEOREM TypeCorrect == Spec => []TypeOK
<1>1. TypeInv => TypeOK
  BY DEF TypeInv
<1> QED
  BY TypeInit, TypeStep, <1>1, PTL DEF Spec

-----------------------------------------------------------------------------
(* A waived period.  Whoever is about to write the period, and is not      *)
(* behind, found it other than waived, and it still is.                    *)

AbreastInv ==
    \A w \in Workers : w \notin behind /\ pc[w] \in {"storing", "flipping"} => period # "WAIVED"

LEMMA AbreastStep == TypeInv /\ AbreastInv /\ [Next]_vars => AbreastInv'
<1> SUFFICES ASSUME TypeInv, AbreastInv, [Next]_vars PROVE AbreastInv'
  OBVIOUS
<1>t. LocalsOK
  BY TypeParts DEF TypeInv
\* w goes on to something that writes no period, and the period stays.
<1>1. ASSUME NEW w \in Workers, NEW label, pc' = [pc EXCEPT ![w] = label],
             label \notin {"storing", "flipping"}, period' = period, behind \ {w} \subseteq behind'
      PROVE  AbreastInv'
  BY <1>t, <1>1 DEF AbreastInv, LocalsOK
\* w writes the period and the others that have read it are behind.
<1>2. ASSUME NEW w \in Workers, NEW label, pc' = [pc EXCEPT ![w] = label],
             label \notin {"storing", "flipping"}, NEW s, WritePeriod(w, s)
      PROVE  AbreastInv'
  BY <1>t, <1>2 DEF AbreastInv, LocalsOK, WritePeriod
<1>3. ASSUME UNCHANGED <<pc, period>>, behind' = behind PROVE AbreastInv'
  BY <1>3 DEF AbreastInv
<1>4. ASSUME NEW w \in Workers,
             Run(w) \/ Generate(w) \/ CreatePeriod(w) \/ RemovePeriod(w) \/ FindPeriod(w)
      PROVE  AbreastInv'
  <2>1. /\ period' = period /\ behind' = behind
        /\ \E label \in {"ensuring", "opening", "removing", "checking"} : pc' = [pc EXCEPT ![w] = label]
    BY <1>4 DEF Run, Generate, CreatePeriod, RemovePeriod, FindPeriod, Begin, Goto, history
  <2> QED
    BY <1>1, <2>1
<1>5. ASSUME NEW w \in Workers, OpenPeriod(w) PROVE AbreastInv'
  <2>1. /\ period' = period \/ (period = "none" /\ period' = "OPEN")
        /\ behind' = behind
        /\ \E label \in {"idle", "checking"} : pc' = [pc EXCEPT ![w] = label]
    BY <1>5 DEF OpenPeriod, Return, Goto
  <2> QED
    BY <1>t, <2>1 DEF AbreastInv, LocalsOK
<1>6. ASSUME NEW w \in Workers,
             CheckExisting(w) \/ ReadNumber(w) \/ ReadFeeNumber(w) \/ RestateAssessments(w)
                \/ ListOverdue(w) \/ ChargeFee(w) \/ CreateAssessments(w)
      PROVE  AbreastInv'
  <2>1. /\ period' = period /\ behind' = behind
        /\ \E label \in {"idle", "listing", "numbering", "creating", "feeing", "charging", "deriving"} :
              pc' = [pc EXCEPT ![w] = label]
    BY <1>6 DEF CheckExisting, ReadNumber, ReadFeeNumber, RestateAssessments, ListOverdue, ChargeFee,
                CreateAssessments, Insert, Return, Goto, history
  <2> QED
    BY <1>1, <2>1
<1>7. ASSUME NEW w \in Workers, CheckDuplicate(w) PROVE AbreastInv'
  <2>1. /\ period' = period /\ behind' = behind
        /\ pc' = pc \/ \E label \in {"idle", "feeNumbering"} : pc' = [pc EXCEPT ![w] = label]
    BY <1>7 DEF CheckDuplicate, Return, Goto, flow
  <2> QED
    BY <1>1, <1>3, <2>1
<1>8. ASSUME NEW w \in Workers, DerivePeriod(w) PROVE AbreastInv'
  <2>1. /\ period' = period /\ behind' = behind \ {w}
        /\ \/ pc' = [pc EXCEPT ![w] = "restating"]
           \/ period # "WAIVED" /\ pc' = [pc EXCEPT ![w] = "storing"]
    BY <1>8 DEF DerivePeriod, Goto, Derived
  <2> QED
    BY <1>t, <2>1 DEF AbreastInv, LocalsOK
<1>9. ASSUME NEW w \in Workers, StorePeriod(w) \/ DeletePeriod(w) \/ FlipPeriod(w) PROVE AbreastInv'
  <2>1. /\ \E s : WritePeriod(w, s)
        /\ \E label \in {"idle", "restating"} : pc' = [pc EXCEPT ![w] = label]
    BY <1>9 DEF StorePeriod, DeletePeriod, FlipPeriod, Return, Goto
  <2> QED
    BY <1>2, <2>1
<1>10. ASSUME NEW w \in Workers, NEW s \in PeriodStatuses, UpdatePeriod(w, s) PROVE AbreastInv'
  <2>1. /\ \E t : WritePeriod(w, t)
        /\ \E label \in {"deriving"} : pc' = [pc EXCEPT ![w] = label]
    BY <1>10 DEF UpdatePeriod, Begin
  <2> QED
    BY <1>2, <2>1
<1>11. ASSUME NEW w \in Workers, Sweep(w) PROVE AbreastInv'
  <2>1. /\ period' = period /\ behind' = behind \ {w} /\ pc[w] = "idle"
        /\ \/ period = "OPEN" /\ pc' = [pc EXCEPT ![w] = "flipping"]
           \/ pc' = pc
    BY <1>11 DEF Sweep, Begin, flow, At
  <2> QED
    BY <1>t, <2>1 DEF AbreastInv, LocalsOK
<1>12. ASSUME NEW w \in Workers, NEW h \in Households, NEW n \in Numbers, DraftAssessment(w, h, n)
       PROVE  AbreastInv'
  BY <1>1, <1>12 DEF DraftAssessment, Begin
<1>13. ASSUME NEW w \in Workers, NEW n \in Numbers,
              CancelAssessment(w, n) \/ WaiveAssessment(w, n) \/ RemoveAssessment(w, n) \/ Issue(w, n)
       PROVE  AbreastInv'
  <2>1. /\ period' = period /\ behind' = behind
        /\ pc' = pc \/ pc' = [pc EXCEPT ![w] = "deriving"]
    BY <1>13 DEF CancelAssessment, WaiveAssessment, MoveAssessment, RemoveAssessment, Issue, Begin,
                 flow, history
  <2> QED
    BY <1>1, <1>3, <2>1
<1>14. CASE (\E n \in Numbers : Pay(n)) \/ Tick \/ UNCHANGED vars
  BY <1>3, <1>14 DEF Pay, Tick, vars, flow, history
<1>15. CASE Crash
  BY <1>15 DEF Crash, AbreastInv
<1> QED
  BY <1>4, <1>5, <1>6, <1>7, <1>8, <1>9, <1>10, <1>11, <1>12, <1>13, <1>14, <1>15
  DEF Next, Continue, Officer

\* A waived period stays waived, until an officer edits it, or a handler that read it
\* before the waiver writes it.
THEOREM WaiverStays == Spec => WaivedStays
<1> DEFINE A == period = "WAIVED" /\ period' # "WAIVED" =>
                  \/ moves' # moves \/ period' = "deleted"
                  \/ \E w \in behind : pc'[w] # pc[w]
<1>1. Init => TypeInv /\ AbreastInv
  <2>1. Init => AbreastInv
    BY DEF Init, AbreastInv
  <2> QED
    BY <2>1, TypeInit
<1>2. (TypeInv /\ AbreastInv) /\ [Next]_vars => (TypeInv /\ AbreastInv)'
  BY TypeStep, AbreastStep
<1>3. (TypeInv /\ AbreastInv) /\ [Next]_vars => [A]_vars
  <2> SUFFICES ASSUME TypeInv, AbreastInv, [Next]_vars, period = "WAIVED", period' # "WAIVED",
                      moves' = moves, period' # "deleted"
               PROVE  \E w \in behind : pc'[w] # pc[w]
    OBVIOUS
  <2>1. PICK w \in Workers : StorePeriod(w) \/ FlipPeriod(w)
    <3>1. ASSUME NEW w \in Workers, Move(w) PROVE FALSE
      <4>1. moves \in Nat /\ moves' = moves + 1
        BY <3>1, TypeParts, DuesConstants DEF Move, TypeInv, WorldOK
      <4> QED
        BY <4>1
    <3>2. ASSUME NEW n \in Numbers, Pay(n) PROVE FALSE
      BY <3>2 DEF Pay
    <3> QED
      BY <3>1, <3>2, ZenonT(60)
      DEF Next, Continue, Officer, Run, Generate, CreatePeriod, RemovePeriod, FindPeriod, OpenPeriod,
          CheckExisting, ReadNumber, CreateAssessments, DerivePeriod, RestateAssessments, ListOverdue,
          CheckDuplicate, ReadFeeNumber, ChargeFee, DeletePeriod, WritePeriod, Sweep, DraftAssessment,
          Issue, CancelAssessment, WaiveAssessment, MoveAssessment, RemoveAssessment, UpdatePeriod,
          Tick, Crash, vars
  <2>2. pc[w] \in {"storing", "flipping"} /\ pc'[w] \in {"restating", "idle"}
    BY <2>1, TypeParts DEF TypeInv, LocalsOK, StorePeriod, FlipPeriod, At, Goto, Return
  <2> QED
    BY <2>2 DEF AbreastInv
<1> QED
  BY <1>1, <1>2, <1>3, PTL DEF Spec, WaivedStays

-----------------------------------------------------------------------------
(* No bill and no fee behind the back of who looks.  Numbers are given out *)
(* without a gap; so the number after the one a worker counts from is free *)
(* only if no row has been inserted since it was read, and a worker that   *)
(* is about to insert at a free number knows of every row there is but     *)
(* those that came between its look and its reading of the number.         *)

Gapless == ~typed => \A n \in Numbers : Taken(n) => \A m \in Numbers : m < n => Taken(m)

Free(w) == ~typed /\ number[w] < MaxNumber /\ ~Taken(number[w] + 1)

Informed(w) ==
    /\ pc[w] = "numbering" \/ (pc[w] = "creating" /\ Free(w)) =>
          \A h \in todo[w] : Counted(job[w], h) \subseteq since[w]
    /\ pc[w] = "feeNumbering" \/ (pc[w] = "feeing" /\ Free(w)) => Fees(target[w]) \subseteq since[w]

KnowInv == Gapless /\ \A w \in Workers : Informed(w)

Same(v) ==
    /\ pc'[v] = pc[v] /\ job'[v] = job[v] /\ todo'[v] = todo[v] /\ list'[v] = list[v]
    /\ target'[v] = target[v] /\ number'[v] = number[v]

\* No row is inserted.
NoNew == \A m \in Numbers : Taken(m)' => Taken(m)

\* Who does not move knows what it knew, when no row is inserted.
LEMMA KnowsStill ==
    ASSUME LocalsOK, NEW v \in Workers, Informed(v), Same(v), since[v] \subseteq since'[v],
           \A m \in Numbers : RowStep(m), NoNew, typed' = typed
    PROVE  Informed(v)'
<1>1. Free(v)' => Free(v)
  <2> SUFFICES ASSUME Free(v)' PROVE Free(v)
    OBVIOUS
  <2>1. number[v] \in 0 .. MaxNumber /\ number[v] < MaxNumber /\ number'[v] = number[v]
    BY DEF LocalsOK, Free, Same
  <2>2. PICK n \in Numbers : n = number[v] + 1
    BY <2>1, NumbersAreNatural
  <2>3. ~Taken(n)'
    BY <2>1, <2>2 DEF Free, Taken
  <2>4. ~Taken(n)
    BY <2>3 DEF RowStep
  <2> QED
    BY <2>1, <2>2, <2>4 DEF Free
<1>2. ASSUME NEW h, pc[v] # "idle", Counted(job[v], h) \subseteq since[v]
      PROVE  Counted(job[v], h)' \subseteq since'[v]
  <2> SUFFICES ASSUME NEW m \in Counted(job[v], h)' PROVE m \in since'[v]
    OBVIOUS
  <2>1. m \in Numbers /\ Taken(m)'
    BY DEF Counted, Uncancelled, Bills, Live, Taken
  <2>2. Taken(m)
    BY <2>1 DEF NoNew
  <2>3. job'[v] = job[v]
    BY DEF Same
  <2>4. \/ m \in Counted(job[v], h)
        \/ \A u \in Workers : pc[u] # "idle" => m \in since'[u]
    BY <2>1, <2>2, <2>3 DEF RowStep, Counted, Uncancelled, Bills, Live
  <2> QED
    BY <1>2, <2>4
<1>3. ASSUME Fees(target[v]) \subseteq since[v]
      PROVE  Fees(target[v])' \subseteq since'[v]
  <2> SUFFICES ASSUME NEW m \in Fees(target[v])' PROVE m \in since'[v]
    OBVIOUS
  <2>1. m \in Numbers /\ Taken(m)' /\ target'[v] = target[v]
    BY DEF Fees, Live, Taken, Same
  <2>2. Taken(m)
    BY <2>1 DEF NoNew
  <2>3. m \in Fees(target[v])
    BY <2>1, <2>2 DEF RowStep, Fees, Live
  <2> QED
    BY <1>3, <2>3
<1> QED
  BY <1>1, <1>2, <1>3 DEF Informed, Same

\* When no row is inserted there is no new gap.
LEMMA NoGap ==
    ASSUME Gapless, \A m \in Numbers : RowStep(m), NoNew, typed' = typed
    PROVE  Gapless'
  BY DEF Gapless, NoNew, RowStep

\* A row has come at n, the lowest number that was free.
Inserted(n) ==
    /\ ~Taken(n) /\ Taken(n)' /\ Appears(n)
    /\ \A m \in Numbers : m # n => rows'[m] = rows[m]
    /\ typed' \/ (~typed /\ \A m \in Numbers : m < n => Taken(m))

LEMMA NoGapBefore ==
    ASSUME Gapless, NEW n \in Numbers, Inserted(n)
    PROVE  Gapless'
<1> SUFFICES ASSUME ~typed' PROVE \A k \in Numbers : Taken(k)' => \A m \in Numbers : m < k => Taken(m)'
  BY DEF Gapless
<1>1. ~typed /\ \A m \in Numbers : m < n => Taken(m)
  BY DEF Inserted
<1>2. \A m \in Numbers : Taken(m)' <=> (m = n \/ Taken(m))
  BY DEF Inserted, Taken
<1> QED
  BY <1>1, <1>2 DEF Gapless

\* Who does not move has seen the new row, or its number is no longer free.
LEMMA KnowsOfIt ==
    ASSUME TypeInv, Gapless, NEW v \in Workers, Informed(v), Same(v), NEW n \in Numbers, Inserted(n)
    PROVE  Informed(v)'
<1>t. LocalsOK /\ Holding(v) /\ HistoryOK
  BY TypeParts DEF TypeInv, HoldInv
<1>1. ASSUME pc[v] \in {"creating", "feeing"}, Free(v)' PROVE FALSE
  <2>1. /\ number[v] \in 0 .. MaxNumber /\ number[v] < MaxNumber /\ number'[v] = number[v]
        /\ ~typed' /\ Taken(n)' /\ ~Taken(n)
    BY <1>t, <1>1 DEF LocalsOK, Free, Same, Inserted
  <2>2. PICK k \in Numbers : k = number[v] + 1
    BY <2>1, NumbersAreNatural
  <2>3. ~Taken(k)'
    BY <1>1, <2>1, <2>2 DEF Free, Taken
  <2>4. ~(k < n)
    BY <2>1, <2>3, NoGapBefore DEF Gapless
  <2>5. n \in Nat /\ n # k
    BY <2>1, <2>3, NumbersAreNatural DEF Taken
  <2>6. n <= number[v] /\ number[v] # 0 /\ number[v] \in Nat /\ number[v] \in Numbers
    BY <2>1, <2>2, <2>4, <2>5, NumbersAreNatural
  <2>7. Taken(number[v])
    BY <1>t, <1>1, <2>6 DEF Holding
  <2>8. n = number[v] \/ n < number[v]
    BY <2>5, <2>6
  <2> QED
    BY <2>1, <2>6, <2>7, <2>8 DEF Gapless, Inserted
<1>2. pc[v] \in {"numbering", "feeNumbering"} => since'[v] = since[v] \cup {n}
  BY DEF Inserted, Appears
<1>3. ASSUME NEW h, NEW m \in Counted(job[v], h)', m # n
      PROVE  m \in Counted(job[v], h)
  BY <1>3 DEF Same, Inserted, Counted, Uncancelled, Bills, Live
<1>4. ASSUME NEW m \in Fees(target[v])', m # n
      PROVE  m \in Fees(target[v])
  BY <1>4 DEF Same, Inserted, Fees, Live
<1>5. ASSUME pc[v] = "numbering", NEW h \in todo[v]
      PROVE  Counted(job[v], h)' \subseteq since'[v]
  BY <1>2, <1>3, <1>5 DEF Informed
<1>6. ASSUME pc[v] = "feeNumbering"
      PROVE  Fees(target[v])' \subseteq since'[v]
  BY <1>2, <1>4, <1>6 DEF Informed
<1> QED
  BY <1>1, <1>5, <1>6 DEF Informed, Same

LEMMA KnowInit == Init => KnowInv
  BY DEF Init, KnowInv, Gapless, Informed, Taken, NoRow

\* A step by w that inserts nothing and leaves w where it need know nothing.
LEMMA NothingToKnow ==
    ASSUME TypeInv, KnowInv, [Next]_vars, NEW w \in Workers, \A v \in Workers : v # w => Same(v),
           \A v \in Workers : v # w => since[v] \subseteq since'[v], NoNew, typed' = typed,
           pc'[w] \notin {"numbering", "creating", "feeNumbering", "feeing"}
    PROVE  KnowInv'
<1>1. LocalsOK /\ \A m \in Numbers : RowStep(m)
  BY TypeParts, RowsStep DEF TypeInv
<1>2. Gapless'
  BY <1>1, NoGap DEF KnowInv
<1>3. \A v \in Workers : v # w => Informed(v)'
  BY <1>1, KnowsStill DEF KnowInv
<1>4. Informed(w)'
  BY DEF Informed
<1> QED
  BY <1>2, <1>3, <1>4 DEF KnowInv

\* Rows that are there move; none is inserted.
LEMMA NoneInserted ==
    ASSUME RowsOK,
           \/ rows' = rows
           \/ \E n \in Numbers : Live(n) /\ \A m \in Numbers : m # n => rows'[m] = rows[m]
           \/ \E w \in Workers : RestateAssessments(w) \/ Sweep(w)
    PROVE  NoNew
<1>1. CASE rows' = rows
  BY <1>1 DEF NoNew, Taken
<1>2. ASSUME NEW n \in Numbers, Live(n), \A m \in Numbers : m # n => rows'[m] = rows[m]
      PROVE  NoNew
  BY <1>2 DEF NoNew, Taken, Live
<1>3. ASSUME NEW w \in Workers, RestateAssessments(w) \/ Sweep(w), NEW m \in Numbers, ~Taken(m)
      PROVE  rows'[m] = rows[m]
  BY <1>3 DEF RestateAssessments, Sweep, Restated, Bills, Live, Taken
<1>4. ASSUME NEW w \in Workers, RestateAssessments(w) \/ Sweep(w) PROVE NoNew
  BY <1>3, <1>4 DEF NoNew, Taken
<1> QED
  BY <1>1, <1>2, <1>4

LEMMA KnowStep == TypeInv /\ KnowInv /\ [Next]_vars => KnowInv'
<1> SUFFICES ASSUME TypeInv, KnowInv, [Next]_vars PROVE KnowInv'
  OBVIOUS
<1>t. RowsOK /\ LocalsOK /\ HistoryOK /\ \A v \in Workers : Holding(v)
  BY TypeParts DEF TypeInv, HoldInv
<1>r. \A m \in Numbers : RowStep(m)
  BY RowsStep
<1> DEFINE Blank == {"numbering", "creating", "feeNumbering", "feeing"}
\* w returns, begins or goes on, and nothing is inserted.
<1>1. ASSUME NEW w \in Workers, Return(w), NoNew, typed' = typed PROVE KnowInv'
  <2>1. /\ pc'[w] = "idle" /\ \A v \in Workers : v # w => Same(v)
        /\ \A v \in Workers : v # w => since'[v] = since[v]
    BY <1>t, <1>1, ReturnHolds DEF Same
  <2> QED
    BY <1>1, <2>1, NothingToKnow
<1>2. ASSUME NEW w \in Workers, NEW j, NEW label, label \notin Blank, Begin(w, j, label), NoNew,
             typed' = typed, \A v \in Workers : since[v] \subseteq since'[v]
      PROVE  KnowInv'
  <2>1. pc'[w] = label /\ \A v \in Workers : v # w => Same(v)
    BY <1>t, <1>2 DEF Begin, Same, locals, LocalsOK
  <2> QED
    BY <1>2, <2>1, NothingToKnow
<1>3. ASSUME NEW w \in Workers, NEW label, label \notin Blank, Goto(w, label), NoNew,
             typed' = typed, UNCHANGED locals,
             \A v \in Workers : v # w => since[v] \subseteq since'[v]
      PROVE  KnowInv'
  <2>1. pc'[w] = label /\ \A v \in Workers : v # w => Same(v)
    BY <1>t, <1>3 DEF Goto, Same, locals, LocalsOK
  <2> QED
    BY <1>3, <2>1, NothingToKnow
<1>4. ASSUME UNCHANGED <<flow, locals>>, NoNew, typed' = typed,
             \A v \in Workers : since[v] \subseteq since'[v]
      PROVE  KnowInv'
  <2>1. \A v \in Workers : Same(v)
    BY <1>4 DEF flow, locals, Same
  <2>2. Gapless'
    BY <1>r, <1>4, NoGap DEF KnowInv
  <2>3. \A v \in Workers : Informed(v)'
    BY <1>t, <1>r, <1>4, <2>1, KnowsStill DEF KnowInv
  <2> QED
    BY <2>2, <2>3 DEF KnowInv
<1>n. rows' = rows => NoNew
  BY <1>t, NoneInserted
<1>5. ASSUME NEW w \in Workers,
             Run(w) \/ Generate(w) \/ CreatePeriod(w) \/ RemovePeriod(w) \/ Sweep(w)
      PROVE  KnowInv'
  <2>1. /\ \/ \E j, label : label \notin Blank /\ Begin(w, j, label)
           \/ UNCHANGED <<flow, locals>>
        /\ rows' = rows \/ Sweep(w)
        /\ typed' = typed /\ since' = since
    BY <1>5 DEF Run, Generate, CreatePeriod, RemovePeriod, Sweep, history
  <2>2. NoNew
    BY <1>t, <2>1, NoneInserted
  <2> QED
    BY <1>2, <1>4, <2>1, <2>2
<1>6. ASSUME NEW w \in Workers, FindPeriod(w) \/ StorePeriod(w) PROVE KnowInv'
  <2>1. /\ \E label : label \notin Blank /\ Goto(w, label)
        /\ rows' = rows /\ UNCHANGED locals /\ typed' = typed /\ since' = since
    BY <1>6 DEF FindPeriod, StorePeriod, history
  <2> QED
    BY <1>3, <1>n, <2>1
<1>7. ASSUME NEW w \in Workers, OpenPeriod(w) \/ DeletePeriod(w) \/ FlipPeriod(w) PROVE KnowInv'
  <2>1. /\ Return(w) \/ (Goto(w, "checking") /\ UNCHANGED <<locals, since>>)
        /\ rows' = rows /\ typed' = typed
    BY <1>7 DEF OpenPeriod, DeletePeriod, FlipPeriod
  <2> QED
    BY <1>1, <1>3, <1>n, <2>1
<1>8. ASSUME NEW w \in Workers, DerivePeriod(w) \/ RestateAssessments(w) \/ ListOverdue(w)
      PROVE  KnowInv'
  <2>1. NoNew /\ typed' = typed
    <3>1. rows' = rows \/ RestateAssessments(w)
      BY <1>8 DEF DerivePeriod, ListOverdue
    <3> QED
      BY <1>t, <1>8, <3>1, NoneInserted DEF DerivePeriod, RestateAssessments, ListOverdue
  <2>2. CASE Return(w)
    BY <1>1, <2>1, <2>2
  <2>3. CASE ~Return(w)
    <3>1. /\ \E label \in {"restating", "storing", "listing", "charging"} : Goto(w, label)
          /\ UNCHANGED <<todo, target, number>>
          /\ list' = list \/ \E overdue : list' = [list EXCEPT ![w] = overdue]
          /\ since' = since \/ since' = [since EXCEPT ![w] = {}]
      BY <1>8, <2>3 DEF DerivePeriod, RestateAssessments, ListOverdue
    <3>2. pc'[w] \notin Blank /\ \A v \in Workers : v # w => Same(v)
      BY <1>t, <3>1 DEF Goto, Same, LocalsOK
    <3>3. \A v \in Workers : v # w => since[v] \subseteq since'[v]
      BY <1>t, <3>1 DEF HistoryOK
    <3> QED
      BY <2>1, <3>2, <3>3, NothingToKnow
  <2> QED
    BY <2>2, <2>3
\* w looks, or reads the latest number: nothing happens to the rows.
<1>9. ASSUME NEW w \in Workers, rows' = rows, typed' = typed, \A v \in Workers : v # w => Same(v),
             \A v \in Workers : v # w => since[v] \subseteq since'[v], Informed(w)'
      PROVE  KnowInv'
  <2>1. Gapless'
    BY <1>r, <1>n, <1>9, NoGap DEF KnowInv
  <2>2. \A v \in Workers : v # w => Informed(v)'
    BY <1>t, <1>r, <1>n, <1>9, KnowsStill DEF KnowInv
  <2> QED
    BY <1>9, <2>1, <2>2 DEF KnowInv
<1>10. ASSUME NEW w \in Workers, CheckExisting(w) PROVE KnowInv'
  <2>1. rows' = rows /\ typed' = typed
    BY <1>10 DEF CheckExisting
  <2>2. CASE Return(w)
    BY <1>1, <1>n, <2>1, <2>2
  <2>3. CASE ~Return(w)
    <3>1. PICK eligible : /\ eligible = {h \in Households : Counted(job[w], h) = {}}
                          /\ todo' = [todo EXCEPT ![w] = eligible]
                          /\ Goto(w, IF eligible = {} THEN "listing" ELSE "numbering")
                          /\ UNCHANGED <<list, target, number, seen, since>>
      BY <1>10, <2>3 DEF CheckExisting
    <3>2. PICK label \in {"listing", "numbering"} : pc' = [pc EXCEPT ![w] = label] /\ job' = job
      BY <3>1 DEF Goto
    <3>3. \A v \in Workers : v # w => Same(v)
      BY <1>t, <3>1, <3>2 DEF Same, LocalsOK
    <3>4. \A h \in todo'[w] : Counted(job[w], h)' = {}
      BY <1>t, <2>1, <3>1, <3>2 DEF LocalsOK, Counted, Uncancelled, Bills, Live
    <3>5. Informed(w)'
      BY <1>t, <3>2, <3>4 DEF Informed, LocalsOK
    <3> QED
      BY <1>9, <2>1, <3>1, <3>3, <3>5
  <2> QED
    BY <2>2, <2>3
<1>11. ASSUME NEW w \in Workers, ReadNumber(w) \/ ReadFeeNumber(w) PROVE KnowInv'
  <2>1. /\ rows' = rows /\ typed' = typed /\ since' = since
        /\ number' = [number EXCEPT ![w] = Latest]
        /\ UNCHANGED <<todo, list, target, job>>
    BY <1>11 DEF ReadNumber, ReadFeeNumber, history, Goto
  <2>2. PICK label \in {"creating", "feeing"} :
          /\ pc' = [pc EXCEPT ![w] = label]
          /\ label = "creating" => pc[w] = "numbering"
          /\ label = "feeing" => pc[w] = "feeNumbering"
    BY <1>11 DEF ReadNumber, ReadFeeNumber, Goto, At
  <2>3. \A v \in Workers : v # w => Same(v)
    BY <1>t, <2>1, <2>2 DEF Same, LocalsOK
  <2>4. /\ \A h : Counted(job[w], h)' = Counted(job[w], h)
        /\ Fees(target[w])' = Fees(target[w])
    BY <2>1 DEF Counted, Uncancelled, Bills, Fees, Live
  <2>5. Informed(w)'
    BY <1>t, <2>1, <2>2, <2>4 DEF Informed, LocalsOK, KnowInv
  <2> QED
    BY <1>9, <2>1, <2>3, <2>5
<1>12. ASSUME NEW w \in Workers, CheckDuplicate(w) PROVE KnowInv'
  <2>1. rows' = rows /\ typed' = typed /\ pc[w] = "charging"
    BY <1>12 DEF CheckDuplicate, At
  <2>2. CASE Return(w)
    BY <1>1, <1>n, <2>1, <2>2
  <2>3. CASE ~Return(w)
    <3>1. PICK n \in list[w] :
            /\ list' = [list EXCEPT ![w] = @ \ {n}]
            /\ IF Fees(n) # {} THEN UNCHANGED <<flow, target>>
               ELSE target' = [target EXCEPT ![w] = n] /\ Goto(w, "feeNumbering")
            /\ since' = [since EXCEPT ![w] = {}]
            /\ UNCHANGED <<todo, number, seen>>
      BY <1>12, <2>3 DEF CheckDuplicate
    <3>2. \/ UNCHANGED <<pc, job, target>>
          \/ /\ Fees(n) = {} /\ target' = [target EXCEPT ![w] = n] /\ job' = job
             /\ pc' = [pc EXCEPT ![w] = "feeNumbering"]
      BY <3>1 DEF flow, Goto
    <3>3. \A v \in Workers : v # w => Same(v) /\ since'[v] = since[v]
      BY <1>t, <3>1, <3>2 DEF Same, LocalsOK, HistoryOK
    <3>4. Informed(w)'
      <4>1. CASE pc' = pc
        BY <2>1, <4>1 DEF Informed
      <4>2. CASE /\ Fees(n) = {} /\ target' = [target EXCEPT ![w] = n] /\ job' = job
                 /\ pc' = [pc EXCEPT ![w] = "feeNumbering"]
        <5>1. target'[w] = n /\ pc'[w] = "feeNumbering"
          BY <1>t, <4>2 DEF LocalsOK
        <5>2. Fees(target[w])' = {}
          BY <2>1, <4>2, <5>1 DEF Fees, Live
        <5> QED
          BY <5>1, <5>2 DEF Informed
      <4> QED
        BY <3>2, <4>1, <4>2
    <3> QED
      BY <1>9, <2>1, <3>3, <3>4
  <2> QED
    BY <2>2, <2>3
\* A row comes at n, by a step of w.
<1>13. ASSUME NEW w \in Workers, NEW n \in Numbers, Inserted(n), \A v \in Workers : v # w => Same(v),
              Informed(w)'
       PROVE  KnowInv'
  <2>1. Gapless'
    BY <1>13, NoGapBefore DEF KnowInv
  <2>2. \A v \in Workers : v # w => Informed(v)'
    BY <1>13, KnowsOfIt DEF KnowInv
  <2> QED
    BY <1>13, <2>1, <2>2 DEF KnowInv
\* The number after one that is taken, or the first, is the next one.
<1>14. ASSUME NEW w \in Workers, pc[w] \in {"creating", "feeing"}, NEW n \in Numbers,
              n = number[w] + 1, NEW r, r.status # "none", ~Taken(n), rows' = [rows EXCEPT ![n] = r],
              Appears(n), typed' = typed
       PROVE  Inserted(n)
  <2>1. Taken(n)' /\ \A m \in Numbers : m # n => rows'[m] = rows[m]
    BY <1>t, <1>14 DEF Taken, RowsOK
  <2>2. ASSUME ~typed, NEW m \in Numbers, m < n PROVE Taken(m)
    <3>1. number[w] \in 0 .. MaxNumber
      BY <1>t DEF LocalsOK
    <3>2. m <= number[w] /\ number[w] # 0 /\ number[w] \in Numbers
      BY <1>14, <2>2, <3>1, NumbersAreNatural
    <3>3. Taken(number[w])
      BY <1>t, <1>14, <3>2 DEF Holding
    <3>4. m = number[w] \/ m < number[w]
      BY <3>1, <3>2, NumbersAreNatural
    <3> QED
      BY <2>2, <3>2, <3>3, <3>4 DEF KnowInv, Gapless
  <2>3. typed' \/ (~typed /\ \A m \in Numbers : m < n => Taken(m))
    <3>1. CASE typed
      BY <1>14, <3>1
    <3>2. CASE ~typed
      BY <2>2, <3>2
    <3> QED
      BY <3>1, <3>2
  <2> QED
    BY <1>14, <2>1, <2>3 DEF Inserted
<1>15. ASSUME NEW w \in Workers, CreateAssessments(w) PROVE KnowInv'
  <2>1. PICK h \in todo[w] : Insert(w, h, number[w] + 1)
    BY <1>15 DEF CreateAssessments
  <2>n. PICK n \in Numbers : n = number[w] + 1
    BY <1>t, <1>15, NumbersAreNatural DEF CreateAssessments, LocalsOK
  <2>2. pc[w] = "creating" /\ typed' = typed
    BY <1>15 DEF CreateAssessments, At
  <2>3. CASE Return(w)
    <3>1. ~Taken(n) => since' = [since EXCEPT ![w] = {}] /\ Appears(n)
      BY <2>1, <2>3, <2>n DEF Insert, Return
    <3>2. Taken(n)
      <4> SUFFICES ASSUME ~Taken(n) PROVE FALSE
        OBVIOUS
      <4>1. number' = [number EXCEPT ![w] = n] /\ number' = [number EXCEPT ![w] = 0]
        BY <2>1, <2>3, <2>n DEF Insert, Return
      <4> QED
        BY <1>t, <4>1, NumbersAreNatural DEF LocalsOK
    <3>3. rows' = rows
      BY <2>1, <2>n, <3>2 DEF Insert
    <3> QED
      BY <1>1, <1>n, <2>2, <2>3, <3>3
  <2>4. CASE ~Return(w)
    <3> DEFINE r == Bill(h, Determine("ISSUED", FALSE))
    <3>1. /\ ~Taken(n) /\ rows' = [rows EXCEPT ![n] = r] /\ Appears(n)
          /\ todo' = [todo EXCEPT ![w] = @ \ {h}] /\ number' = [number EXCEPT ![w] = n]
          /\ pc' = [pc EXCEPT ![w] = IF todo[w] = {h} THEN "deriving" ELSE "creating"]
          /\ UNCHANGED <<job, list, target, seen>>
      BY <2>1, <2>4, <2>n DEF Insert, Goto
    <3>2. \A v \in Workers : v # w => Same(v)
      BY <1>t, <3>1 DEF LocalsOK, Same
    <3>3. r.status # "none" /\ r.home = h
      BY DetermineTypes DEF RowStatuses, Open, Bill
    <3>4. Inserted(n)
      <4> HIDE DEF r
      <4> QED
        BY <1>14, <2>2, <2>n, <3>1, <3>3
    <3>5. Informed(w)'
      <4> SUFFICES ASSUME pc'[w] = "creating", Free(w)', NEW k \in todo'[w]
                   PROVE  Counted(job[w], k)' \subseteq since'[w]
        <5>1. pc'[w] \in {"creating", "deriving"}
          BY <1>t, <3>1 DEF LocalsOK
        <5> QED
          BY <5>1 DEF Informed
      <4>1. k \in todo[w] /\ k # h /\ since'[w] = since[w] /\ job' = job
        BY <1>t, <2>2, <3>1 DEF LocalsOK, Appears
      <4>2. Counted(job[w], k) \subseteq since[w]
        <5>1. ~typed
          BY <2>2 DEF Free
        <5>2. Free(w)
          BY <1>15, <2>n, <3>1, <5>1 DEF CreateAssessments, Free
        <5> QED
          BY <2>2, <4>1, <5>2 DEF KnowInv, Informed
      <4>3. rows'[n].home = h /\ \A m \in Numbers : m # n => rows'[m] = rows[m]
        BY <1>t, <3>1, <3>3 DEF RowsOK
      <4>4. Counted(job[w], k)' \subseteq Counted(job[w], k)
        BY <4>1, <4>3 DEF Counted, Uncancelled, Bills, Live
      <4> QED
        BY <4>1, <4>2, <4>4
    <3> QED
      BY <1>13, <3>2, <3>4, <3>5
  <2> QED
    BY <2>3, <2>4
<1>16. ASSUME NEW w \in Workers, ChargeFee(w) PROVE KnowInv'
  <2>n. PICK n \in Numbers : n = number[w] + 1
    BY <1>t, <1>16, NumbersAreNatural DEF ChargeFee, LocalsOK
  <2>1. pc[w] = "feeing" /\ typed' = typed
    BY <1>16 DEF ChargeFee, At
  <2>2. CASE Taken(n)
    <3>1. Return(w) /\ rows' = rows
      BY <1>16, <2>n, <2>2 DEF ChargeFee
    <3> QED
      BY <1>1, <1>n, <2>1, <3>1
  <2>3. CASE ~Taken(n)
    <3> DEFINE fee == [home |-> rows[target[w]].home, status |-> "OVERDUE", paid |-> FALSE,
                       for |-> target[w]]
    <3>1. /\ rows' = [rows EXCEPT ![n] = fee] /\ Appears(n)
          /\ target' = [target EXCEPT ![w] = Dues] /\ pc' = [pc EXCEPT ![w] = "charging"]
          /\ UNCHANGED <<job, todo, list, number, seen>>
      BY <1>16, <2>n, <2>3 DEF ChargeFee, Goto
    <3>2. \A v \in Workers : v # w => Same(v)
      BY <1>t, <3>1 DEF LocalsOK, Same
    <3>3. fee.status # "none"
      OBVIOUS
    <3>4. Inserted(n)
      <4> HIDE DEF fee
      <4> QED
        BY <1>14, <2>1, <2>n, <2>3, <3>1, <3>3
    <3>5. Informed(w)'
      BY <1>t, <3>1 DEF LocalsOK, Informed
    <3> QED
      BY <1>13, <3>2, <3>4, <3>5
  <2> QED
    BY <2>2, <2>3
<1>17. ASSUME NEW w \in Workers, NEW h \in Households, NEW n \in Numbers, DraftAssessment(w, h, n)
       PROVE  KnowInv'
  <2>1. /\ ~Taken(n) /\ rows' = [rows EXCEPT ![n] = Bill(h, "DRAFT")] /\ Appears(n)
        /\ typed' = (typed \/ n # Latest + 1)
        /\ pc' = [pc EXCEPT ![w] = "deriving"] /\ job' = [job EXCEPT ![w] = "sync"]
        /\ UNCHANGED <<todo, list, target, number>>
    BY <1>17 DEF DraftAssessment, Begin, locals
  <2>2. Inserted(n)
    <3>1. Taken(n)' /\ \A m \in Numbers : m # n => rows'[m] = rows[m]
      BY <1>t, <2>1 DEF Taken, RowsOK, Bill
    <3>2. typed' \in BOOLEAN
      BY <2>1
    <3>3. ASSUME ~typed', NEW m \in Numbers, m < n PROVE ~typed /\ Taken(m)
      <4>1. ~typed /\ n = Latest + 1
        BY <2>1, <3>3
      <4>2. Latest \in Nat /\ Latest # 0 /\ Latest \in Numbers /\ Taken(Latest) /\ m <= Latest
        BY <3>3, <4>1, LatestIsLatest, NumbersAreNatural
      <4>3. m = Latest \/ m < Latest
        BY <4>2, NumbersAreNatural
      <4> QED
        BY <4>1, <4>2, <4>3 DEF KnowInv, Gapless
    <3>4. ~typed' => ~typed
      BY <2>1
    <3>5. typed' \/ (~typed /\ \A m \in Numbers : m < n => Taken(m))
      <4>1. CASE typed'
        BY <4>1
      <4>2. CASE ~typed'
        BY <3>3, <3>4, <4>2
      <4> QED
        BY <4>1, <4>2
    <3> QED
      BY <2>1, <3>1, <3>5 DEF Inserted
  <2>3. \A v \in Workers : v # w => Same(v)
    BY <1>t, <2>1 DEF LocalsOK, Same
  <2>4. Informed(w)'
    BY <1>t, <2>1 DEF LocalsOK, Informed
  <2> QED
    BY <1>13, <2>2, <2>3, <2>4
<1>18. ASSUME NEW w \in Workers, NEW n \in Numbers,
              CancelAssessment(w, n) \/ WaiveAssessment(w, n) \/ RemoveAssessment(w, n) \/ Issue(w, n)
       PROVE  KnowInv'
  <2>1. /\ Live(n) /\ \A m \in Numbers : m # n => rows'[m] = rows[m]
        /\ Begin(w, "sync", "deriving") \/ UNCHANGED <<flow, locals>>
        /\ typed' = typed
    BY <1>t, <1>18
    DEF CancelAssessment, WaiveAssessment, MoveAssessment, RemoveAssessment, Issue, history, RowsOK
  <2>2. \A v \in Workers : since[v] \subseteq since'[v]
    BY <1>18 DEF CancelAssessment, WaiveAssessment, MoveAssessment, RemoveAssessment, Issue, history
  <2>3. NoNew
    BY <1>t, <2>1, NoneInserted
  <2> QED
    BY <1>2, <1>4, <2>1, <2>2, <2>3
<1>19. ASSUME NEW n \in Numbers, Pay(n) PROVE KnowInv'
  <2>1. /\ Live(n) /\ \A m \in Numbers : m # n => rows'[m] = rows[m]
        /\ UNCHANGED <<flow, locals>> /\ typed' = typed /\ since' = since
    BY <1>t, <1>19 DEF Pay, history, RowsOK
  <2>2. NoNew
    BY <1>t, <2>1, NoneInserted
  <2> QED
    BY <1>4, <2>1, <2>2
<1>20. ASSUME NEW w \in Workers, NEW s \in PeriodStatuses, UpdatePeriod(w, s) PROVE KnowInv'
  <2>1. Begin(w, "sync", "deriving") /\ rows' = rows /\ typed' = typed /\ since' = since
    BY <1>20 DEF UpdatePeriod
  <2> QED
    BY <1>2, <1>n, <2>1
<1>21. CASE Tick \/ UNCHANGED vars
  BY <1>4, <1>n, <1>21 DEF Tick, vars, history
<1>22. CASE Crash
  <2>1. rows' = rows /\ typed' = typed /\ \A w \in Workers : pc'[w] = "idle"
    BY <1>22 DEF Crash
  <2>2. Gapless'
    BY <1>r, <1>n, <2>1, NoGap DEF KnowInv
  <2> QED
    BY <2>1, <2>2 DEF KnowInv, Informed
<1> QED
  BY <1>5, <1>6, <1>7, <1>8, <1>10, <1>11, <1>12, <1>15, <1>16, <1>17, <1>18, <1>19, <1>20, <1>21, <1>22
  DEF Next, Continue, Officer

\* The rows change while a household leaves w's list, or the fee w had to charge is
\* charged: then w has inserted a row, at a number that was free.
LEMMA WhoInserted ==
    ASSUME TypeInv, [Next]_vars, NEW w \in Workers, rows' # rows, ~typed,
           \/ todo'[w] # todo[w] /\ todo[w] # {}
           \/ target'[w] # target[w] /\ pc[w] = "feeing"
    PROVE  /\ pc[w] \in {"creating", "feeing"} /\ Free(w)
           /\ todo'[w] # todo[w] => pc[w] = "creating"
<1>t. LocalsOK /\ Holding(w)
  BY TypeParts DEF TypeInv, HoldInv
<1>1. todo[w] # {} => pc[w] \in {"numbering", "creating"}
  BY <1>t DEF Holding
<1>2. PICK v \in Workers : CreateAssessments(v) \/ ChargeFee(v) \/ RestateAssessments(v)
  <2>1. ~(todo' = todo /\ target' = target)
    OBVIOUS
  <2>2. ASSUME NEW v \in Workers, Officer(v) PROVE FALSE
    <3>1. ASSUME rows' = rows \/ UNCHANGED locals PROVE FALSE
      BY <2>1, <3>1 DEF locals
    <3>2. ASSUME Generate(v) \/ CreatePeriod(v) \/ RemovePeriod(v)
                    \/ \E s \in PeriodStatuses : UpdatePeriod(v, s)
          PROVE  rows' = rows
      BY <3>2 DEF Generate, CreatePeriod, RemovePeriod, UpdatePeriod
    <3>3. ASSUME Sweep(v) \/ \E h \in Households, n \in Numbers : DraftAssessment(v, h, n)
          PROVE  UNCHANGED locals
      BY <3>3 DEF Sweep, DraftAssessment, Begin
    <3>4. ASSUME NEW n \in Numbers,
                 Issue(v, n) \/ CancelAssessment(v, n) \/ WaiveAssessment(v, n) \/ RemoveAssessment(v, n)
          PROVE  UNCHANGED locals
      BY <3>4 DEF Issue, CancelAssessment, WaiveAssessment, MoveAssessment, RemoveAssessment, Begin
    <3> QED
      BY <2>2, <3>1, <3>2, <3>3, <3>4 DEF Officer
  <2>3. ASSUME NEW n \in Numbers, Pay(n) PROVE FALSE
    BY <2>1, <2>3 DEF Pay, locals
  <2> QED
    BY <2>2, <2>3
    DEF Next, Continue, Run, FindPeriod, OpenPeriod, CheckExisting, ReadNumber, DerivePeriod,
        StorePeriod, ListOverdue, CheckDuplicate, ReadFeeNumber, DeletePeriod, FlipPeriod, Tick, Crash,
        vars
<1>3. v = w
  <2> SUFFICES ASSUME v # w PROVE FALSE
    OBVIOUS
  <2>1. CASE Return(v)
    BY <1>t, <2>1, ReturnHolds
  <2>2. CASE ~Return(v)
    BY <1>t, <1>2, <2>2 DEF CreateAssessments, ChargeFee, RestateAssessments, Insert, Goto, LocalsOK
  <2> QED
    BY <2>1, <2>2
<1>4. pc[w] \in {"creating", "feeing"}
  BY <1>1, <1>2, <1>3 DEF CreateAssessments, ChargeFee, RestateAssessments, At
<1>5. number[w] < MaxNumber /\ ~Taken(number[w] + 1)
  <2>1. CASE CreateAssessments(w)
    BY <2>1 DEF CreateAssessments, Insert
  <2>2. CASE ChargeFee(w)
    BY <1>t, <2>2, NumbersAreNatural DEF ChargeFee, LocalsOK
  <2>3. ~RestateAssessments(w)
    BY <1>4 DEF RestateAssessments, At
  <2> QED
    BY <1>2, <1>3, <2>1, <2>2, <2>3
<1>6. todo'[w] # todo[w] => pc[w] = "creating"
  <2>1. ASSUME pc[w] = "feeing" PROVE todo'[w] = todo[w]
    <3>1. ChargeFee(w)
      BY <1>2, <1>3, <2>1 DEF CreateAssessments, RestateAssessments, At
    <3> QED
      BY <1>5, <3>1 DEF ChargeFee
  <2> QED
    BY <1>4, <2>1
<1> QED
  BY <1>4, <1>5, <1>6 DEF Free

\* No operation bills a household that has a bill, unless that bill appeared between
\* the operation's look and its reading of the latest number, as long as officers type
\* no numbers.
THEOREM BilledOnce == Spec => BillsOnce
<1> DEFINE A == \A w \in Workers : \A h \in todo[w] \ todo'[w] :
                    rows' # rows /\ ~typed => Counted(job[w], h) \subseteq since[w]
<1>1. (TypeInv /\ KnowInv) /\ [Next]_vars => (TypeInv /\ KnowInv)'
  BY TypeStep, KnowStep
<1>2. (TypeInv /\ KnowInv) /\ [Next]_vars => [A]_vars
  <2> SUFFICES ASSUME TypeInv, KnowInv, [Next]_vars, NEW w \in Workers, NEW h \in todo[w] \ todo'[w],
                      rows' # rows, ~typed
               PROVE  Counted(job[w], h) \subseteq since[w]
    OBVIOUS
  <2>1. pc[w] = "creating" /\ Free(w)
    BY WhoInserted
  <2> QED
    BY <2>1 DEF KnowInv, Informed
<1> QED
  BY TypeInit, KnowInit, <1>1, <1>2, PTL DEF Spec, BillsOnce

\* The same for late fees.
THEOREM ChargedOnce == Spec => FeesOnce
<1> DEFINE A == \A w \in Workers :
                    At(w, "feeing") /\ rows' # rows /\ target'[w] = Dues /\ ~typed
                        => Fees(target[w]) \subseteq since[w]
<1>1. (TypeInv /\ KnowInv) /\ [Next]_vars => (TypeInv /\ KnowInv)'
  BY TypeStep, KnowStep
<1>2. (TypeInv /\ KnowInv) /\ [Next]_vars => [A]_vars
  <2> SUFFICES ASSUME TypeInv, KnowInv, [Next]_vars, NEW w \in Workers, At(w, "feeing"),
                      rows' # rows, target'[w] = Dues, ~typed
               PROVE  Fees(target[w]) \subseteq since[w]
    OBVIOUS
  <2>1. pc[w] = "feeing" /\ target[w] \in Numbers
    BY DEF TypeInv, HoldInv, Holding, At
  <2>2. target'[w] # target[w]
    BY <2>1, NumbersAreNatural
  <2>3. Free(w)
    BY <2>1, <2>2, WhoInserted
  <2> QED
    BY <2>1, <2>3 DEF KnowInv, Informed
<1> QED
  BY TypeInit, KnowInit, <1>1, <1>2, PTL DEF Spec, FeesOnce
=============================================================================
