----------------------- MODULE StickerNumbersProofs -----------------------
(***************************************************************************)
(* Automatic issuance of stickers never fails for a number, and requests   *)
(* get what they were approved for, for any number of requests, officers   *)
(* and stickers.                                                           *)
(***************************************************************************)
EXTENDS StickerNumbers, WellFoundedInduction, TLAPS

-----------------------------------------------------------------------------
\* The highest of some numbers is one of them, and no lower than any.
LEMMA HighestIsHighest ==
    ASSUME NEW S \in SUBSET Numbers
    PROVE  /\ Highest(S) \in Numbers \cup {0}
           /\ \A n \in S : n <= Highest(S)
<1>1. CASE S = {}
  BY <1>1 DEF Highest
<1>2. CASE S # {}
  <2> DEFINE T == {MaxNumber - n : n \in S}
  <2>1. \A t \in T : t \in Nat
    <3> TAKE t \in T
    <3>1. PICK n \in S : t = MaxNumber - n
      OBVIOUS
    <3>2. n \in Nat /\ n <= MaxNumber /\ MaxNumber \in Nat
      BY StickerConstants DEF Numbers
    <3> QED
      BY <3>1, <3>2
  <2>2. T # {}
    BY <1>2
  <2>3. PICK t \in T : \A u \in T : ~(<<u, t>> \in OpToRel(<, Nat))
    <3> HIDE DEF T
    <3> QED
      BY <2>1, <2>2, NatLessThanWellFounded, WFMin
  <2>4. \A u \in T : t <= u
    <3> HIDE DEF T
    <3> TAKE u \in T
    <3>1. <<u, t>> \in Nat \X Nat /\ ~(u < t)
      BY <2>1, <2>3 DEF OpToRel
    <3> QED
      BY <3>1
  <2>5. PICK n \in S : t = MaxNumber - n
    OBVIOUS
  <2>6. \A m \in S : m <= n
    <3> TAKE m \in S
    <3>1. MaxNumber - n <= MaxNumber - m
      BY <2>4, <2>5
    <3>2. m \in Nat /\ n \in Nat /\ MaxNumber \in Nat
      BY StickerConstants DEF Numbers
    <3> QED
      BY <3>1, <3>2
  <2>7. Highest(S) \in S /\ \A m \in S : m <= Highest(S)
    BY <1>2, <2>6 DEF Highest
  <2> QED
    BY <2>7
<1> QED
  BY <1>1, <1>2

-----------------------------------------------------------------------------
(* Types.                                                                  *)

LEMMA TypeInit == Init => TypeOK
  BY StickerConstants DEF Init, TypeOK, Numbers, Labels, NoNumber

\* What a transaction holds, and the lock.
Holdings ==
    /\ lock \in Workers \cup {Nobody}
    /\ pc \in [Workers -> Labels] /\ req \in [Workers -> Requests \cup {Nobody}]
    /\ typed \in [Workers -> Numbers \cup {NoNumber}] /\ count \in [Workers -> 0 .. 2]
    /\ first \in [Workers -> Numbers \cup {NoNumber}]
    /\ auto \in [Workers -> SUBSET Numbers]
    /\ myNext \in [Workers -> 0 .. MaxNumber + 1]
    /\ \A w \in Workers :
          /\ pc[w] \in {"requesting", "cancelling", "rejecting"} => req[w] # Nobody
          /\ myNext[w] # 0 => lock = w
    /\ highest \in [Workers -> Numbers \cup {0}]

\* A worker that returns holds nothing, and the others what they held.
LEMMA ReturnTypes ==
    ASSUME TypeOK, NEW w \in Workers, Return(w) PROVE Holdings'
<1> USE StickerConstants DEF TypeOK, Labels, NoNumber, Return
<1>1. lock' \in Workers \cup {Nobody} /\ myNext' \in [Workers -> 0 .. MaxNumber + 1]
  OBVIOUS
<1>2. \A v \in Workers :
          /\ pc'[v] \in {"requesting", "cancelling", "rejecting"} => req'[v] # Nobody
          /\ myNext'[v] # 0 => lock' = v
  <2> TAKE v \in Workers
  <2>1. CASE v = w
    BY <2>1
  <2>2. CASE v # w
    BY <2>2
  <2> QED
    BY <2>1, <2>2
<1>3. /\ pc' \in [Workers -> Labels] /\ req' \in [Workers -> Requests \cup {Nobody}]
      /\ typed' \in [Workers -> Numbers \cup {NoNumber}] /\ count' \in [Workers -> 0 .. 2]
      /\ first' \in [Workers -> Numbers \cup {NoNumber}]
      /\ auto' \in [Workers -> SUBSET Numbers] /\ highest' \in [Workers -> Numbers \cup {0}]
  OBVIOUS
<1> QED
  BY <1>1, <1>2, <1>3 DEF Holdings

LEMMA WriteTypes ==
    ASSUME TypeOK, NEW w \in Workers, NEW r \in Requests,
           NEW s \in {"APPROVED", "REJECTED", "CANCELLED"}, WriteRequest(w, r, s)
    PROVE  /\ status' \in [Requests -> {"none", "PENDING", "APPROVED", "REJECTED", "CANCELLED"}]
           /\ contested' \subseteq Requests /\ overtaken' \in [Workers -> BOOLEAN]
  BY DEF TypeOK, WriteRequest, Reviewing

LEMMA TypeStep == TypeOK /\ [Next]_vars => TypeOK'
<1> SUFFICES ASSUME TypeOK, [Next]_vars PROVE TypeOK'
  OBVIOUS
<1> USE StickerConstants
    DEF TypeOK, Numbers, Labels, NoNumber, rows, tx, history, At, Goto, Begin, Locks
<1>1. ASSUME NEW w \in Workers, NEW r \in Requests, NEW n \in Numbers \cup {NoNumber},
             Request(w, r, n)
      PROVE  TypeOK'
  BY <1>1 DEF Request
<1>2. ASSUME NEW w \in Workers, StoreRequest(w) PROVE TypeOK'
<2>1. Holdings'
  BY <1>2, ReturnTypes DEF StoreRequest
<2> QED
  BY <1>2, <2>1 DEF StoreRequest, Holdings
<1>3. ASSUME NEW w \in Workers, NEW r \in Requests, CancelRequest(w, r) \/ RejectRequest(w, r)
      PROVE  TypeOK'
<2>1. CASE CancelRequest(w, r)
  BY <2>1 DEF CancelRequest
<2>2. CASE RejectRequest(w, r)
  BY <2>2 DEF RejectRequest
<2> QED
  BY <1>3, <2>1, <2>2
<1>4. ASSUME NEW w \in Workers, StoreCancelled(w) PROVE TypeOK'
<2>1. Holdings' /\ req[w] \in Requests
  BY <1>4, ReturnTypes DEF StoreCancelled
<2>2. /\ status' \in [Requests -> {"none", "PENDING", "APPROVED", "REJECTED", "CANCELLED"}]
      /\ contested' \subseteq Requests /\ overtaken' \in [Workers -> BOOLEAN]
  BY <1>4, <2>1, WriteTypes DEF StoreCancelled
<2> QED
  BY <1>4, <2>1, <2>2 DEF StoreCancelled, Holdings
<1>5. ASSUME NEW w \in Workers, StoreRejected(w) PROVE TypeOK'
<2>1. Holdings' /\ req[w] \in Requests
  BY <1>5, ReturnTypes DEF StoreRejected
<2>2. /\ status' \in [Requests -> {"none", "PENDING", "APPROVED", "REJECTED", "CANCELLED"}]
      /\ contested' \subseteq Requests /\ overtaken' \in [Workers -> BOOLEAN]
  BY <1>5, <2>1, WriteTypes DEF StoreRejected
<2> QED
  BY <1>5, <2>1, <2>2 DEF StoreRejected, Holdings
<1>6. ASSUME NEW w \in Workers, NEW r \in Requests, NEW n \in Numbers \cup {NoNumber},
             ApproveRequest(w, r, n)
      PROVE  TypeOK'
  BY <1>6 DEF ApproveRequest
<1>7. ASSUME NEW w \in Workers, NEW n \in Numbers \cup {NoNumber}, NEW k \in {1, 2},
             IssueDirectly(w, n, k)
      PROVE  TypeOK'
  BY <1>7 DEF IssueDirectly
<1>8. ASSUME NEW w \in Workers, ResolveNumbers(w) PROVE TypeOK'
<2>1. CASE typed[w] \in used
  <3>1. Holdings'
    BY <1>8, <2>1, ReturnTypes DEF ResolveNumbers
  <3> QED
    BY <1>8, <2>1, <3>1, ZenonT(60) DEF ResolveNumbers, Holdings
<2>2. CASE typed[w] \notin used
  <3>0. Wished(w) \in Numbers \cup {NoNumber}
    BY DEF Wished
  <3>1. first' \in [Workers -> Numbers \cup {NoNumber}]
    BY <1>8, <2>2, <3>0 DEF ResolveNumbers
  <3>2. pc' \in {[pc EXCEPT ![w] = "scanning"], [pc EXCEPT ![w] = "allocating"]}
    BY <1>8, <2>2 DEF ResolveNumbers
  <3>3. /\ typed' \in [Workers -> Numbers \cup {NoNumber}]
        /\ UNCHANGED <<auto, myNext, highest, lock, overtaken, req, count, rows, history>>
    BY <1>8, <2>2 DEF ResolveNumbers
  <3> QED
    BY <3>1, <3>2, <3>3
<2> QED
  BY <2>1, <2>2
<1>9. ASSUME NEW w \in Workers, AllocateNumbers(w) PROVE TypeOK'
<2>1. Rest(w) \in -1 .. 2
  BY DEF Rest
<2>2. /\ auto' \in [Workers -> SUBSET Numbers]
      /\ myNext' \in [Workers -> 0 .. MaxNumber + 1]
  BY <1>9, <2>1 DEF AllocateNumbers
<2>3. lock \in {Nobody, w} /\ lock' = w /\ \A v \in Workers : v # w => myNext'[v] = myNext[v]
  BY <1>9 DEF AllocateNumbers
<2>4. \A v \in Workers : myNext'[v] # 0 => lock' = v
  BY <2>3, StickerConstants
<2>5. /\ pc' = [pc EXCEPT ![w] = "scanning"]
      /\ UNCHANGED <<rows, first, highest, history, overtaken, req, typed, count>>
  BY <1>9 DEF AllocateNumbers
<2> QED
  BY <2>2, <2>3, <2>4, <2>5
<1>10. ASSUME NEW w \in Workers, ScanStickers(w) PROVE TypeOK'
  BY <1>10, HighestIsHighest DEF ScanStickers
<1>11. ASSUME NEW w \in Workers, SyncSequence(w) PROVE TypeOK'
  BY <1>11 DEF SyncSequence, Sequence
<1>12. ASSUME NEW w \in Workers, Commit(w) PROVE TypeOK'
<2>1. Holdings'
  BY <1>12, ReturnTypes DEF Commit
<2>2. /\ next' \in 1 .. MaxNumber + 1 /\ used' \subseteq Numbers
      /\ UNCHANGED <<wish, outside>>
  <3>1. Sequence(w) \in 1 .. MaxNumber + 1
    BY DEF Sequence
  <3> QED
    BY <1>12, <3>1, ZenonT(60) DEF Commit
<2>3. /\ status' \in [Requests -> {"none", "PENDING", "APPROVED", "REJECTED", "CANCELLED"}]
      /\ contested' \subseteq Requests /\ overtaken' \in [Workers -> BOOLEAN]
      /\ issued' \in [Requests -> Nat]
  <3>1. CASE req[w] = Nobody
    BY <1>12, <3>1 DEF Commit
  <3>2. CASE req[w] # Nobody
    <4>1. req[w] \in Requests /\ count[w] \in Nat
      BY <3>2
    <4>2. issued' \in [Requests -> Nat]
      BY <1>12, <3>2, <4>1 DEF Commit
    <4> QED
      BY <1>12, <3>2, <4>1, <4>2, WriteTypes DEF Commit
  <3> QED
    BY <3>1, <3>2
<2> QED
  BY <2>1, <2>2, <2>3 DEF Holdings
<1>13. ASSUME NEW w \in Workers, RollBack(w) PROVE TypeOK'
<2>1. Holdings'
  BY <1>13, ReturnTypes DEF RollBack
<2> QED
  BY <1>13, <2>1 DEF RollBack, Holdings
<1>14. ASSUME NEW m \in Numbers, NEW n \in Numbers, EditNumber(m, n) PROVE TypeOK'
  BY <1>14 DEF EditNumber
<1>15. CASE UNCHANGED vars
  BY <1>15 DEF vars
<1>16. ASSUME NEW w \in Workers, Review(w) PROVE TypeOK'
  BY <1>1, <1>2, <1>3, <1>4, <1>5, <1>6, <1>7, <1>16 DEF Review
<1>17. ASSUME NEW w \in Workers, Issuance(w) PROVE TypeOK'
  BY <1>8, <1>9, <1>10, <1>11, <1>12, <1>13, <1>17 DEF Issuance
<1> QED
  BY <1>14, <1>15, <1>16, <1>17 DEF Next

\* Every variable keeps its type; whoever has written the sequence has locked it.
THEOREM TypeCorrect == Spec => []TypeOK
  BY TypeInit, TypeStep, PTL DEF Spec

-----------------------------------------------------------------------------
(* Numbers.                                                                *)

\* Whoever has taken numbers has locked the sequence and moved it beyond them,
\* and a number that was typed is below the sequence before it is inserted.
Reserved ==
    \A w \in Workers :
        /\ myNext[w] # 0 => next <= myNext[w]
        /\ auto[w] # {} => myNext[w] # 0 /\ \A n \in auto[w] : n < myNext[w]
        /\ pc[w] = "syncing" => first[w] <= highest[w]
        /\ pc[w] = "inserting" => lock = w /\ first[w] < Sequence(w)

\* Whoever asks the sequence for numbers wants one at least.
Wanted ==
    \A w \in Workers :
        /\ pc[w] = "resolving" => count[w] \in {1, 2}
        /\ pc[w] = "allocating" => Rest(w) \in {1, 2}

NumberInv == TypeOK /\ Wanted /\ Reserved /\ SequenceIsFree

LEMMA WantedStep == TypeOK /\ Wanted /\ [Next]_vars => Wanted'
<1> SUFFICES ASSUME TypeOK, Wanted, [Next]_vars PROVE Wanted'
  OBVIOUS
<1>1. ASSUME NEW w \in Workers,
             \E label \in Labels \ {"resolving", "allocating"} : pc' = [pc EXCEPT ![w] = label],
             \A v \in Workers : v # w => count'[v] = count[v] /\ first'[v] = first[v]
      PROVE  Wanted'
  BY <1>1 DEF Wanted, Rest, TypeOK
<1>2. ASSUME NEW w \in Workers, Return(w) PROVE Wanted'
  BY <1>1, <1>2 DEF Return, TypeOK, Labels
<1>3. ASSUME NEW w \in Workers, NEW k \in {1, 2}, NEW r, NEW n, Begin(w, "resolving", r, n, k)
      PROVE  Wanted'
  BY <1>3 DEF Begin, tx, Wanted, Rest, TypeOK
<1>4. ASSUME NEW w \in Workers, Review(w) PROVE Wanted'
  <2>1. CASE \E r \in Requests, n \in Numbers \cup {NoNumber} : Request(w, r, n)
    BY <1>1, <2>1 DEF Request, Begin, tx, Labels, TypeOK
  <2>2. CASE \E r \in Requests, n \in Numbers \cup {NoNumber} : ApproveRequest(w, r, n)
    BY <1>3, <2>2, StickerConstants DEF ApproveRequest
  <2>3. CASE \E r \in Requests : CancelRequest(w, r) \/ RejectRequest(w, r)
    BY <1>1, <2>3 DEF CancelRequest, RejectRequest, Begin, tx, Labels, TypeOK
  <2>4. CASE \E n \in Numbers \cup {NoNumber}, k \in {1, 2} : IssueDirectly(w, n, k)
    BY <1>3, <2>4 DEF IssueDirectly
  <2>5. CASE StoreRequest(w) \/ StoreCancelled(w) \/ StoreRejected(w)
    BY <1>2, <2>5 DEF StoreRequest, StoreCancelled, StoreRejected
  <2> QED
    BY <1>4, <2>1, <2>2, <2>3, <2>4, <2>5 DEF Review
<1>5. ASSUME NEW w \in Workers, ResolveNumbers(w) PROVE Wanted'
  <2>1. CASE typed[w] \in used
    BY <1>2, <1>5, <2>1 DEF ResolveNumbers
  <2>2. CASE typed[w] \notin used
    <3> DEFINE takes == Wished(w) # NoNumber /\ Wished(w) \notin used
    <3>1. /\ first' = [first EXCEPT ![w] = IF takes THEN Wished(w) ELSE NoNumber]
          /\ pc' = [pc EXCEPT ![w] = IF takes /\ count[w] = 1 THEN "scanning" ELSE "allocating"]
          /\ count' = count /\ count[w] \in {1, 2}
      BY <1>5, <2>2 DEF ResolveNumbers, At, Wanted
    <3>2. \A v \in Workers : v # w => pc'[v] = pc[v] /\ first'[v] = first[v] /\ count'[v] = count[v]
      BY <3>1 DEF TypeOK
    <3>3. pc'[w] # "resolving" /\ (pc'[w] = "allocating" => Rest(w)' \in {1, 2})
      <4>1. CASE takes
        <5>1. /\ first'[w] = Wished(w) /\ first'[w] # NoNumber
              /\ pc'[w] = IF count[w] = 1 THEN "scanning" ELSE "allocating"
          BY <3>1, <4>1 DEF TypeOK
        <5> QED
          BY <3>1, <5>1 DEF Rest
      <4>2. CASE ~takes
        <5>1. first'[w] = NoNumber /\ pc'[w] = "allocating"
          BY <3>1, <4>2 DEF TypeOK
        <5> QED
          BY <3>1, <5>1 DEF Rest
      <4> QED
        BY <4>1, <4>2
    <3> QED
      BY <3>2, <3>3 DEF Wanted, Rest
  <2> QED
    BY <2>1, <2>2
<1>6. ASSUME NEW w \in Workers, AllocateNumbers(w) \/ ScanStickers(w) \/ SyncSequence(w)
      PROVE  Wanted'
  BY <1>1, <1>6 DEF AllocateNumbers, ScanStickers, SyncSequence, Goto, Labels, TypeOK
<1>7. ASSUME NEW w \in Workers, Commit(w) \/ RollBack(w) PROVE Wanted'
  BY <1>2, <1>7 DEF Commit, RollBack
<1>8. ASSUME NEW m \in Numbers, NEW n \in Numbers, EditNumber(m, n) PROVE Wanted'
  BY <1>8 DEF EditNumber, tx, Wanted, Rest
<1>9. CASE UNCHANGED vars
  BY <1>9 DEF vars, Wanted, Rest
<1> QED
  BY <1>4, <1>5, <1>6, <1>7, <1>8, <1>9 DEF Next, Issuance

\* What a worker that returns leaves behind does not matter to the others.
LEMMA ReturnReserved ==
    ASSUME TypeOK, Reserved, NEW w \in Workers, Return(w),
           next' = next \/ (lock = w /\ next <= next')
    PROVE  Reserved'
<1> SUFFICES ASSUME NEW v \in Workers
             PROVE  /\ myNext'[v] # 0 => next' <= myNext'[v]
                    /\ auto'[v] # {} => myNext'[v] # 0 /\ \A n \in auto'[v] : n < myNext'[v]
                    /\ pc'[v] = "syncing" => first'[v] <= highest'[v]
                    /\ pc'[v] = "inserting" => lock' = v /\ first'[v] < Sequence(v)'
  BY DEF Reserved
<1>1. CASE v = w
  BY <1>1 DEF Return, TypeOK
<1>2. CASE v # w
  <2>1. /\ pc'[v] = pc[v] /\ myNext'[v] = myNext[v] /\ auto'[v] = auto[v]
        /\ first'[v] = first[v] /\ highest'[v] = highest[v]
        /\ lock = v => lock' = v
    BY <1>2 DEF Return, TypeOK
  <2>2. lock = v => next' = next
    BY <1>2
  <2>3. myNext[v] # 0 => lock = v
    BY DEF TypeOK
  <2>4. lock = v => Sequence(v)' = Sequence(v)
    BY <2>1, <2>2 DEF Sequence
  <2> QED
    BY <2>1, <2>2, <2>3, <2>4 DEF Reserved
<1> QED
  BY <1>1, <1>2

LEMMA ReservedStep == TypeOK /\ Wanted /\ Reserved /\ [Next]_vars => Reserved'
<1> SUFFICES ASSUME TypeOK, Wanted, Reserved, [Next]_vars PROVE Reserved'
  OBVIOUS
<1>1. ASSUME NEW w \in Workers,
             \/ \E r \in Requests, n \in Numbers \cup {NoNumber} :
                   Request(w, r, n) \/ ApproveRequest(w, r, n)
             \/ \E r \in Requests : CancelRequest(w, r) \/ RejectRequest(w, r)
             \/ \E n \in Numbers \cup {NoNumber}, k \in {1, 2} : IssueDirectly(w, n, k)
      PROVE  Reserved'
  <2>1. /\ \E label \in Labels \ {"syncing", "inserting"} : pc' = [pc EXCEPT ![w] = label]
        /\ UNCHANGED <<next, lock, first, auto, myNext, highest>>
    BY <1>1 DEF Request, ApproveRequest, CancelRequest, RejectRequest, IssueDirectly,
                Begin, Labels, rows, tx
  <2> QED
    BY <2>1 DEF TypeOK, Reserved, Sequence
<1>2. ASSUME NEW w \in Workers, StoreRequest(w) \/ StoreCancelled(w) \/ StoreRejected(w) \/ RollBack(w)
      PROVE  Reserved'
  <2>1. Return(w) /\ next' = next
    BY <1>2 DEF StoreRequest, StoreCancelled, StoreRejected, RollBack, rows
  <2> QED
    BY <2>1, ReturnReserved
<1>3. ASSUME NEW w \in Workers, Commit(w) PROVE Reserved'
  <2>1. Return(w) /\ lock = w /\ next' = Sequence(w)
    BY <1>3 DEF Commit, At, Reserved
  <2>2. next <= Sequence(w)
    BY DEF Sequence, Reserved, TypeOK
  <2> QED
    BY <2>1, <2>2, ReturnReserved
<1>4. ASSUME NEW w \in Workers, ResolveNumbers(w) PROVE Reserved'
  <2>1. CASE typed[w] \in used
    BY <1>4, <2>1, ReturnReserved DEF ResolveNumbers, rows
  <2>2. CASE typed[w] \notin used
    <3>1. /\ pc' \in {[pc EXCEPT ![w] = "scanning"], [pc EXCEPT ![w] = "allocating"]}
          /\ \A v \in Workers : v # w => first'[v] = first[v]
          /\ pc[w] = "resolving"
          /\ UNCHANGED <<next, lock, auto, myNext, highest>>
      BY <1>4, <2>2 DEF ResolveNumbers, At, rows, TypeOK
    <3> QED
      BY <3>1 DEF TypeOK, Reserved, Sequence
  <2> QED
    BY <2>1, <2>2
<1>5. ASSUME NEW w \in Workers, AllocateNumbers(w) PROVE Reserved'
  <2>1. /\ auto' = [auto EXCEPT ![w] = next .. next + Rest(w) - 1]
        /\ myNext' = [myNext EXCEPT ![w] = next + Rest(w)]
        /\ pc' = [pc EXCEPT ![w] = "scanning"]
        /\ lock \in {Nobody, w} /\ lock' = w
        /\ UNCHANGED <<next, first, highest>>
    BY <1>5 DEF AllocateNumbers, Goto, Locks, rows
  <2>2. Rest(w) \in {1, 2} /\ next \in Nat /\ next > 0
    BY <1>5 DEF AllocateNumbers, At, Wanted, TypeOK
  <2>3. /\ myNext'[w] # 0 => next <= myNext'[w]
        /\ auto'[w] # {} => myNext'[w] # 0 /\ \A n \in auto'[w] : n < myNext'[w]
    <3>1. myNext'[w] = next + Rest(w) /\ auto'[w] = next .. next + Rest(w) - 1
      BY <2>1 DEF TypeOK
    <3> QED
      BY <2>2, <3>1
  <2>4. \A v \in Workers : v # w => pc[v] # "inserting"
    BY <2>1, StickerConstants DEF Reserved
  <2> QED
    BY <2>1, <2>3, <2>4 DEF Reserved, Sequence, TypeOK
<1>6. ASSUME NEW w \in Workers, ScanStickers(w) PROVE Reserved'
  <2> DEFINE S == used \cup auto[w] \cup ({first[w]} \ {NoNumber})
  <2>1. /\ highest' = [highest EXCEPT ![w] = Highest(S)]
        /\ pc' = [pc EXCEPT ![w] = "syncing"]
        /\ UNCHANGED <<next, lock, first, auto, myNext>>
    BY <1>6 DEF ScanStickers, Goto, rows
  <2>2. S \subseteq Numbers /\ (first[w] \in S \/ first[w] = 0)
    BY DEF TypeOK, NoNumber
  <2>3. first[w] <= Highest(S)
    <3> HIDE DEF S
    <3>1. Highest(S) \in Numbers \cup {0} /\ \A n \in S : n <= Highest(S)
      BY <2>2, HighestIsHighest
    <3>2. CASE first[w] \in S
      BY <3>1, <3>2
    <3>3. CASE first[w] = 0
      <4>1. Highest(S) \in Nat
        BY <3>1 DEF Numbers
      <4> QED
        BY <3>3, <4>1
    <3> QED
      BY <2>2, <3>2, <3>3
  <2> QED
    <3> HIDE DEF S
    <3> QED
      BY <2>1, <2>3 DEF Reserved, Sequence, TypeOK
<1>7. ASSUME NEW w \in Workers, SyncSequence(w) PROVE Reserved'
  <2>1. /\ myNext' = [myNext EXCEPT ![w] =
               IF highest[w] + 1 > Sequence(w) THEN highest[w] + 1 ELSE @]
        /\ pc' = [pc EXCEPT ![w] = "inserting"]
        /\ highest' = [highest EXCEPT ![w] = 0]
        /\ lock \in {Nobody, w} /\ lock' = w
        /\ UNCHANGED <<next, first, auto>> /\ pc[w] = "syncing"
    BY <1>7 DEF SyncSequence, At, Goto, Locks, rows
  <2>2. /\ next \in Nat /\ next > 0 /\ highest[w] \in Nat /\ first[w] \in Nat
        /\ myNext[w] \in Nat /\ first[w] <= highest[w]
        /\ \A n \in auto[w] : n \in Nat
    BY <2>1, StickerConstants DEF TypeOK, Reserved, Numbers, NoNumber
  <2>3. /\ myNext'[w] # 0 => next <= myNext'[w]
        /\ auto'[w] # {} => myNext'[w] # 0 /\ \A n \in auto'[w] : n < myNext'[w]
        /\ first[w] < IF myNext'[w] = 0 THEN next ELSE myNext'[w]
    <3>1. CASE highest[w] + 1 > Sequence(w)
      <4>1. myNext'[w] = highest[w] + 1
        BY <2>1, <3>1 DEF TypeOK
      <4> QED
        BY <2>1, <2>2, <3>1, <4>1 DEF Reserved, Sequence
    <3>2. CASE ~(highest[w] + 1 > Sequence(w))
      <4>1. myNext'[w] = myNext[w]
        BY <2>1, <3>2 DEF TypeOK
      <4> QED
        BY <2>1, <2>2, <3>2, <4>1 DEF Reserved, Sequence
    <3> QED
      BY <3>1, <3>2
  <2>4. \A v \in Workers : v # w => pc[v] # "inserting" /\ myNext'[v] = myNext[v]
    BY <2>1, StickerConstants DEF Reserved, TypeOK
  <2> QED
    BY <2>1, <2>3, <2>4 DEF Reserved, Sequence, TypeOK
<1>8. ASSUME NEW m \in Numbers, NEW n \in Numbers, EditNumber(m, n) PROVE Reserved'
  BY <1>8 DEF EditNumber, tx, Reserved, Sequence
<1>9. CASE UNCHANGED vars
  BY <1>9 DEF vars, Reserved, Sequence
<1> QED
  BY <1>1, <1>2, <1>3, <1>4, <1>5, <1>6, <1>7, <1>8, <1>9 DEF Next, Review, Issuance

\* A number that was taken is not used by another: to insert one beyond the
\* sequence needs the lock.
LEMMA FreeStep == NumberInv /\ [Next]_vars => SequenceIsFree'
<1> SUFFICES ASSUME NumberInv, [Next]_vars PROVE SequenceIsFree'
  OBVIOUS
<1>t. TypeOK /\ Reserved /\ SequenceIsFree
  BY DEF NumberInv
<1>1. ASSUME NEW w \in Workers, Commit(w) PROVE SequenceIsFree'
  <2>1. /\ used' = used \cup auto[w] \cup ({first[w]} \ {NoNumber})
        /\ next' = Sequence(w) /\ outside' = outside
        /\ auto' = [auto EXCEPT ![w] = {}]
        /\ lock = w /\ first[w] < Sequence(w)
    BY <1>1, <1>t DEF Commit, Return, At, Reserved
  <2>2. \A v \in Workers : auto'[v] = {}
    BY <1>t, <2>1 DEF TypeOK, Reserved
  <2>3. /\ next <= Sequence(w) /\ next \in Nat /\ Sequence(w) \in Nat
        /\ \A n \in auto[w] : n < Sequence(w)
    BY <1>t DEF TypeOK, Reserved, Sequence
  <2>4. used \subseteq Nat /\ auto[w] \subseteq Nat /\ first[w] \in Nat
    BY <1>t, StickerConstants DEF TypeOK, Numbers, NoNumber
  <2>5. \A n \in used' : n >= next' => n \in outside'
    BY <1>t, <2>1, <2>3, <2>4 DEF SequenceIsFree
  <2> QED
    BY <2>2, <2>5 DEF SequenceIsFree
<1>2. ASSUME NEW w \in Workers, AllocateNumbers(w) PROVE SequenceIsFree'
  <2>1. /\ auto' = [auto EXCEPT ![w] = next .. next + Rest(w) - 1]
        /\ UNCHANGED <<next, used, outside>>
    BY <1>2 DEF AllocateNumbers, rows, history
  <2>2. Rest(w) \in -1 .. 2 /\ next \in Nat
    BY <1>t DEF Rest, TypeOK
  <2>3. \A n \in auto'[w] : n >= next
    BY <1>t, <2>1, <2>2 DEF TypeOK
  <2> QED
    BY <1>t, <2>1, <2>3 DEF SequenceIsFree, TypeOK
<1>3. ASSUME NEW w \in Workers,
             UNCHANGED <<next, used, outside>>,
             auto' = auto \/ auto' = [auto EXCEPT ![w] = {}]
      PROVE  SequenceIsFree'
  BY <1>t, <1>3 DEF SequenceIsFree, TypeOK
<1>4. ASSUME NEW w \in Workers, Review(w) PROVE SequenceIsFree'
  <2>1. /\ UNCHANGED <<next, used, outside>>
        /\ auto' = auto \/ auto' = [auto EXCEPT ![w] = {}]
    BY <1>4 DEF Review, Request, ApproveRequest, CancelRequest, RejectRequest,
                IssueDirectly, StoreRequest, StoreCancelled, StoreRejected, Begin, Return,
                rows, tx, history
  <2> QED
    BY <1>3, <2>1
<1>5. ASSUME NEW w \in Workers,
             ResolveNumbers(w) \/ ScanStickers(w) \/ SyncSequence(w) \/ RollBack(w)
      PROVE  SequenceIsFree'
  <2>1. /\ UNCHANGED <<next, used, outside>>
        /\ auto' = auto \/ auto' = [auto EXCEPT ![w] = {}]
    BY <1>5 DEF ResolveNumbers, ScanStickers, SyncSequence, RollBack, Return, rows, tx,
                history
  <2> QED
    BY <1>3, <2>1
<1>6. ASSUME NEW m \in Numbers, NEW n \in Numbers, EditNumber(m, n) PROVE SequenceIsFree'
  BY <1>t, <1>6 DEF EditNumber, tx, SequenceIsFree
<1>7. CASE UNCHANGED vars
  BY <1>t, <1>7 DEF vars, SequenceIsFree
<1> QED
  BY <1>1, <1>2, <1>4, <1>5, <1>6, <1>7 DEF Next, Issuance

LEMMA NumberInvInductive == (Init => NumberInv) /\ (NumberInv /\ [Next]_vars => NumberInv')
<1>1. Init => NumberInv
  <2> SUFFICES ASSUME Init PROVE NumberInv
    OBVIOUS
  <2>1. TypeOK
    BY TypeInit
  <2> QED
    BY <2>1 DEF Init, NumberInv, Wanted, Reserved, SequenceIsFree
<1>2. NumberInv /\ [Next]_vars => NumberInv'
  BY TypeStep, WantedStep, ReservedStep, FreeStep DEF NumberInv
<1> QED
  BY <1>1, <1>2

\* Automatic issuance never fails for a number, whatever officers type meanwhile,
\* unless one edited that number onto a sticker, or it was there before the sequence.
THEOREM IssuanceNeverFails == Spec => []SequenceIsFree
<1>1. NumberInv => SequenceIsFree
  BY DEF NumberInv
<1> QED
  BY <1>1, NumberInvInductive, PTL DEF Spec

-----------------------------------------------------------------------------
(* Requests.  Whoever reviews a request and has not been overtaken knows   *)
(* its status, and whoever stores one is alone with it.                    *)

Issuing == {"resolving", "allocating", "scanning", "syncing", "inserting"}

Knows(w) ==
    /\ pc[w] = "requesting" => status[req[w]] = "none" /\ Reviewing(req[w]) = {w}
    /\ ~overtaken[w] =>
          /\ pc[w] = "cancelling" => status[req[w]] \in {"PENDING", "REJECTED"}
          /\ pc[w] = "rejecting" => status[req[w]] = "PENDING"
          /\ pc[w] \in Issuing => status[req[w]] = "PENDING" /\ count[w] = Quantity[req[w]]

ReviewKnown == \A w \in Workers : pc[w] # "idle" /\ req[w] # Nobody => Knows(w)

ReviewInv == TypeOK /\ ReviewKnown /\ IssuedAsApproved

\* w returns and no request is written.
LEMMA ReturnKnown ==
    ASSUME TypeOK, ReviewKnown, NEW w \in Workers, Return(w), status' = status,
           \A v \in Workers : v # w => overtaken'[v] = overtaken[v]
    PROVE  ReviewKnown'
<1> SUFFICES ASSUME NEW v \in Workers, pc'[v] # "idle", req'[v] # Nobody PROVE Knows(v)'
  BY DEF ReviewKnown
<1>1. v # w /\ \A u \in Workers : u # w => pc'[u] = pc[u] /\ req'[u] = req[u] /\ count'[u] = count[u]
  BY DEF Return, TypeOK
<1>2. pc'[w] = "idle"
  BY DEF Return, TypeOK
<1>3. Knows(v)
  BY <1>1 DEF ReviewKnown
<1>4. Reviewing(req[v]) = {v} => Reviewing(req[v])' = {v}
  BY <1>1, <1>2 DEF Reviewing
<1> QED
  BY <1>1, <1>3, <1>4 DEF Knows

\* w writes its request and returns: the others that review it are overtaken.
LEMMA WrittenKnown ==
    ASSUME TypeOK, ReviewKnown, NEW w \in Workers, Return(w), pc[w] # "idle",
           req[w] # Nobody, NEW s, WriteRequest(w, req[w], s)
    PROVE  ReviewKnown'
<1> SUFFICES ASSUME NEW v \in Workers, pc'[v] # "idle", req'[v] # Nobody PROVE Knows(v)'
  BY DEF ReviewKnown
<1>1. v # w /\ \A u \in Workers : u # w => pc'[u] = pc[u] /\ req'[u] = req[u] /\ count'[u] = count[u]
  BY DEF Return, TypeOK
<1>2. pc'[w] = "idle" /\ w \in Reviewing(req[w])
  BY DEF Return, TypeOK, Reviewing
<1>3. Knows(v)
  BY <1>1 DEF ReviewKnown
<1>4. CASE req[v] = req[w]
  <2>1. pc[v] # "requesting"
    BY <1>1, <1>2, <1>3, <1>4 DEF Knows
  <2>2. overtaken'[v]
    BY <1>1, <1>4 DEF WriteRequest, Reviewing
  <2> QED
    BY <1>1, <2>1, <2>2 DEF Knows
<1>5. CASE req[v] # req[w]
  <2>1. status'[req[v]] = status[req[v]] /\ overtaken'[v] = overtaken[v]
    <3>1. v \notin Reviewing(req[w])
      BY <1>5 DEF Reviewing
    <3>2. req[v] \in Requests /\ req[w] \in Requests
      BY <1>1 DEF TypeOK
    <3>3. overtaken'[v] = overtaken[v]
      BY <1>1, <3>1 DEF WriteRequest, TypeOK
    <3> QED
      BY <1>5, <3>2, <3>3 DEF WriteRequest, TypeOK
  <2>2. Reviewing(req[v]) = {v} => Reviewing(req[v])' = {v}
    BY <1>1, <1>2 DEF Reviewing
  <2> QED
    BY <1>1, <1>3, <2>1, <2>2 DEF Knows
<1> QED
  BY <1>4, <1>5

\* w begins to review r, and knows its status.
LEMMA BeginKnown ==
    ASSUME TypeOK, ReviewKnown, NEW w \in Workers, NEW label \in Labels \ {"idle"},
           NEW r \in Requests \cup {Nobody}, NEW n, NEW k, Begin(w, label, r, n, k),
           r # Nobody /\ label = "requesting" => status[r] = "none" /\ Reviewing(r) = {},
           r # Nobody /\ label = "cancelling" => status[r] \in {"PENDING", "REJECTED"},
           r # Nobody /\ label = "rejecting" => status[r] = "PENDING",
           r # Nobody /\ label \in Issuing => status[r] = "PENDING" /\ k = Quantity[r],
           r # Nobody /\ label # "requesting" => status[r] # "none"
    PROVE  ReviewKnown'
<1> SUFFICES ASSUME NEW v \in Workers, pc'[v] # "idle", req'[v] # Nobody PROVE Knows(v)'
  BY DEF ReviewKnown
<1>1. /\ pc'[w] = label /\ req'[w] = r /\ count'[w] = k /\ pc[w] = "idle"
      /\ \A u \in Workers : u # w => pc'[u] = pc[u] /\ req'[u] = req[u] /\ count'[u] = count[u]
      /\ status' = status /\ overtaken' = overtaken
  BY DEF Begin, At, rows, TypeOK
<1>2. CASE v = w
  <2>1. label = "requesting" => Reviewing(r)' = {w}
    <3> SUFFICES ASSUME label = "requesting" PROVE Reviewing(r)' = {w}
      OBVIOUS
    <3>1. r # Nobody
      BY <1>1, <1>2
    <3> QED
      BY <1>1, <3>1 DEF Reviewing
  <2> QED
    BY <1>1, <1>2, <2>1 DEF Knows
<1>3. CASE v # w
  <2>1. Knows(v) /\ req[v] # Nobody
    BY <1>1, <1>3 DEF ReviewKnown
  <2>2. ASSUME pc[v] = "requesting" PROVE Reviewing(req[v])' = {v}
    <3>1. status[req[v]] = "none" /\ Reviewing(req[v]) = {v}
      BY <2>1, <2>2 DEF Knows
    <3>2. r # req[v]
      <4> SUFFICES ASSUME r = req[v] PROVE FALSE
        OBVIOUS
      <4>1. label = "requesting"
        BY <2>1, <3>1
      <4>2. Reviewing(r) = {}
        BY <2>1, <4>1
      <4> QED
        BY <3>1, <4>2
    <3> QED
      BY <1>1, <3>1, <3>2 DEF Reviewing
  <2> QED
    BY <1>1, <1>3, <2>1, <2>2 DEF Knows
<1> QED
  BY <1>2, <1>3

\* w goes on with its transaction.
LEMMA GotoKnown ==
    ASSUME TypeOK, ReviewKnown, NEW w \in Workers, pc[w] \in Issuing,
           NEW label \in Issuing, pc' = [pc EXCEPT ![w] = label],
           UNCHANGED <<status, overtaken, req, count>>
    PROVE  ReviewKnown'
<1> SUFFICES ASSUME NEW v \in Workers, pc'[v] # "idle", req'[v] # Nobody PROVE Knows(v)'
  BY DEF ReviewKnown
<1>1. /\ pc'[w] = label /\ \A u \in Workers : u # w => pc'[u] = pc[u]
      /\ pc[v] # "idle" /\ req[v] # Nobody
  BY DEF TypeOK, Issuing
<1>2. Knows(v)
  BY <1>1 DEF ReviewKnown
<1>3. \A r : Reviewing(r)' = Reviewing(r)
  BY <1>1 DEF Reviewing, Issuing
<1>4. CASE v = w
  BY <1>1, <1>2, <1>4 DEF Knows, Issuing
<1>5. CASE v # w
  BY <1>1, <1>2, <1>3, <1>5 DEF Knows
<1> QED
  BY <1>4, <1>5

LEMMA KnownStep == TypeOK /\ ReviewKnown /\ [Next]_vars => ReviewKnown'
<1> SUFFICES ASSUME TypeOK, ReviewKnown, [Next]_vars PROVE ReviewKnown'
  OBVIOUS
<1> USE StickerConstants
<1>1. ASSUME NEW w \in Workers, NEW r \in Requests, NEW n \in Numbers \cup {NoNumber},
             Request(w, r, n) \/ ApproveRequest(w, r, n) \/ CancelRequest(w, r) \/ RejectRequest(w, r)
      PROVE  ReviewKnown'
  <2>1. CASE Request(w, r, n)
    BY <2>1, BeginKnown DEF Request, Labels, Issuing
  <2>2. CASE ApproveRequest(w, r, n)
    BY <2>2, BeginKnown DEF ApproveRequest, Labels
  <2>3. CASE CancelRequest(w, r)
    BY <2>3, BeginKnown DEF CancelRequest, Labels, Issuing
  <2>4. CASE RejectRequest(w, r)
    BY <2>4, BeginKnown DEF RejectRequest, Labels, Issuing
  <2> QED
    BY <1>1, <2>1, <2>2, <2>3, <2>4
<1>2. ASSUME NEW w \in Workers, NEW n \in Numbers \cup {NoNumber}, NEW k \in {1, 2},
             IssueDirectly(w, n, k)
      PROVE  ReviewKnown'
  BY <1>2, BeginKnown DEF IssueDirectly, Labels
<1>3. ASSUME NEW w \in Workers, StoreRequest(w) PROVE ReviewKnown'
  <2> SUFFICES ASSUME NEW v \in Workers, pc'[v] # "idle", req'[v] # Nobody PROVE Knows(v)'
    BY DEF ReviewKnown
  <2>1. /\ pc[w] = "requesting" /\ req[w] \in Requests /\ overtaken' = overtaken
        /\ status' = [status EXCEPT ![req[w]] = "PENDING"]
    BY <1>3 DEF StoreRequest, At, TypeOK
  <2>2. /\ v # w /\ pc'[w] = "idle"
        /\ \A u \in Workers : u # w => pc'[u] = pc[u] /\ req'[u] = req[u] /\ count'[u] = count[u]
    BY <1>3 DEF StoreRequest, Return, TypeOK
  <2>3. Knows(v) /\ Reviewing(req[w]) = {w}
    BY <2>1, <2>2 DEF ReviewKnown, Knows
  <2>4. req[v] # req[w]
    BY <2>2, <2>3 DEF Reviewing
  <2>5. status'[req[v]] = status[req[v]]
    BY <2>1, <2>2, <2>4 DEF TypeOK
  <2>6. Reviewing(req[v]) = {v} => Reviewing(req[v])' = {v}
    BY <2>2 DEF Reviewing
  <2> QED
    BY <2>1, <2>2, <2>3, <2>5, <2>6 DEF Knows
<1>4. ASSUME NEW w \in Workers, StoreCancelled(w) \/ StoreRejected(w) PROVE ReviewKnown'
  <2>1. /\ Return(w) /\ pc[w] \in {"cancelling", "rejecting"} /\ req[w] # Nobody
        /\ \E s : WriteRequest(w, req[w], s)
    BY <1>4 DEF StoreCancelled, StoreRejected, At, TypeOK
  <2> QED
    BY <2>1, WrittenKnown
<1>5. ASSUME NEW w \in Workers, ResolveNumbers(w) PROVE ReviewKnown'
  <2>1. CASE typed[w] \in used
    <3>1. Return(w) /\ status' = status /\ \A v \in Workers : v # w => overtaken'[v] = overtaken[v]
      BY <1>5, <2>1 DEF ResolveNumbers, rows, TypeOK
    <3> QED
      BY <3>1, ReturnKnown
  <2>2. CASE typed[w] \notin used
    <3>1. /\ pc[w] = "resolving" /\ UNCHANGED <<status, overtaken, req, count>>
          /\ \E label \in {"scanning", "allocating"} : pc' = [pc EXCEPT ![w] = label]
      BY <1>5, <2>2 DEF ResolveNumbers, rows, At
    <3> QED
      BY <3>1, GotoKnown DEF Issuing
  <2> QED
    BY <2>1, <2>2
<1>6. ASSUME NEW w \in Workers, AllocateNumbers(w) \/ ScanStickers(w) \/ SyncSequence(w)
      PROVE  ReviewKnown'
  <2>1. /\ pc[w] \in Issuing /\ UNCHANGED <<status, overtaken, req, count>>
        /\ \E label \in Issuing : pc' = [pc EXCEPT ![w] = label]
    BY <1>6 DEF AllocateNumbers, ScanStickers, SyncSequence, rows, At, Goto, Issuing
  <2> QED
    BY <2>1, GotoKnown
<1>7. ASSUME NEW w \in Workers, Commit(w) PROVE ReviewKnown'
  <2>1. CASE req[w] = Nobody
    <3>1. Return(w) /\ status' = status /\ \A v \in Workers : v # w => overtaken'[v] = overtaken[v]
      BY <1>7, <2>1 DEF Commit, TypeOK
    <3> QED
      BY <3>1, ReturnKnown
  <2>2. CASE req[w] # Nobody
    <3>1. Return(w) /\ pc[w] # "idle" /\ \E s : WriteRequest(w, req[w], s)
      BY <1>7, <2>2 DEF Commit, At
    <3> QED
      BY <2>2, <3>1, WrittenKnown
  <2> QED
    BY <2>1, <2>2
<1>8. ASSUME NEW w \in Workers, RollBack(w) PROVE ReviewKnown'
  <2>1. Return(w) /\ status' = status /\ \A v \in Workers : v # w => overtaken'[v] = overtaken[v]
    BY <1>8 DEF RollBack, rows, TypeOK
  <2> QED
    BY <2>1, ReturnKnown
<1>9. ASSUME UNCHANGED <<status, pc, req, count, overtaken>> PROVE ReviewKnown'
  BY <1>9 DEF ReviewKnown, Knows, Reviewing
<1>10. CASE UNCHANGED vars \/ \E m, n \in Numbers : EditNumber(m, n)
  BY <1>9, <1>10 DEF EditNumber, vars
<1> QED
  BY <1>1, <1>2, <1>3, <1>4, <1>5, <1>6, <1>7, <1>8, <1>10 DEF Next, Review, Issuance

\* Only who writes a request changes what was issued for it.
LEMMA IssuedStep == ReviewInv /\ [Next]_vars => IssuedAsApproved'
<1> SUFFICES ASSUME ReviewInv, [Next]_vars, NEW r \in Requests, r \notin contested'
             PROVE  issued'[r] = IF status'[r] = "APPROVED" THEN Quantity[r] ELSE 0
  BY DEF IssuedAsApproved
<1>t. TypeOK /\ ReviewKnown /\ IssuedAsApproved
  BY DEF ReviewInv
<1>1. CASE UNCHANGED <<status, issued, contested>>
  BY <1>t, <1>1 DEF IssuedAsApproved
<1>2. ASSUME NEW w \in Workers, NEW s, WriteRequest(w, req[w], s), req[w] # Nobody, pc[w] # "idle"
      PROVE  /\ r \notin contested /\ status'[r] = IF req[w] = r THEN s ELSE status[r]
             /\ issued[r] = IF status[r] = "APPROVED" THEN Quantity[r] ELSE 0
             /\ req[w] = r => ~overtaken[w] /\ Knows(w)
  <2>1. r \notin contested
    BY <1>2 DEF WriteRequest
  <2>2. status'[r] = IF req[w] = r THEN s ELSE status[r]
    BY <1>t, <1>2 DEF WriteRequest, TypeOK
  <2>3. req[w] = r => ~overtaken[w] /\ Knows(w)
    BY <1>t, <1>2 DEF WriteRequest, ReviewKnown
  <2> QED
    BY <1>t, <2>1, <2>2, <2>3 DEF IssuedAsApproved
<1>3. ASSUME NEW w \in Workers, StoreRequest(w)
      PROVE  issued'[r] = IF status'[r] = "APPROVED" THEN Quantity[r] ELSE 0
  <2>1. /\ pc[w] = "requesting" /\ req[w] \in Requests /\ UNCHANGED <<issued, contested>>
        /\ status' = [status EXCEPT ![req[w]] = "PENDING"]
    BY <1>t, <1>3, StickerConstants DEF StoreRequest, At, TypeOK, history
  <2>2. status[req[w]] = "none"
    BY <1>t, <2>1, StickerConstants DEF ReviewKnown, Knows
  <2> QED
    BY <1>t, <2>1, <2>2 DEF IssuedAsApproved, TypeOK
<1>4. ASSUME NEW w \in Workers, StoreCancelled(w) \/ StoreRejected(w)
      PROVE  issued'[r] = IF status'[r] = "APPROVED" THEN Quantity[r] ELSE 0
  <2>1. /\ pc[w] \in {"cancelling", "rejecting"} /\ req[w] # Nobody /\ issued' = issued
        /\ \E s \in {"CANCELLED", "REJECTED"} : WriteRequest(w, req[w], s)
    BY <1>t, <1>4 DEF StoreCancelled, StoreRejected, At, TypeOK
  <2> QED
    BY <1>2, <2>1 DEF Knows
<1>5. ASSUME NEW w \in Workers, Commit(w), req[w] # Nobody
      PROVE  issued'[r] = IF status'[r] = "APPROVED" THEN Quantity[r] ELSE 0
  <2>1. /\ pc[w] = "inserting" /\ issued' = [issued EXCEPT ![req[w]] = @ + count[w]]
        /\ WriteRequest(w, req[w], IF status[req[w]] = "CANCELLED" THEN "CANCELLED" ELSE "APPROVED")
    BY <1>5 DEF Commit, At
  <2>2. CASE req[w] = r
    <3>1. status[r] = "PENDING" /\ count[w] = Quantity[r] /\ issued[r] = 0 /\ status'[r] = "APPROVED"
      BY <1>2, <1>5, <2>1, <2>2 DEF Knows, Issuing
    <3>2. issued'[r] = 0 + Quantity[r]
      BY <1>t, <2>1, <2>2, <3>1 DEF TypeOK
    <3>3. Quantity[r] \in Nat
      BY StickerConstants
    <3> QED
      BY <3>1, <3>2, <3>3
  <2>3. CASE req[w] # r
    BY <1>t, <1>2, <1>5, <2>1, <2>3 DEF TypeOK
  <2> QED
    BY <2>2, <2>3
<1> QED
  BY <1>1, <1>3, <1>4, <1>5, ZenonT(60)
  DEF Next, Review, Issuance, Request, ApproveRequest, CancelRequest, RejectRequest, IssueDirectly,
      Begin, ResolveNumbers, AllocateNumbers, ScanStickers, SyncSequence, Commit, RollBack, EditNumber,
      rows, history, vars

\* An approved request has all its stickers, and any other none, unless two reviews or
\* a cancellation overlapped.
THEOREM ApprovedAndIssued == Spec => []IssuedAsApproved
<1>1. Init => ReviewInv
  <2>1. Init => ReviewKnown /\ IssuedAsApproved
    BY DEF Init, ReviewKnown, IssuedAsApproved
  <2> QED
    BY <2>1, TypeInit DEF ReviewInv
<1>2. ReviewInv /\ [Next]_vars => ReviewInv'
  BY TypeStep, KnownStep, IssuedStep DEF ReviewInv
<1>3. ReviewInv => IssuedAsApproved
  BY DEF ReviewInv
<1> QED
  BY <1>1, <1>2, <1>3, PTL DEF Spec
=============================================================================
