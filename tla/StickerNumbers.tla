--------------------------- MODULE StickerNumbers ---------------------------
(***************************************************************************)
(* Vehicle stickers: a resident asks for stickers, an officer approves or  *)
(* issues them directly, and each gets a number: typed by the officer,     *)
(* wished for by the resident, or the next of the community's sequence     *)
(* (vehicle-stickers/vehicle-stickers.service.ts).                         *)
(*                                                                         *)
(* A transaction reads what others have committed and writes for itself    *)
(* until it commits or rolls back.  SELECT FOR UPDATE locks the sequence   *)
(* until then.  Numbers are those of the sequence's form; the key          *)
(* [communityId, stickerNumber] counts deleted stickers too, so a used     *)
(* number stays used unless an officer edits it.  All requests are for     *)
(* one vehicle.                                                            *)
(*                                                                         *)
(* issued, outside, contested and overtaken are history.                    *)
(***************************************************************************)
EXTENDS Integers, FiniteSets

CONSTANTS
    Requests,  \* sticker requests
    Workers,   \* requests to the server that may be in flight
    MaxNumber, \* bound on sticker numbers
    Quantity,  \* Quantity[r]: how many stickers r asks for
    Nobody     \* no worker, no request

ASSUME StickerConstants ==
    /\ MaxNumber \in Nat \ {0}
    /\ Quantity \in [Requests -> {1, 2}]
    /\ Nobody \notin Requests \cup Workers

Numbers == 1 .. MaxNumber
NoNumber == 0  \* no number typed or wished for

VARIABLES
    next,      \* Sequence.nextValue, as committed
    used,      \* numbers of the stickers that are committed
    status,    \* status[r]: StickerRequest.status, none, or CANCELLED
    wish,      \* wish[r]: requestedStickerNumber
    lock,      \* the worker whose transaction has locked the sequence
    pc,        \* pc[w]: what worker w does next
    req,       \* req[w]: the request w reviews, or Nobody
    typed,     \* typed[w]: the number the officer typed
    count,     \* count[w]: stickers to number
    first,     \* first[w]: the number w checked and took, or NoNumber
    auto,      \* auto[w]: the numbers w took from the sequence
    myNext,    \* myNext[w]: the sequence as w has written it, or 0
    highest,   \* highest[w]: the highest number w has seen
    issued,    \* issued[r]: stickers that were committed for r
    outside,   \* numbers no issuance wrote: an edit did, or they were there before
    contested, \* requests of which two reviews or a cancellation overlapped
    overtaken  \* overtaken[w]: what w read is not so any more

rows    == <<next, used, status, wish>>
tx      == <<first, auto, myNext, highest>>
history == <<issued, outside, contested>>
vars == <<next, used, status, wish, lock, pc, req, typed, count, first, auto,
          myNext, highest, issued, outside, contested, overtaken>>

Labels == {"idle", "resolving", "allocating", "scanning", "syncing", "inserting",
           "rejecting", "requesting", "cancelling"}

\* Whoever has written the sequence has locked it, and whoever writes a request
\* has one.
TypeOK ==
    /\ next \in 1 .. MaxNumber + 1 /\ used \subseteq Numbers
    /\ status \in [Requests -> {"none", "PENDING", "APPROVED", "REJECTED", "CANCELLED"}]
    /\ wish \in [Requests -> Numbers \cup {NoNumber}]
    /\ lock \in Workers \cup {Nobody}
    /\ pc \in [Workers -> Labels] /\ req \in [Workers -> Requests \cup {Nobody}]
    /\ \A w \in Workers :
          pc[w] \in {"requesting", "cancelling", "rejecting"} => req[w] # Nobody
    /\ typed \in [Workers -> Numbers \cup {NoNumber}] /\ count \in [Workers -> 0 .. 2]
    /\ first \in [Workers -> Numbers \cup {NoNumber}]
    /\ auto \in [Workers -> SUBSET Numbers]
    /\ myNext \in [Workers -> 0 .. MaxNumber + 1]
    /\ \A w \in Workers : myNext[w] # 0 => lock = w
    /\ highest \in [Workers -> Numbers \cup {0}]
    /\ issued \in [Requests -> Nat] /\ outside \subseteq Numbers
    /\ contested \subseteq Requests /\ overtaken \in [Workers -> BOOLEAN]

\* There may be stickers from before the sequence.
Init ==
    /\ next = 1 /\ used \in SUBSET Numbers /\ outside = used /\ lock = Nobody
    /\ status = [r \in Requests |-> "none"] /\ wish = [r \in Requests |-> NoNumber]
    /\ pc = [w \in Workers |-> "idle"] /\ req = [w \in Workers |-> Nobody]
    /\ typed = [w \in Workers |-> NoNumber] /\ count = [w \in Workers |-> 0]
    /\ first = [w \in Workers |-> NoNumber] /\ auto = [w \in Workers |-> {}]
    /\ myNext = [w \in Workers |-> 0] /\ highest = [w \in Workers |-> 0]
    /\ issued = [r \in Requests |-> 0] /\ contested = {}
    /\ overtaken = [w \in Workers |-> FALSE]

-----------------------------------------------------------------------------
At(w, label) == pc[w] = label
Highest(S) == IF S = {} THEN 0 ELSE CHOOSE n \in S : \A m \in S : m <= n

\* Workers that will write the status of r.
Reviewing(r) == {w \in Workers : req[w] = r /\ pc[w] # "idle"}

Begin(w, label, r, n, k) ==
    /\ At(w, "idle")
    /\ pc' = [pc EXCEPT ![w] = label] /\ req' = [req EXCEPT ![w] = r]
    /\ typed' = [typed EXCEPT ![w] = n] /\ count' = [count EXCEPT ![w] = k]
    /\ UNCHANGED <<rows, lock, tx, history, overtaken>>

Goto(w, label) == pc' = [pc EXCEPT ![w] = label] /\ UNCHANGED <<req, typed, count>>

\* The handler returns; its transaction ends and gives up the lock.
Return(w) ==
    /\ pc' = [pc EXCEPT ![w] = "idle"] /\ req' = [req EXCEPT ![w] = Nobody]
    /\ typed' = [typed EXCEPT ![w] = NoNumber] /\ count' = [count EXCEPT ![w] = 0]
    /\ first' = [first EXCEPT ![w] = NoNumber] /\ auto' = [auto EXCEPT ![w] = {}]
    /\ myNext' = [myNext EXCEPT ![w] = 0] /\ highest' = [highest EXCEPT ![w] = 0]
    /\ lock' = IF lock = w THEN Nobody ELSE lock

\* w writes request r; the others that work on it are overtaken.
WriteRequest(w, r, s) ==
    /\ status' = [status EXCEPT ![r] = s]
    /\ contested' = IF overtaken[w] THEN contested \cup {r} ELSE contested
    /\ overtaken' = [v \in Workers |-> v # w /\ (overtaken[v] \/ v \in Reviewing(r))]

\* The sequence as w sees it, once it has the lock.
Sequence(w) == IF myNext[w] = 0 THEN next ELSE myNext[w]
Locks(w) == lock \in {Nobody, w} /\ lock' = w

-----------------------------------------------------------------------------
(* Requests.                                                               *)

\* The wish is free and no request of the vehicle is pending ...
Request(w, r, n) ==
    /\ status[r] = "none" /\ Reviewing(r) = {}
    /\ n \notin used
    /\ \A q \in Requests : status[q] # "PENDING"
    /\ Begin(w, "requesting", r, n, 0)

\* ... and the request is stored, in a transaction of its own.
StoreRequest(w) ==
    /\ At(w, "requesting")
    /\ wish' = [wish EXCEPT ![req[w]] = typed[w]]
    /\ status' = [status EXCEPT ![req[w]] = "PENDING"]
    /\ Return(w)
    /\ UNCHANGED <<next, used, history, overtaken>>

CancelRequest(w, r) ==
    /\ status[r] \in {"PENDING", "REJECTED"}
    /\ Begin(w, "cancelling", r, NoNumber, 0)

StoreCancelled(w) ==
    /\ At(w, "cancelling")
    /\ WriteRequest(w, req[w], "CANCELLED")
    /\ Return(w)
    /\ UNCHANGED <<next, used, wish, issued, outside>>

RejectRequest(w, r) ==
    /\ status[r] = "PENDING"
    /\ Begin(w, "rejecting", r, NoNumber, 0)

StoreRejected(w) ==
    /\ At(w, "rejecting")
    /\ WriteRequest(w, req[w], IF status[req[w]] = "CANCELLED" THEN "CANCELLED" ELSE "REJECTED")
    /\ Return(w)
    /\ UNCHANGED <<next, used, wish, issued, outside>>

ApproveRequest(w, r, n) ==
    /\ status[r] = "PENDING"
    /\ Begin(w, "resolving", r, n, Quantity[r])

\* An officer issues without a request; a typed number is for one sticker.
IssueDirectly(w, n, k) ==
    /\ n # NoNumber => k = 1
    /\ Begin(w, "resolving", Nobody, n, k)

-----------------------------------------------------------------------------
(* The numbers of one transaction.                                         *)

Wished(w) == IF typed[w] # NoNumber THEN typed[w]
             ELSE IF req[w] # Nobody THEN wish[req[w]] ELSE NoNumber

\* A typed number that is taken fails; a wish that is taken is forgotten.
ResolveNumbers(w) ==
    LET n == Wished(w)
        takes == n # NoNumber /\ n \notin used
    IN  /\ At(w, "resolving")
        /\ IF typed[w] \in used
           THEN Return(w) /\ overtaken' = [overtaken EXCEPT ![w] = FALSE]
           ELSE /\ first' = [first EXCEPT ![w] = IF takes THEN n ELSE NoNumber]
                /\ pc' = [pc EXCEPT ![w] =
                        IF takes /\ count[w] = 1 THEN "scanning" ELSE "allocating"]
                /\ typed' = [typed EXCEPT ![w] = NoNumber]
                /\ UNCHANGED <<auto, myNext, highest, lock, overtaken, req, count>>
        /\ UNCHANGED <<rows, history>>

\* How many numbers the sequence gives.
Rest(w) == IF first[w] = NoNumber THEN count[w] ELSE count[w] - 1

AllocateNumbers(w) ==
    /\ At(w, "allocating")
    /\ Locks(w)
    /\ next + Rest(w) <= MaxNumber + 1
    /\ auto' = [auto EXCEPT ![w] = next .. next + Rest(w) - 1]
    /\ myNext' = [myNext EXCEPT ![w] = next + Rest(w)]
    /\ Goto(w, "scanning")
    /\ UNCHANGED <<rows, first, highest, history, overtaken>>

\* syncSequence reads the stickers ...
ScanStickers(w) ==
    /\ At(w, "scanning")
    /\ highest' = [highest EXCEPT ![w] =
            Highest(used \cup auto[w] \cup ({first[w]} \ {NoNumber}))]
    /\ Goto(w, "syncing")
    /\ UNCHANGED <<rows, lock, first, auto, myNext, history, overtaken>>

\* SyncSequence when it does not lock.
SyncUnlocked(w) ==
    /\ At(w, "syncing")
    /\ myNext' = [myNext EXCEPT ![w] =
            IF highest[w] + 1 > Sequence(w) THEN highest[w] + 1 ELSE @]
    /\ highest' = [highest EXCEPT ![w] = 0]
    /\ Goto(w, "inserting")
    /\ UNCHANGED <<rows, lock, first, auto, history, overtaken>>

\* SyncSequence when it only looks.
SyncNothing(w) ==
    /\ At(w, "syncing")
    /\ Locks(w)
    /\ Goto(w, "inserting")
    /\ UNCHANGED <<rows, tx, history, overtaken>>

\* ... and then locks the sequence and moves it beyond them, never back.
SyncSequence(w) ==
    /\ At(w, "syncing")
    /\ Locks(w)
    /\ myNext' = [myNext EXCEPT ![w] =
            IF highest[w] + 1 > Sequence(w) THEN highest[w] + 1 ELSE @]
    /\ highest' = [highest EXCEPT ![w] = 0]
    /\ Goto(w, "inserting")
    /\ UNCHANGED <<rows, first, auto, history, overtaken>>

\* All of them new and different.
Insertable(w) ==
    /\ first[w] \notin used \cup auto[w]
    /\ auto[w] \cap used = {}

Commit(w) ==
    /\ At(w, "inserting")
    /\ Insertable(w)
    /\ used' = used \cup auto[w] \cup ({first[w]} \ {NoNumber})
    /\ next' = Sequence(w)
    /\ IF req[w] = Nobody
       THEN UNCHANGED <<status, issued, contested>> /\ overtaken' = [overtaken EXCEPT ![w] = FALSE]
       ELSE /\ WriteRequest(w, req[w], IF status[req[w]] = "CANCELLED" THEN "CANCELLED"
                                                                       ELSE "APPROVED")
            /\ issued' = [issued EXCEPT ![req[w]] = @ + count[w]]
    /\ Return(w)
    /\ UNCHANGED <<wish, outside>>

\* RollBack when the status was written outside the transaction.
RollBackApproved(w) ==
    /\ pc[w] \in {"allocating", "scanning", "syncing", "inserting"}
    /\ IF req[w] = Nobody
       THEN UNCHANGED <<status, contested>> /\ overtaken' = [overtaken EXCEPT ![w] = FALSE]
       ELSE WriteRequest(w, req[w], "APPROVED")
    /\ Return(w)
    /\ UNCHANGED <<next, used, wish, issued, outside>>

\* A key refuses an insert, of a sticker or of the fee's assessment, or the
\* server or the connection fails.
RollBack(w) ==
    /\ pc[w] \in {"allocating", "scanning", "syncing", "inserting"}
    /\ Return(w)
    /\ overtaken' = [overtaken EXCEPT ![w] = FALSE]
    /\ UNCHANGED <<rows, history>>

\* update: an officer changes the number of a sticker to a free one.
EditNumber(m, n) ==
    /\ m \in used /\ n \in Numbers \ used
    /\ used' = (used \ {m}) \cup {n}
    /\ outside' = (outside \ {m}) \cup {n}
    /\ UNCHANGED <<next, status, wish, lock, pc, req, typed, count, tx, issued,
                   contested, overtaken>>

-----------------------------------------------------------------------------
Review(w) ==
    \/ \E r \in Requests, n \in Numbers \cup {NoNumber} :
          Request(w, r, n) \/ ApproveRequest(w, r, n)
    \/ \E r \in Requests : CancelRequest(w, r) \/ RejectRequest(w, r)
    \/ \E n \in Numbers \cup {NoNumber}, k \in {1, 2} : IssueDirectly(w, n, k)
    \/ StoreRequest(w) \/ StoreCancelled(w) \/ StoreRejected(w)

Issuance(w) ==
    \/ ResolveNumbers(w) \/ AllocateNumbers(w) \/ ScanStickers(w) \/ SyncSequence(w)
    \/ Commit(w) \/ RollBack(w)

Next ==
    \/ \E w \in Workers : Review(w) \/ Issuance(w)
    \/ \E m, n \in Numbers : EditNumber(m, n)

Spec == Init /\ [][Next]_vars

-----------------------------------------------------------------------------
(* Properties.                                                             *)

\* Automatic issuance never fails for a number: what a transaction took from the
\* sequence is free when it is inserted, and what the sequence has still to give
\* is free now, though others type numbers of their own meanwhile; unless an
\* officer edited a number onto a sticker, or it was there before the sequence,
\* which moves only when an issuance commits, and gives its numbers before it looks.
\* (A number that is typed beyond it moves it: vehicle-stickers.service.ts:1446-1453,
\* 1488-1492 "so the next auto-generated number is always based on the last sticker
\* allocated".)
SequenceIsFree ==
    /\ \A w \in Workers : auto[w] \cap used \subseteq outside
    /\ \A n \in used : n >= next => n \in outside

\* A request has all its stickers once it is approved, and none before, unless
\* two reviews or a cancellation overlapped (vehicle-stickers.service.ts:563-567).
IssuedAsApproved ==
    \A r \in Requests \ contested :
        issued[r] = IF status[r] = "APPROVED" THEN Quantity[r] ELSE 0
=============================================================================
