------------------------- MODULE HouseholdAccounts -------------------------
(***************************************************************************)
(* The people of one household and their user accounts, and who is         *)
(* president of the community (users/users.service.ts,                     *)
(* auth/auth.service.ts register, residents/resident.service.ts,           *)
(* households/households.service.ts).                                      *)
(*                                                                         *)
(* Handlers read first and write later, one database call or transaction   *)
(* per step.  Accounts and residents are numbered: a handler takes the     *)
(* next number (latest or count, plus one) at one moment and inserts at    *)
(* another, and the unique key refuses the insert if another row has the   *)
(* number by then.  The model keeps just that: taken[w] says that a number *)
(* w holds has been used.  A suspended user counts as INACTIVE here.       *)
(*                                                                         *)
(* overtaken and vacant are history.                                       *)
(***************************************************************************)
EXTENDS FiniteSets

CONSTANTS
    People,  \* those who may become residents
    Workers, \* requests that may be in flight
    Nobody   \* who[w] of an idle worker

ASSUME AccountConstants == Nobody \notin People

VARIABLES
    home,      \* home[p]: no resident yet, in this household, or elsewhere
    user,      \* user[p]: User.status of p's account, none, or deleted
    president, \* holders of the President role
    pc,        \* pc[w]: what worker w does next
    who,       \* who[w]: the person w's request is about
    goal,      \* goal[w]: status and role an update will write
    taken,     \* taken[w]: a number w holds has been used by another
    overtaken, \* overtaken[w]: what w checked is not so any more
    vacant     \* the last president left by a way that has no guard

rows   == <<home, user, president>>
locals == <<who, goal, taken, overtaken>>
vars   == <<home, user, president, pc, who, goal, taken, overtaken, vacant>>

Statuses == {"PENDING", "ACTIVE", "INACTIVE"}
Keep   == "keep"
Goals  == [status : {"ACTIVE", "INACTIVE", Keep}, role : {"President", "Member", Keep}]
NoGoal == [status |-> Keep, role |-> Keep]
Labels == {"idle", "registering", "enrolling", "numbering", "numberingUser",
           "creating", "linkingNo", "linking", "rentingNo", "renting",
           "guarding", "updating", "guardingRemoval", "deleting",
           "movingOut", "closing"}

\* No account is without its resident (users.service.ts:237-241 "so there are
\* no ghost accounts with no unit").
TypeOK ==
    /\ home \in [People -> {"none", "here", "away"}]
    /\ user \in [People -> Statuses \cup {"none", "DELETED"}]
    /\ president \subseteq {p \in People : user[p] # "none"}
    /\ \A p \in People : user[p] # "none" => home[p] # "none"
    /\ pc \in [Workers -> Labels]
    /\ who \in [Workers -> People \cup {Nobody}] /\ goal \in [Workers -> Goals]
    /\ taken \in [Workers -> BOOLEAN] /\ overtaken \in [Workers -> BOOLEAN]
    /\ vacant \in BOOLEAN

\* A community as it is set up: one president, at home anywhere.
Init ==
    /\ \E p \in People, h \in {"here", "away"} :
          /\ home = [q \in People |-> IF q = p THEN h ELSE "none"]
          /\ user = [q \in People |-> IF q = p THEN "ACTIVE" ELSE "none"]
          /\ president = {p}
    /\ pc = [w \in Workers |-> "idle"] /\ who = [w \in Workers |-> Nobody]
    /\ goal = [w \in Workers |-> NoGoal]
    /\ taken = [w \in Workers |-> FALSE] /\ overtaken = [w \in Workers |-> FALSE]
    /\ vacant = FALSE

-----------------------------------------------------------------------------
\* The accounts that "one account per household" counts.
Holders == {p \in People : home[p] = "here" /\ user[p] \in {"PENDING", "ACTIVE"}}
ActiveHere == {p \in Holders : user[p] = "ACTIVE"}
ActivePresidents == {p \in president : user[p] = "ACTIVE"}

At(w, label) == pc[w] = label

\* Nobody has such a resident, and no request in flight is about to add one.
Stranger(p) == home[p] = "none" /\ \A w \in Workers : who[w] # p

\* Workers that hold an account number or a resident number.
HoldUserNumber == {v \in Workers :
    pc[v] \in {"registering", "enrolling", "creating", "linking", "rentingNo", "renting"}}
HoldResidentNumber == {v \in Workers : pc[v] \in {"numberingUser", "creating", "renting"}}

\* Workers that found the household without a holder, and those that counted
\* presidents or looked at a user's status and role.
SawNoHolder == {v \in Workers : pc[v] \in {"enrolling", "numbering", "numberingUser", "creating"}}
SawPresidents == {v \in Workers : pc[v] \in {"guarding", "updating", "guardingRemoval", "deleting"}}

\* What a step by w means for the others and for the presidency: those in
\* "used" lose their number, and "guarded" says that a removal passed the guard.
Effects(w, label, used, guarded) ==
    LET late == (IF Holders' \subseteq Holders THEN {} ELSE SawNoHolder \ used)
                \cup (IF ActivePresidents' = ActivePresidents THEN {} ELSE SawPresidents)
    IN  /\ pc' = [pc EXCEPT ![w] = label]
        /\ who' = IF label = "idle" THEN [who EXCEPT ![w] = Nobody] ELSE who
        /\ goal' = IF label = "idle" THEN [goal EXCEPT ![w] = NoGoal] ELSE goal
        /\ taken' = [v \in Workers |-> IF v = w THEN label # "idle" /\ taken[v]
                                                ELSE taken[v] \/ v \in used]
        /\ overtaken' = [v \in Workers |-> IF v = w THEN label # "idle" /\ overtaken[v]
                                                    ELSE overtaken[v] \/ v \in late]
        /\ vacant' = (ActivePresidents' = {} /\ (vacant \/ ~guarded))

\* A step that writes nothing.
Goto(w, label) == UNCHANGED rows /\ Effects(w, label, {}, TRUE)

Begin(w, label, p, g) ==
    /\ At(w, "idle")
    /\ pc' = [pc EXCEPT ![w] = label]
    /\ who' = [who EXCEPT ![w] = p] /\ goal' = [goal EXCEPT ![w] = g]
    /\ UNCHANGED <<rows, taken, overtaken, vacant>>

\* A transaction that inserts an account, and a resident for a newcomer, when
\* the users are "others" otherwise.  It fails if a number of w's is taken.
Insert(w, status, others) ==
    LET p == who[w]
        newcomer == home[p] = "none"
    IN  IF taken[w] \/ user[p] # "none"
        THEN Goto(w, "idle")
        ELSE /\ home' = IF newcomer THEN [home EXCEPT ![p] = "here"] ELSE home
             /\ user' = [others EXCEPT ![p] = status]
             /\ president' = IF goal[w].role = "President" THEN president \cup {p}
                                                           ELSE president
             /\ Effects(w, "idle",
                    HoldUserNumber \cup (IF newcomer THEN HoldResidentNumber ELSE {}), FALSE)

Plain == [NoGoal EXCEPT !.role = "Member"]
Roles == {"President", "Member"}
WithRole(r) == [NoGoal EXCEPT !.role = r]

-----------------------------------------------------------------------------
(* Registration: takes the account number ...                              *)

Register(w, p) ==
    /\ Stranger(p)
    /\ Begin(w, "registering", p, Plain)

\* ... then looks for a holder, inside the transaction ...
FindNoUser(w) ==
    /\ At(w, "registering")
    /\ Goto(w, IF Holders = {} THEN "enrolling" ELSE "idle")

\* Enroll when the account takes its number as it is stored.
EnrollNumbered(w) ==
    /\ At(w, "enrolling")
    /\ LET p == who[w]
       IN  /\ home' = [home EXCEPT ![p] = "here"]
           /\ user' = [user EXCEPT ![p] = "PENDING"]
           /\ UNCHANGED president
           /\ Effects(w, "idle", HoldUserNumber \cup HoldResidentNumber, TRUE)

\* ... and stores the resident, numbered in the same step, and the account.
Enroll(w) ==
    /\ At(w, "enrolling")
    /\ Insert(w, "PENDING", user)

(* An officer adds an account for a newcomer: looks for a holder, then takes *)
(* the resident's number and then the account's.                             *)

CreateUser(w, p, r) ==
    /\ Stranger(p)
    /\ Holders = {}
    /\ Begin(w, "numbering", p, WithRole(r))

NumberResident(w) == At(w, "numbering") /\ Goto(w, "numberingUser")

\* CreateAccount when the officer may leave the unit out.
CreateAccountOnly(w) ==
    /\ At(w, "creating")
    /\ user' = [user EXCEPT ![who[w]] = "ACTIVE"]
    /\ UNCHANGED <<home, president>>
    /\ Effects(w, "idle", HoldUserNumber, FALSE)

NumberUser(w) == At(w, "numberingUser") /\ Goto(w, "creating")

CreateAccount(w) ==
    /\ At(w, "creating")
    /\ Insert(w, "ACTIVE", user)

(* An officer adds an account for a resident, of any household.            *)

LinkUser(w, p, r) ==
    /\ home[p] # "none" /\ user[p] = "none"
    /\ Begin(w, "linkingNo", p, WithRole(r))

NumberLinkedUser(w) == At(w, "linkingNo") /\ Goto(w, "linking")

LinkAccount(w) ==
    /\ At(w, "linking")
    /\ Insert(w, "ACTIVE", user)

(* An officer assigns a renter, who replaces the active accounts.          *)

CreateRenter(w, p) ==
    /\ Stranger(p)
    /\ Begin(w, "rentingNo", p, Plain)

NumberRenter(w) == At(w, "rentingNo") /\ Goto(w, "renting")

AssignRenter(w) ==
    /\ At(w, "renting")
    /\ Insert(w, "ACTIVE", [q \in People |-> IF q \in ActiveHere THEN "INACTIVE" ELSE user[q]])

-----------------------------------------------------------------------------
(* An officer edits or removes an account.                                 *)

\* The guard is asked if an active president would lose the status, or a
\* president the role.
UpdateUser(w, p, g) ==
    /\ user[p] \in Statuses
    /\ g # NoGoal
    /\ LET losesStatus == p \in ActivePresidents /\ g.status = "INACTIVE"
           losesRole   == p \in president /\ g.role = "Member"
       IN  Begin(w, IF losesStatus \/ losesRole THEN "guarding" ELSE "updating", p, g)

\* OtherPresidents when those who are not active count too.
AnyOtherPresident(p) == president \ {p}

\* The other presidents that count.
OtherPresidents(p) == ActivePresidents \ {p}

\* ensureNotLastActivePresident, its two reads as one.
Passes(p) == p \in president => OtherPresidents(p) # {}

GuardUpdate(w) ==
    /\ At(w, "guarding")
    /\ Goto(w, IF Passes(who[w]) THEN "updating" ELSE "idle")

\* A deleted account keeps its deletedAt, whatever status is written.
StoreUpdate(w) ==
    /\ At(w, "updating")
    /\ LET p == who[w]
           g == goal[w]
       IN  /\ user' = IF g.status = Keep \/ user[p] = "DELETED" THEN user
                                         ELSE [user EXCEPT ![p] = g.status]
           /\ president' = IF g.role = "President" THEN president \cup {p}
                           ELSE IF g.role = "Member" THEN president \ {p}
                           ELSE president
    /\ UNCHANGED home
    /\ Effects(w, "idle", {}, ~overtaken[w])

RemoveUser(w, p) ==
    /\ user[p] \in Statuses
    /\ Begin(w, IF p \in ActivePresidents THEN "guardingRemoval" ELSE "deleting", p, NoGoal)

GuardRemoval(w) ==
    /\ At(w, "guardingRemoval")
    /\ Goto(w, IF Passes(who[w]) THEN "deleting" ELSE "idle")

SoftDelete(w) ==
    /\ At(w, "deleting")
    /\ user' = [user EXCEPT ![who[w]] = "DELETED"]
    /\ UNCHANGED <<home, president>>
    /\ Effects(w, "idle", {}, ~overtaken[w])

-----------------------------------------------------------------------------
(* Residents and the household.                                            *)

\* residents create: a resident who has no account, numbered as it is stored.
AddResident(p, h) ==
    /\ Stranger(p)
    /\ home' = [home EXCEPT ![p] = h]
    /\ taken' = [v \in Workers |-> taken[v] \/ v \in HoldResidentNumber]
    /\ UNCHANGED <<user, president, pc, who, goal, overtaken, vacant>>

\* residents update, addHouseholdMembership and switchHousehold: the resident
\* moves in or out.  Memberships only grow, so any resident may be a member.
SwitchHousehold(p) ==
    /\ home[p] # "none"
    /\ home' = [home EXCEPT ![p] = IF home[p] = "here" THEN "away" ELSE "here"]
    /\ UNCHANGED <<user, president, pc, who, goal, taken, vacant>>
    /\ overtaken' = [v \in Workers |-> overtaken[v]
                        \/ (v \in SawNoHolder /\ ~(Holders' \subseteq Holders))]

\* residents moveOut and remove read the resident with its account ...
MoveOut(w, p) ==
    /\ user[p] # "none"
    /\ Begin(w, "movingOut", p, NoGoal)

\* ... and deactivate it, without asking the guard.
DeactivateLinkedAccount(w) ==
    /\ At(w, "movingOut")
    /\ user' = [user EXCEPT ![who[w]] = IF @ = "DELETED" THEN @ ELSE "INACTIVE"]
    /\ UNCHANGED <<home, president>>
    /\ Effects(w, "idle", {}, FALSE)

\* Deactivating or deleting a household finds the active accounts and
\* deactivates them; they are carried in no other step, so who stays Nobody.
Deactivate(w) == Begin(w, "closing", Nobody, NoGoal)

DeactivateLinkedAccounts(w) ==
    /\ At(w, "closing")
    /\ user' = [p \in People |-> IF p \in ActiveHere THEN "INACTIVE" ELSE user[p]]
    /\ UNCHANGED <<home, president>>
    /\ Effects(w, "idle", {}, FALSE)

-----------------------------------------------------------------------------
Newcomers(w) ==
    \/ \E p \in People : Register(w, p) \/ CreateRenter(w, p)
                      \/ \E r \in Roles : CreateUser(w, p, r) \/ LinkUser(w, p, r)
    \/ FindNoUser(w) \/ Enroll(w)
    \/ NumberResident(w) \/ NumberUser(w) \/ CreateAccount(w)
    \/ NumberLinkedUser(w) \/ LinkAccount(w)
    \/ NumberRenter(w) \/ AssignRenter(w)

Officers(w) ==
    \/ \E p \in People : RemoveUser(w, p) \/ MoveOut(w, p)
                      \/ \E g \in Goals : UpdateUser(w, p, g)
    \/ GuardUpdate(w) \/ StoreUpdate(w) \/ GuardRemoval(w) \/ SoftDelete(w)
    \/ DeactivateLinkedAccount(w) \/ Deactivate(w) \/ DeactivateLinkedAccounts(w)

Next ==
    \/ \E w \in Workers : Newcomers(w) \/ Officers(w)
    \/ \E p \in People : SwitchHousehold(p) \/ \E h \in {"here", "away"} : AddResident(p, h)

Spec == Init /\ [][Next]_vars

-----------------------------------------------------------------------------
(* Properties.                                                             *)

\* The community keeps an active president, unless two officers removed two
\* presidents at once, or the last one moved out, gave way to a renter or lived
\* in a household that was closed: none of these asks the guard
\* (users.service.ts:64-67 "Rejects demotion / deactivation / deletion when the
\* user is the only active holder").
SomePresident == vacant \/ ActivePresidents # {}

\* Whoever registers, or is added as a newcomer, holds the household alone,
\* although the check comes long before the insert: the numbers let one of
\* two win.  Overtaken is who checked before another took a number that he did
\* not hold yet, or before a status change or a move added a holder
\* (users.service.ts:314-315, auth.service.ts:591-593).
NewHolderIsAlone ==
    [][\A w \in Workers :
          pc[w] \in {"enrolling", "creating"} /\ ~overtaken[w] /\ user'[who[w]] # user[who[w]]
              => Holders' = {who[w]}]_vars
=============================================================================
