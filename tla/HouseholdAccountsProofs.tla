----------------------- MODULE HouseholdAccountsProofs -----------------------
(***************************************************************************)
(* What HouseholdAccounts promises holds for any number of people and      *)
(* requests.                                                               *)
(***************************************************************************)
EXTENDS HouseholdAccounts, TLAPS

NewcomerLabels == {"registering", "enrolling", "numbering", "numberingUser", "creating",
                   "rentingNo", "renting"}
OfficerLabels  == {"guarding", "updating", "guardingRemoval", "deleting", "movingOut"}

-----------------------------------------------------------------------------
(* Types, with what is known of the person a request is about.  One who is *)
(* about to be added is about to be added by that request alone.           *)

\* What a request at this label knows of its person.
About(label, p) ==
    /\ label \notin {"idle", "closing"} => p \in People
    /\ label \in {"linkingNo", "linking"} => home[p] # "none"
    /\ label \in OfficerLabels => user[p] # "none"
    /\ label \in NewcomerLabels => home[p] = "none"

Alone(w) == pc[w] \in NewcomerLabels => \A v \in Workers : v # w => who[v] # who[w]

TypeInv == TypeOK /\ \A w \in Workers : About(pc[w], who[w]) /\ Alone(w)

LEMMA TypeInit == Init => TypeInv
<1> SUFFICES ASSUME Init PROVE TypeInv
  OBVIOUS
<1>1. NoGoal \in Goals
  BY DEF NoGoal, Goals, Keep
<1>2. PICK p \in People, h \in {"here", "away"} :
        /\ home = [q \in People |-> IF q = p THEN h ELSE "none"]
        /\ user = [q \in People |-> IF q = p THEN "ACTIVE" ELSE "none"]
        /\ president = {p}
  BY DEF Init
<1>3. TypeOK
  BY <1>1, <1>2 DEF Init, TypeOK, Statuses, Labels
<1>4. \A w \in Workers : About(pc[w], who[w]) /\ Alone(w)
  BY DEF Init, About, Alone, OfficerLabels, NewcomerLabels
<1> QED
  BY <1>3, <1>4 DEF TypeInv

\* Where a step leaves the requests.
LEMMA EffectsLocals ==
    ASSUME TypeOK, NEW w \in Workers, NEW label \in Labels, NEW used, NEW guarded \in BOOLEAN,
           Effects(w, label, used, guarded)
    PROVE  /\ pc' \in [Workers -> Labels] /\ who' \in [Workers -> People \cup {Nobody}]
           /\ goal' \in [Workers -> Goals]
           /\ taken' \in [Workers -> BOOLEAN] /\ overtaken' \in [Workers -> BOOLEAN]
           /\ pc'[w] = label
           /\ label = "idle" => who'[w] = Nobody
           /\ label # "idle" => who' = who /\ goal' = goal
           /\ \A v \in Workers : v # w => pc'[v] = pc[v] /\ who'[v] = who[v] /\ goal'[v] = goal[v]
<1>1. NoGoal \in Goals
  BY DEF NoGoal, Goals, Keep
<1>2. /\ pc' = [pc EXCEPT ![w] = label]
      /\ who' = IF label = "idle" THEN [who EXCEPT ![w] = Nobody] ELSE who
      /\ goal' = IF label = "idle" THEN [goal EXCEPT ![w] = NoGoal] ELSE goal
  BY DEF Effects
<1>3. taken' \in [Workers -> BOOLEAN] /\ overtaken' \in [Workers -> BOOLEAN]
  BY DEF Effects, TypeOK
<1> QED
  BY <1>1, <1>2, <1>3 DEF TypeOK

\* A step that adds w's person at most.
LEMMA EffectsTypes ==
    ASSUME TypeInv, NEW w \in Workers, NEW label \in Labels, NEW used, NEW guarded \in BOOLEAN,
           Effects(w, label, used, guarded),
           home' \in [People -> {"none", "here", "away"}],
           user' \in [People -> Statuses \cup {"none", "DELETED"}],
           \A p \in president' : p \in People /\ user'[p] # "none",
           \A p \in People : /\ p # who[w] => home'[p] = home[p]
                             /\ home[p] # "none" => home'[p] # "none"
                             /\ user[p] # "none" => user'[p] # "none"
                             /\ user'[p] # "none" => home'[p] # "none",
           label = "idle" \/ home' = home,
           label \in NewcomerLabels => pc[w] \in NewcomerLabels,
           About(label, who[w])
    PROVE  TypeInv'
<1>1. /\ TypeOK
      /\ \A v \in Workers : About(pc[v], who[v]) /\ Alone(v)
  BY DEF TypeInv
<1>2. vacant' \in BOOLEAN
  BY DEF Effects
<1>3. TypeOK'
  BY <1>1, <1>2, EffectsLocals DEF TypeOK
<1>4. About(pc[w], who[w])'
  BY <1>1, EffectsLocals DEF About, OfficerLabels, NewcomerLabels
<1>5. ASSUME NEW v \in Workers, v # w PROVE About(pc[v], who[v])'
  <2>1. pc'[v] = pc[v] /\ who'[v] = who[v]
    BY <1>1, <1>5, EffectsLocals
  <2>2. pc[v] \in NewcomerLabels => who[v] # who[w]
    BY <1>1, <1>5 DEF Alone
  <2> QED
    BY <1>1, <2>1, <2>2 DEF About, OfficerLabels, NewcomerLabels
<1>6. ASSUME NEW v \in Workers PROVE Alone(v)'
  <2> SUFFICES ASSUME pc'[v] \in NewcomerLabels, NEW u \in Workers, u # v
               PROVE  who'[u] # who'[v]
    BY DEF Alone
  <2>1. pc[v] \in NewcomerLabels /\ who'[v] = who[v]
    BY <1>1, EffectsLocals DEF NewcomerLabels
  <2>2. who[v] # who[u] /\ who[v] \in People
    BY <1>1, <2>1 DEF Alone, About, NewcomerLabels
  <2>3. who'[u] \in {who[u], Nobody}
    BY <1>1, EffectsLocals
  <2> QED
    BY <2>1, <2>2, <2>3, AccountConstants
<1> QED
  BY <1>3, <1>4, <1>5, <1>6 DEF TypeInv

\* A step that writes no row.
LEMMA GotoTypes ==
    ASSUME TypeInv, NEW w \in Workers, NEW label \in Labels, Goto(w, label),
           label \in NewcomerLabels => pc[w] \in NewcomerLabels,
           About(label, who[w])
    PROVE  TypeInv'
<1>1. Effects(w, label, {}, TRUE) /\ UNCHANGED <<home, user, president>>
  BY DEF Goto, rows
<1>2. /\ home \in [People -> {"none", "here", "away"}]
      /\ user \in [People -> Statuses \cup {"none", "DELETED"}]
      /\ \A p \in president : p \in People /\ user[p] # "none"
      /\ \A p \in People : user[p] # "none" => home[p] # "none"
  BY DEF TypeInv, TypeOK
<1> QED
  BY <1>1, <1>2, EffectsTypes

LEMMA IdleKnowsNothing == \A p : About("idle", p) /\ "idle" \notin NewcomerLabels /\ "idle" \in Labels
  BY DEF About, OfficerLabels, NewcomerLabels, Labels

\* The person who is added has an account from then on, and a resident.
LEMMA InsertTypes ==
    ASSUME TypeInv, NEW w \in Workers, who[w] \in People, NEW status \in {"PENDING", "ACTIVE"},
           NEW others \in [People -> Statuses \cup {"none", "DELETED"}],
           \A p \in People : others[p] = "none" <=> user[p] = "none",
           Insert(w, status, others)
    PROVE  TypeInv'
<1>1. TypeOK
  BY DEF TypeInv
<1>2. CASE taken[w] \/ user[who[w]] # "none"
  <2>1. Goto(w, "idle")
    BY <1>2 DEF Insert
  <2> QED
    BY <2>1, GotoTypes, IdleKnowsNothing
<1>3. CASE ~(taken[w] \/ user[who[w]] # "none")
  <2> DEFINE p == who[w]
  <2>1. /\ home' = IF home[p] = "none" THEN [home EXCEPT ![p] = "here"] ELSE home
        /\ user' = [others EXCEPT ![p] = status]
        /\ president' \subseteq president \cup {p}
    BY <1>3 DEF Insert
  <2>2. \E used : Effects(w, "idle", used, FALSE)
    BY <1>3 DEF Insert
  <2>3. home' \in [People -> {"none", "here", "away"}]
    BY <1>1, <2>1 DEF TypeOK
  <2>4. user' \in [People -> Statuses \cup {"none", "DELETED"}]
    BY <2>1 DEF Statuses
  <2>5. \A q \in president' : q \in People /\ user'[q] # "none"
    BY <1>1, <2>1 DEF TypeOK
  <2>6. \A q \in People : /\ q # p => home'[q] = home[q]
                          /\ home[q] # "none" => home'[q] # "none"
                          /\ user[q] # "none" => user'[q] # "none"
                          /\ user'[q] # "none" => home'[q] # "none"
    BY <1>1, <2>1 DEF TypeOK
  <2> QED
    BY <2>2, <2>3, <2>4, <2>5, <2>6, EffectsTypes, IdleKnowsNothing
<1> QED
  BY <1>2, <1>3

LEMMA TypeStep == TypeInv /\ [Next]_vars => TypeInv'
<1> SUFFICES ASSUME TypeInv, [Next]_vars PROVE TypeInv'
  OBVIOUS
<1>t. /\ TypeOK
      /\ \A v \in Workers : About(pc[v], who[v]) /\ Alone(v)
  BY DEF TypeInv
<1>g. Plain \in Goals /\ NoGoal \in Goals /\ \A r \in Roles : WithRole(r) \in Goals
  BY DEF Plain, NoGoal, Goals, Keep, Roles, WithRole
\* A request starts; nobody else's request is about a newcomer's person.
<1>1. ASSUME NEW w \in Workers, NEW label \in Labels \ {"idle"}, NEW p \in People \cup {Nobody},
             NEW g \in Goals, Begin(w, label, p, g), About(label, p),
             label \in NewcomerLabels => Stranger(p), label = "closing" => p = Nobody
      PROVE  TypeInv'
  <2>1. /\ pc[w] = "idle" /\ pc' = [pc EXCEPT ![w] = label]
        /\ who' = [who EXCEPT ![w] = p] /\ goal' = [goal EXCEPT ![w] = g]
        /\ UNCHANGED <<home, user, president, taken, overtaken, vacant>>
    BY <1>1 DEF Begin, At, rows
  <2>2. TypeOK'
    BY <1>t, <2>1 DEF TypeOK
  <2>3. ASSUME NEW v \in Workers PROVE About(pc[v], who[v])'
    BY <1>t, <1>1, <2>1 DEF About, TypeOK
  <2>4. ASSUME NEW v \in Workers PROVE Alone(v)'
    <3> SUFFICES ASSUME pc'[v] \in NewcomerLabels, NEW u \in Workers, u # v
                 PROVE  who'[u] # who'[v]
      BY DEF Alone
    <3>1. CASE v = w
      BY <1>t, <1>1, <2>1, <3>1 DEF TypeOK, Stranger
    <3>2. CASE v # w
      <4>1. home[who[v]] = "none" /\ who[v] # who[u] /\ who[v] \in People
            /\ pc'[v] = pc[v] /\ who'[v] = who[v]
        BY <1>t, <2>1, <3>2 DEF TypeOK, About, Alone, NewcomerLabels
      <4>2. CASE u = w
        <5>1. p # who[v]
          BY <1>t, <1>1, <4>1, AccountConstants
          DEF Stranger, About, TypeOK, Labels, OfficerLabels, NewcomerLabels
        <5> QED
          BY <1>t, <2>1, <4>1, <4>2, <5>1 DEF TypeOK
      <4>3. CASE u # w
        BY <1>t, <2>1, <4>1, <4>3 DEF TypeOK
      <4> QED
        BY <4>2, <4>3
    <3> QED
      BY <3>1, <3>2
  <2> QED
    BY <2>2, <2>3, <2>4 DEF TypeInv
<1>2. ASSUME NEW w \in Workers, NEW p \in People, Register(w, p) \/ CreateRenter(w, p)
      PROVE  TypeInv'
  BY <1>g, <1>1, <1>2
  DEF Register, CreateRenter, Stranger, About, Labels, OfficerLabels, NewcomerLabels
<1>3. ASSUME NEW w \in Workers, NEW p \in People, NEW r \in Roles,
             CreateUser(w, p, r) \/ LinkUser(w, p, r)
      PROVE  TypeInv'
  BY <1>g, <1>1, <1>3
  DEF CreateUser, LinkUser, Stranger, About, Labels, OfficerLabels, NewcomerLabels
<1>4. ASSUME NEW w \in Workers, NEW label \in Labels, Goto(w, label),
             \/ label = "idle"
             \/ label \in NewcomerLabels /\ pc[w] \in NewcomerLabels
             \/ label = "linking" /\ pc[w] = "linkingNo"
             \/ label \in OfficerLabels /\ pc[w] \in OfficerLabels
      PROVE  TypeInv'
  <2>1. About(label, who[w])
    BY <1>t, <1>4 DEF About, OfficerLabels, NewcomerLabels
  <2> QED
    BY <1>4, <2>1, GotoTypes DEF OfficerLabels, NewcomerLabels
<1>5. ASSUME NEW w \in Workers,
             FindNoUser(w) \/ NumberResident(w) \/ NumberUser(w) \/ NumberLinkedUser(w)
                \/ NumberRenter(w) \/ GuardUpdate(w) \/ GuardRemoval(w)
      PROVE  TypeInv'
  BY <1>4, <1>5
  DEF FindNoUser, NumberResident, NumberUser, NumberLinkedUser, NumberRenter, GuardUpdate,
      GuardRemoval, At, Labels, OfficerLabels, NewcomerLabels
<1>6. ASSUME NEW w \in Workers, Enroll(w) \/ CreateAccount(w) \/ LinkAccount(w) PROVE TypeInv'
  <2>1. who[w] \in People
    BY <1>t, <1>6 DEF Enroll, CreateAccount, LinkAccount, At, About
  <2>2. PICK status \in {"PENDING", "ACTIVE"} : Insert(w, status, user)
    BY <1>6 DEF Enroll, CreateAccount, LinkAccount
  <2> QED
    BY <1>t, <2>1, <2>2, InsertTypes DEF TypeOK
<1>7. ASSUME NEW w \in Workers, AssignRenter(w) PROVE TypeInv'
  <2> DEFINE others == [q \in People |-> IF q \in ActiveHere THEN "INACTIVE" ELSE user[q]]
  <2>1. who[w] \in People /\ Insert(w, "ACTIVE", others)
    BY <1>t, <1>7 DEF AssignRenter, At, About
  <2>2. /\ others \in [People -> Statuses \cup {"none", "DELETED"}]
        /\ \A p \in People : others[p] = "none" <=> user[p] = "none"
    BY <1>t DEF TypeOK, Statuses, ActiveHere
  <2> HIDE DEF others
  <2> QED
    BY <2>1, <2>2, InsertTypes
<1>8. ASSUME NEW w \in Workers, NEW p \in People, NEW g \in Goals, UpdateUser(w, p, g)
      PROVE  TypeInv'
  <2>1. user[p] # "none"
    BY <1>8 DEF UpdateUser, Statuses
  <2>2. PICK label \in {"guarding", "updating"} : Begin(w, label, p, g)
    BY <1>8 DEF UpdateUser
  <2> QED
    BY <1>1, <2>1, <2>2 DEF About, Labels, OfficerLabels, NewcomerLabels
<1>9. ASSUME NEW w \in Workers, NEW p \in People, RemoveUser(w, p) PROVE TypeInv'
  <2>1. user[p] # "none"
    BY <1>9 DEF RemoveUser, Statuses
  <2>2. PICK label \in {"guardingRemoval", "deleting"} : Begin(w, label, p, NoGoal)
    BY <1>9 DEF RemoveUser
  <2> QED
    BY <1>g, <1>1, <2>1, <2>2 DEF About, Labels, OfficerLabels, NewcomerLabels
<1>10. ASSUME NEW w \in Workers, NEW p \in People, MoveOut(w, p) PROVE TypeInv'
  BY <1>g, <1>1, <1>10 DEF MoveOut, About, Labels, OfficerLabels, NewcomerLabels
<1>11. ASSUME NEW w \in Workers, Deactivate(w) PROVE TypeInv'
  BY <1>g, <1>1, <1>11 DEF Deactivate, About, Labels, OfficerLabels, NewcomerLabels
\* Accounts are changed, and none is added.
<1>12. ASSUME NEW w \in Workers, home' = home,
              user' \in [People -> Statuses \cup {"none", "DELETED"}],
              \A p \in People : user'[p] = "none" <=> user[p] = "none",
              president' \subseteq {p \in People : user[p] # "none"},
              NEW guarded \in BOOLEAN, Effects(w, "idle", {}, guarded)
       PROVE  TypeInv'
  <2>1. /\ home' \in [People -> {"none", "here", "away"}]
        /\ \A p \in president' : p \in People /\ user'[p] # "none"
        /\ \A p \in People : user'[p] # "none" => home'[p] # "none"
    BY <1>t, <1>12 DEF TypeOK
  <2> QED
    BY <1>12, <2>1, EffectsTypes, IdleKnowsNothing
<1>13. ASSUME NEW w \in Workers, StoreUpdate(w) PROVE TypeInv'
  <2>1. who[w] \in People /\ user[who[w]] # "none"
    BY <1>t, <1>13 DEF StoreUpdate, At, About, OfficerLabels
  <2>2. goal[w].status \in {"ACTIVE", "INACTIVE", Keep}
    BY <1>t DEF TypeOK, Goals
  <2>3. /\ user' = IF goal[w].status = Keep \/ user[who[w]] = "DELETED" THEN user
                   ELSE [user EXCEPT ![who[w]] = goal[w].status]
        /\ president' \subseteq president \cup {who[w]}
        /\ home' = home
    BY <1>13 DEF StoreUpdate
  <2>4. PICK guarded \in BOOLEAN : Effects(w, "idle", {}, guarded)
    BY <1>13 DEF StoreUpdate
  <2>5. /\ user' \in [People -> Statuses \cup {"none", "DELETED"}]
        /\ \A p \in People : user'[p] = "none" <=> user[p] = "none"
        /\ president' \subseteq {p \in People : user[p] # "none"}
    BY <1>t, <2>1, <2>2, <2>3 DEF TypeOK, Statuses, Keep
  <2> QED
    BY <1>12, <2>3, <2>4, <2>5
<1>14. ASSUME NEW w \in Workers, SoftDelete(w) \/ DeactivateLinkedAccount(w) PROVE TypeInv'
  <2>1. who[w] \in People /\ user[who[w]] # "none"
    BY <1>t, <1>14 DEF SoftDelete, DeactivateLinkedAccount, At, About, OfficerLabels
  <2>2. PICK status \in {"DELETED", "INACTIVE"} : user' = [user EXCEPT ![who[w]] = status]
    BY <1>14 DEF SoftDelete, DeactivateLinkedAccount
  <2>3. home' = home /\ president' = president
    BY <1>14 DEF SoftDelete, DeactivateLinkedAccount
  <2>4. PICK guarded \in BOOLEAN : Effects(w, "idle", {}, guarded)
    BY <1>14 DEF SoftDelete, DeactivateLinkedAccount
  <2>5. /\ user' \in [People -> Statuses \cup {"none", "DELETED"}]
        /\ \A p \in People : user'[p] = "none" <=> user[p] = "none"
    BY <1>t, <2>1, <2>2 DEF TypeOK, Statuses
  <2> QED
    BY <1>t, <1>12, <2>3, <2>4, <2>5 DEF TypeOK
<1>15. ASSUME NEW w \in Workers, DeactivateLinkedAccounts(w) PROVE TypeInv'
  <2>1. /\ user' = [p \in People |-> IF p \in ActiveHere THEN "INACTIVE" ELSE user[p]]
        /\ home' = home /\ president' = president /\ Effects(w, "idle", {}, FALSE)
    BY <1>15 DEF DeactivateLinkedAccounts
  <2>2. /\ user' \in [People -> Statuses \cup {"none", "DELETED"}]
        /\ \A p \in People : user'[p] = "none" <=> user[p] = "none"
    BY <1>t, <2>1 DEF TypeOK, Statuses, ActiveHere
  <2> QED
    BY <1>t, <1>12, <2>1, <2>2 DEF TypeOK
<1>16. ASSUME NEW p \in People, NEW h \in {"here", "away"},
              home' = [home EXCEPT ![p] = h],
              home[p] # "none" \/ \A v \in Workers : who[v] # p,
              UNCHANGED <<user, president, pc, who, goal, vacant>>,
              taken' \in [Workers -> BOOLEAN], overtaken' \in [Workers -> BOOLEAN]
       PROVE  TypeInv'
  <2>1. TypeOK'
    BY <1>t, <1>16 DEF TypeOK
  <2>2. ASSUME NEW v \in Workers PROVE About(pc[v], who[v])' /\ Alone(v)'
    BY <1>t, <1>16 DEF TypeOK, About, Alone, OfficerLabels, NewcomerLabels
  <2> QED
    BY <2>1, <2>2 DEF TypeInv
<1>17. ASSUME NEW p \in People, SwitchHousehold(p) PROVE TypeInv'
  <2>1. overtaken' \in [Workers -> BOOLEAN]
    BY <1>t, <1>17 DEF SwitchHousehold, TypeOK
  <2> QED
    BY <1>t, <1>16, <1>17, <2>1 DEF SwitchHousehold, TypeOK
<1>18. ASSUME NEW p \in People, NEW h \in {"here", "away"}, AddResident(p, h) PROVE TypeInv'
  <2>1. taken' \in [Workers -> BOOLEAN]
    BY <1>t, <1>18 DEF AddResident, TypeOK
  <2> QED
    BY <1>t, <1>16, <1>18, <2>1 DEF AddResident, Stranger, TypeOK
<1>19. CASE UNCHANGED vars
  BY <1>t, <1>19 DEF vars, rows, locals, TypeInv, TypeOK, About, Alone
<1> QED
  BY <1>2, <1>3, <1>5, <1>6, <1>7, <1>8, <1>9, <1>10, <1>11, <1>13, <1>14, <1>15, <1>17, <1>18, <1>19
  DEF Next, Newcomers, Officers

\* Every row and request has its type, a president has an account, and no account
\* is without its resident.
THEOREM TypeCorrect == Spec => []TypeOK
<1>1. TypeInv => TypeOK
  BY DEF TypeInv
<1> QED
  BY TypeInit, TypeStep, <1>1, PTL DEF Spec

-----------------------------------------------------------------------------
(* The presidency.  A request that takes a status or a role from an active *)
(* president knows of another one, as long as nobody overtakes it.         *)

Guarded(w) ==
    ~overtaken[w] /\ who[w] \in ActivePresidents =>
        /\ pc[w] = "updating" /\ (goal[w].status = "INACTIVE" \/ goal[w].role = "Member") =>
              OtherPresidents(who[w]) # {}
        /\ pc[w] = "deleting" => OtherPresidents(who[w]) # {}

PresidentInv == SomePresident /\ \A w \in Workers : Guarded(w)

LEMMA PresidentInit == Init => PresidentInv
<1> SUFFICES ASSUME Init PROVE PresidentInv
  OBVIOUS
<1>1. PICK p \in People : president = {p} /\ user[p] = "ACTIVE"
  BY DEF Init
<1>2. SomePresident
  BY <1>1 DEF SomePresident, ActivePresidents
<1>3. \A w \in Workers : Guarded(w)
  BY DEF Init, Guarded
<1> QED
  BY <1>2, <1>3 DEF PresidentInv

\* A change of the active presidents overtakes whoever counted them.
LEMMA EffectsOvertake ==
    ASSUME TypeOK, NEW w \in Workers, NEW label, NEW used, NEW guarded \in BOOLEAN,
           Effects(w, label, used, guarded), NEW v \in Workers, v # w, ~overtaken'[v]
    PROVE  /\ ~overtaken[v]
           /\ v \in SawPresidents => ActivePresidents' = ActivePresidents
           /\ v \in SawNoHolder => Holders' \subseteq Holders \/ v \in used
  BY DEF Effects

\* The last active president leaves by a step that asked no guard, or does not leave.
LEMMA EffectsVacant ==
    ASSUME SomePresident, NEW w, NEW label, NEW used, NEW guarded \in BOOLEAN,
           Effects(w, label, used, guarded),
           guarded => ActivePresidents = {} \/ ActivePresidents' # {}
    PROVE  SomePresident'
<1>1. vacant' = (ActivePresidents' = {} /\ (vacant \/ ~guarded))
  BY DEF Effects
<1> QED
  BY <1>1 DEF SomePresident

LEMMA PresidentKept ==
    ASSUME TypeOK, PresidentInv, NEW w \in Workers, NEW label \in Labels, NEW used,
           NEW guarded \in BOOLEAN, Effects(w, label, used, guarded),
           guarded => ActivePresidents = {} \/ ActivePresidents' # {},
           Guarded(w)'
    PROVE  PresidentInv'
<1>1. SomePresident'
  BY EffectsVacant DEF PresidentInv
<1>2. ASSUME NEW v \in Workers, v # w PROVE Guarded(v)'
  <2> SUFFICES ASSUME ~overtaken'[v], pc'[v] \in {"updating", "deleting"} PROVE Guarded(v)'
    BY DEF Guarded
  <2>1. pc'[v] = pc[v] /\ who'[v] = who[v] /\ goal'[v] = goal[v]
    BY <1>2, EffectsLocals
  <2>2. ~overtaken[v] /\ ActivePresidents' = ActivePresidents
    BY <1>2, <2>1, EffectsOvertake DEF SawPresidents
  <2>3. OtherPresidents(who[v])' = OtherPresidents(who[v])
    BY <2>1, <2>2 DEF OtherPresidents
  <2> QED
    BY <2>1, <2>2, <2>3 DEF PresidentInv, Guarded, OtherPresidents
<1> QED
  BY <1>1, <1>2 DEF PresidentInv

LEMMA PresidentStep == TypeInv /\ PresidentInv /\ [Next]_vars => PresidentInv'
<1> SUFFICES ASSUME TypeInv, PresidentInv, [Next]_vars PROVE PresidentInv'
  OBVIOUS
<1>t. TypeOK /\ \A v \in Workers : About(pc[v], who[v]) /\ Guarded(v)
  BY DEF TypeInv, PresidentInv
\* The request ends: it has nothing to know.
<1>1. ASSUME NEW w \in Workers, NEW used, NEW guarded \in BOOLEAN,
             Effects(w, "idle", used, guarded),
             guarded => ActivePresidents = {} \/ ActivePresidents' # {}
      PROVE  PresidentInv'
  <2>1. "idle" \in Labels
    BY DEF Labels
  <2>2. Guarded(w)'
    BY <1>t, <1>1, <2>1, EffectsLocals DEF Guarded
  <2> QED
    BY <1>t, <1>1, <2>1, <2>2, PresidentKept
\* It goes on, and no row changes.
<1>2. ASSUME NEW w \in Workers, NEW label \in Labels, Goto(w, label),
             label = "updating" \/ label = "deleting" => Passes(who[w])
      PROVE  PresidentInv'
  <2>1. Effects(w, label, {}, TRUE) /\ ActivePresidents' = ActivePresidents
    BY <1>2 DEF Goto, rows, ActivePresidents
  <2>2. pc'[w] = label /\ (label # "idle" => who' = who)
    BY <1>t, <2>1, EffectsLocals
  <2>3. Guarded(w)'
    BY <1>2, <2>1, <2>2 DEF Guarded, Passes, OtherPresidents, ActivePresidents
  <2> QED
    BY <1>t, <2>1, <2>3, PresidentKept
<1>3. ASSUME NEW w \in Workers,
             FindNoUser(w) \/ NumberResident(w) \/ NumberUser(w) \/ NumberLinkedUser(w)
                \/ NumberRenter(w) \/ GuardUpdate(w) \/ GuardRemoval(w)
      PROVE  PresidentInv'
  BY <1>2, <1>3
  DEF FindNoUser, NumberResident, NumberUser, NumberLinkedUser, NumberRenter, GuardUpdate,
      GuardRemoval, Labels
\* A request starts; one that skips the guard takes nothing from an active president.
<1>4. ASSUME NEW w \in Workers, NEW label, NEW p, NEW g, Begin(w, label, p, g),
             label = "updating" /\ (g.status = "INACTIVE" \/ g.role = "Member") =>
                p \notin ActivePresidents,
             label = "deleting" => p \notin ActivePresidents
      PROVE  PresidentInv'
  <2>1. /\ pc' = [pc EXCEPT ![w] = label] /\ who' = [who EXCEPT ![w] = p]
        /\ goal' = [goal EXCEPT ![w] = g]
        /\ UNCHANGED <<user, president, overtaken, vacant>>
    BY <1>4 DEF Begin, rows
  <2>2. ActivePresidents' = ActivePresidents
    BY <2>1 DEF ActivePresidents
  <2>3. Guarded(w)'
    BY <1>t, <1>4, <2>1, <2>2 DEF Guarded, TypeOK
  <2>4. ASSUME NEW v \in Workers, v # w PROVE Guarded(v)'
    BY <1>t, <2>1, <2>2, <2>4 DEF Guarded, OtherPresidents, TypeOK
  <2> QED
    BY <2>1, <2>2, <2>3, <2>4 DEF PresidentInv, SomePresident
<1>5. ASSUME NEW w \in Workers, NEW p \in People, Register(w, p) \/ CreateRenter(w, p)
      PROVE  PresidentInv'
  BY <1>4, <1>5 DEF Register, CreateRenter
<1>6. ASSUME NEW w \in Workers, NEW p \in People, NEW r \in Roles,
             CreateUser(w, p, r) \/ LinkUser(w, p, r)
      PROVE  PresidentInv'
  BY <1>4, <1>6 DEF CreateUser, LinkUser
<1>7. ASSUME NEW w \in Workers, NEW status, NEW others, Insert(w, status, others)
      PROVE  PresidentInv'
  <2>1. CASE taken[w] \/ user[who[w]] # "none"
    BY <1>2, <1>7, <2>1 DEF Insert, Labels
  <2>2. CASE ~(taken[w] \/ user[who[w]] # "none")
    BY <1>1, <1>7, <2>2 DEF Insert
  <2> QED
    BY <2>1, <2>2
<1>8. ASSUME NEW w \in Workers, Enroll(w) \/ CreateAccount(w) \/ LinkAccount(w) \/ AssignRenter(w)
      PROVE  PresidentInv'
  BY <1>7, <1>8 DEF Enroll, CreateAccount, LinkAccount, AssignRenter
<1>9. ASSUME NEW w \in Workers, NEW p \in People, NEW g \in Goals, UpdateUser(w, p, g)
      PROVE  PresidentInv'
  <2> DEFINE losesStatus == p \in ActivePresidents /\ g.status = "INACTIVE"
             losesRole   == p \in president /\ g.role = "Member"
  <2>1. CASE losesStatus \/ losesRole
    BY <1>4, <1>9, <2>1 DEF UpdateUser
  <2>2. CASE ~(losesStatus \/ losesRole)
    BY <1>4, <1>9, <2>2 DEF UpdateUser, ActivePresidents
  <2> QED
    BY <2>1, <2>2
<1>10. ASSUME NEW w \in Workers, NEW p \in People, RemoveUser(w, p) PROVE PresidentInv'
  BY <1>4, <1>10 DEF RemoveUser
<1>11. ASSUME NEW w \in Workers, Deactivate(w) \/ \E p \in People : MoveOut(w, p)
       PROVE  PresidentInv'
  BY <1>4, <1>11 DEF MoveOut, Deactivate
\* What is written was guarded, or the writer was overtaken.
<1>12. ASSUME NEW w \in Workers, StoreUpdate(w) PROVE PresidentInv'
  <2> DEFINE p == who[w]
  <2>1. /\ Effects(w, "idle", {}, ~overtaken[w]) /\ pc[w] = "updating" /\ p \in People
        /\ user' = IF goal[w].status = Keep \/ user[p] = "DELETED" THEN user
                   ELSE [user EXCEPT ![p] = goal[w].status]
        /\ president' = IF goal[w].role = "President" THEN president \cup {p}
                        ELSE IF goal[w].role = "Member" THEN president \ {p}
                        ELSE president
    BY <1>t, <1>12 DEF StoreUpdate, At, About
  <2>2. goal[w].status \in {"ACTIVE", "INACTIVE", Keep}
    BY <1>t DEF TypeOK, Goals
  <2>3. ASSUME ~overtaken[w], ActivePresidents # {} PROVE ActivePresidents' # {}
    <3>1. ActivePresidents \ {p} \subseteq ActivePresidents'
      BY <1>t, <2>1 DEF ActivePresidents, TypeOK
    <3>2. CASE p \in ActivePresidents /\ (goal[w].status = "INACTIVE" \/ goal[w].role = "Member")
      BY <1>t, <2>1, <2>3, <3>1, <3>2 DEF Guarded, OtherPresidents
    <3>3. CASE p \in ActivePresidents /\ goal[w].status # "INACTIVE" /\ goal[w].role # "Member"
      <4>1. p \in ActivePresidents'
        BY <1>t, <2>1, <2>2, <3>3 DEF ActivePresidents, TypeOK
      <4> QED
        BY <4>1
    <3>4. CASE p \notin ActivePresidents
      BY <2>3, <3>1, <3>4
    <3> QED
      BY <3>2, <3>3, <3>4
  <2>4. (~overtaken[w]) \in BOOLEAN
    OBVIOUS
  <2> QED
    BY <1>1, <2>1, <2>3, <2>4
<1>13. ASSUME NEW w \in Workers, SoftDelete(w) PROVE PresidentInv'
  <2>1. /\ Effects(w, "idle", {}, ~overtaken[w]) /\ pc[w] = "deleting"
        /\ user' = [user EXCEPT ![who[w]] = "DELETED"] /\ president' = president
    BY <1>13 DEF SoftDelete, At
  <2>2. ASSUME ~overtaken[w], ActivePresidents # {} PROVE ActivePresidents' # {}
    <3>1. ActivePresidents \ {who[w]} \subseteq ActivePresidents'
      BY <1>t, <2>1 DEF ActivePresidents, TypeOK
    <3>2. ActivePresidents \ {who[w]} # {}
      BY <1>t, <2>1, <2>2 DEF Guarded, OtherPresidents
    <3> QED
      BY <3>1, <3>2
  <2>3. (~overtaken[w]) \in BOOLEAN
    OBVIOUS
  <2> QED
    BY <1>1, <2>1, <2>2, <2>3
<1>14. ASSUME NEW w \in Workers, DeactivateLinkedAccount(w) \/ DeactivateLinkedAccounts(w)
       PROVE  PresidentInv'
  BY <1>1, <1>14 DEF DeactivateLinkedAccount, DeactivateLinkedAccounts
\* Nobody's status or role changes.
<1>15. ASSUME UNCHANGED <<user, president, pc, who, goal, vacant>>,
              \A v \in Workers : overtaken[v] => overtaken'[v]
       PROVE  PresidentInv'
  <2>1. ActivePresidents' = ActivePresidents
    BY <1>15 DEF ActivePresidents
  <2>2. \A v \in Workers : Guarded(v)'
    BY <1>t, <1>15, <2>1 DEF Guarded, OtherPresidents
  <2> QED
    BY <1>15, <2>1, <2>2 DEF PresidentInv, SomePresident
<1>16. ASSUME NEW p \in People,
              SwitchHousehold(p) \/ \E h \in {"here", "away"} : AddResident(p, h)
       PROVE  PresidentInv'
  BY <1>15, <1>16 DEF SwitchHousehold, AddResident
<1>17. CASE UNCHANGED vars
  BY <1>15, <1>17 DEF vars, rows, locals
<1> QED
  BY <1>3, <1>5, <1>6, <1>8, <1>9, <1>10, <1>11, <1>12, <1>13, <1>14, <1>16, <1>17
  DEF Next, Newcomers, Officers

\* The community keeps an active president, unless two officers removed the last two
\* at once, or the last one left by a way that asks no guard.
THEOREM PresidencyIsHeld == Spec => []SomePresident
<1>1. Init => TypeInv /\ PresidentInv
  BY TypeInit, PresidentInit
<1>2. (TypeInv /\ PresidentInv) /\ [Next]_vars => (TypeInv /\ PresidentInv)'
  BY TypeStep, PresidentStep
<1>3. PresidentInv => SomePresident
  BY DEF PresidentInv
<1> QED
  BY <1>1, <1>2, <1>3, PTL DEF Spec

-----------------------------------------------------------------------------
(* One account per household.  A request that found no holder still finds  *)
(* none, or it was overtaken, or lost its number and will fail.            *)

NoHolder(w) == w \in SawNoHolder /\ ~overtaken[w] /\ ~taken[w] => Holders = {}

HolderInv == \A w \in Workers : NoHolder(w)

LEMMA HolderKept ==
    ASSUME TypeOK, HolderInv, NEW w \in Workers, NEW label \in Labels, NEW used,
           NEW guarded \in BOOLEAN, Effects(w, label, used, guarded),
           label \in {"enrolling", "numbering", "numberingUser", "creating"} =>
              Holders' = Holders /\ (w \in SawNoHolder \/ Holders = {})
    PROVE  HolderInv'
<1>1. /\ overtaken'[w] = (label # "idle" /\ overtaken[w])
      /\ taken'[w] = (label # "idle" /\ taken[w])
      /\ \A v \in Workers : v # w => taken'[v] = (taken[v] \/ v \in used)
  BY DEF Effects
<1>2. NoHolder(w)'
  BY <1>1, EffectsLocals DEF NoHolder, HolderInv, SawNoHolder
<1>3. ASSUME NEW v \in Workers, v # w PROVE NoHolder(v)'
  <2> SUFFICES ASSUME v \in SawNoHolder', ~overtaken'[v], ~taken'[v] PROVE Holders' = {}
    BY DEF NoHolder
  <2>1. v \in SawNoHolder
    BY <1>3, EffectsLocals DEF SawNoHolder
  <2>2. v \notin used /\ ~taken[v]
    BY <1>1, <1>3
  <2>3. ~overtaken[v] /\ (Holders' \subseteq Holders \/ v \in used)
    BY <1>3, <2>1, EffectsOvertake
  <2> QED
    BY <2>1, <2>2, <2>3 DEF HolderInv, NoHolder
<1> QED
  BY <1>2, <1>3 DEF HolderInv

LEMMA HolderStep == TypeInv /\ HolderInv /\ [Next]_vars => HolderInv'
<1> SUFFICES ASSUME TypeInv, HolderInv, [Next]_vars PROVE HolderInv'
  OBVIOUS
<1>t. TypeOK
  BY DEF TypeInv
<1>1. ASSUME NEW w \in Workers, NEW used, NEW guarded \in BOOLEAN, Effects(w, "idle", used, guarded)
      PROVE  HolderInv'
  BY <1>t, <1>1, HolderKept DEF Labels
<1>2. ASSUME NEW w \in Workers, NEW label \in Labels, Goto(w, label),
             label \in {"enrolling", "numbering", "numberingUser", "creating"} =>
                w \in SawNoHolder \/ Holders = {}
      PROVE  HolderInv'
  <2>1. Effects(w, label, {}, TRUE) /\ Holders' = Holders
    BY <1>2 DEF Goto, rows, Holders
  <2> QED
    BY <1>t, <1>2, <2>1, HolderKept
<1>3. ASSUME NEW w \in Workers,
             FindNoUser(w) \/ NumberResident(w) \/ NumberUser(w) \/ NumberLinkedUser(w)
                \/ NumberRenter(w) \/ GuardUpdate(w) \/ GuardRemoval(w)
      PROVE  HolderInv'
  BY <1>2, <1>3
  DEF FindNoUser, NumberResident, NumberUser, NumberLinkedUser, NumberRenter, GuardUpdate,
      GuardRemoval, At, Labels, SawNoHolder
<1>4. ASSUME NEW w \in Workers, NEW label, NEW p, NEW g, Begin(w, label, p, g),
             label \in {"enrolling", "numbering", "numberingUser", "creating"} => Holders = {}
      PROVE  HolderInv'
  <2>1. /\ pc' = [pc EXCEPT ![w] = label] /\ Holders' = Holders
        /\ UNCHANGED <<taken, overtaken>>
    BY <1>4 DEF Begin, rows, Holders
  <2> QED
    BY <1>t, <1>4, <2>1 DEF HolderInv, NoHolder, SawNoHolder, TypeOK
<1>5. ASSUME NEW w \in Workers, NEW p \in People,
             Register(w, p) \/ CreateRenter(w, p) \/ RemoveUser(w, p) \/ MoveOut(w, p)
      PROVE  HolderInv'
  BY <1>4, <1>5 DEF Register, CreateRenter, RemoveUser, MoveOut
<1>6. ASSUME NEW w \in Workers, NEW p \in People, NEW r \in Roles,
             CreateUser(w, p, r) \/ LinkUser(w, p, r)
      PROVE  HolderInv'
  BY <1>4, <1>6 DEF CreateUser, LinkUser
<1>7. ASSUME NEW w \in Workers, NEW p \in People, NEW g \in Goals, UpdateUser(w, p, g)
      PROVE  HolderInv'
  BY <1>4, <1>7 DEF UpdateUser
<1>8. ASSUME NEW w \in Workers, Deactivate(w) PROVE HolderInv'
  BY <1>4, <1>8 DEF Deactivate
<1>9. ASSUME NEW w \in Workers, NEW status, NEW others, Insert(w, status, others) PROVE HolderInv'
  BY <1>1, <1>2, <1>9 DEF Insert, Labels
<1>10. ASSUME NEW w \in Workers, Enroll(w) \/ CreateAccount(w) \/ LinkAccount(w) \/ AssignRenter(w)
       PROVE  HolderInv'
  BY <1>9, <1>10 DEF Enroll, CreateAccount, LinkAccount, AssignRenter
<1>11. ASSUME NEW w \in Workers,
              StoreUpdate(w) \/ SoftDelete(w) \/ DeactivateLinkedAccount(w)
                 \/ DeactivateLinkedAccounts(w)
       PROVE  HolderInv'
  <2>1. PICK guarded \in BOOLEAN : Effects(w, "idle", {}, guarded)
    BY <1>11 DEF StoreUpdate, SoftDelete, DeactivateLinkedAccount, DeactivateLinkedAccounts
  <2> QED
    BY <1>1, <2>1
<1>12. ASSUME NEW p \in People, SwitchHousehold(p) PROVE HolderInv'
  <2>1. /\ UNCHANGED <<pc, taken>>
        /\ \A v \in Workers : ~overtaken'[v] =>
              ~overtaken[v] /\ (v \in SawNoHolder => Holders' \subseteq Holders)
    BY <1>12 DEF SwitchHousehold
  <2>2. SawNoHolder' = SawNoHolder
    BY <2>1 DEF SawNoHolder
  <2> QED
    BY <2>1, <2>2 DEF HolderInv, NoHolder
<1>13. ASSUME NEW p \in People, NEW h \in {"here", "away"}, AddResident(p, h) PROVE HolderInv'
  <2>1. home[p] = "none" /\ home' = [home EXCEPT ![p] = h] /\ UNCHANGED <<user, pc, overtaken>>
        /\ \A v \in Workers : taken[v] => taken'[v]
    BY <1>13 DEF AddResident, Stranger
  <2>2. Holders' = Holders /\ SawNoHolder' = SawNoHolder
    BY <1>t, <2>1 DEF Holders, SawNoHolder, TypeOK
  <2> QED
    BY <2>1, <2>2 DEF HolderInv, NoHolder
<1>14. CASE UNCHANGED vars
  BY <1>14 DEF vars, rows, locals, HolderInv, NoHolder, SawNoHolder, Holders
<1> QED
  BY <1>3, <1>5, <1>6, <1>7, <1>8, <1>10, <1>11, <1>12, <1>13, <1>14 DEF Next, Newcomers, Officers

\* Only its own request gives a newcomer an account.
LEMMA NewcomerIsAdded ==
    ASSUME TypeInv, [Next]_vars, NEW w \in Workers, pc[w] \in {"enrolling", "creating"},
           user'[who[w]] # user[who[w]]
    PROVE  Insert(w, "PENDING", user) \/ Insert(w, "ACTIVE", user)
<1> SUFFICES ASSUME ~(Insert(w, "PENDING", user) \/ Insert(w, "ACTIVE", user))
             PROVE  user'[who[w]] = user[who[w]]
  OBVIOUS
<1>t. TypeOK /\ \A v \in Workers : About(pc[v], who[v]) /\ Alone(v)
  BY DEF TypeInv
<1>1. who[w] \in People /\ user[who[w]] = "none" /\ \A v \in Workers : v # w => who[v] # who[w]
  BY <1>t DEF TypeOK, About, Alone, NewcomerLabels
<1>2. ASSUME NEW v \in Workers,
             \/ pc[v] \in {"linking", "renting", "updating", "deleting", "movingOut", "closing"}
             \/ Enroll(v) \/ CreateAccount(v),
             \/ user' = user
             \/ \E s : user' = [user EXCEPT ![who[v]] = s]
             \/ user' = [p \in People |-> IF p \in ActiveHere THEN "INACTIVE" ELSE user[p]]
             \/ \E s : user' = [[p \in People |-> IF p \in ActiveHere THEN "INACTIVE" ELSE user[p]]
                                EXCEPT ![who[v]] = s]
      PROVE  user'[who[w]] = user[who[w]]
  <2>1. v # w
    BY <1>2 DEF Enroll, CreateAccount
  <2>2. who[v] # who[w] /\ who[w] \notin ActiveHere
    BY <1>1, <2>1 DEF ActiveHere
  <2> QED
    BY <1>t, <1>1, <1>2, <2>2 DEF TypeOK
<1>3. ASSUME NEW v \in Workers,
             Enroll(v) \/ CreateAccount(v) \/ LinkAccount(v) \/ AssignRenter(v) \/ StoreUpdate(v)
                \/ SoftDelete(v) \/ DeactivateLinkedAccount(v) \/ DeactivateLinkedAccounts(v)
      PROVE  user'[who[w]] = user[who[w]]
  <2>1. CASE Enroll(v) \/ CreateAccount(v)
    BY <1>2, <2>1 DEF Enroll, CreateAccount, Insert, Goto, rows
  <2>2. CASE LinkAccount(v)
    BY <1>2, <2>2 DEF LinkAccount, Insert, Goto, rows, At
  <2>3. CASE AssignRenter(v)
    BY <1>2, <2>3 DEF AssignRenter, Insert, Goto, rows, At
  <2>4. CASE StoreUpdate(v)
    BY <1>2, <2>4 DEF StoreUpdate, At
  <2>5. CASE SoftDelete(v)
    BY <1>2, <2>5 DEF SoftDelete, At
  <2>6. CASE DeactivateLinkedAccount(v)
    BY <1>2, <2>6 DEF DeactivateLinkedAccount, At
  <2>7. CASE DeactivateLinkedAccounts(v)
    BY <1>2, <2>7 DEF DeactivateLinkedAccounts, At
  <2> QED
    BY <1>3, <2>1, <2>2, <2>3, <2>4, <2>5, <2>6, <2>7
<1>4. ASSUME NEW v \in Workers, NEW label, Goto(v, label) PROVE user' = user
  BY <1>4 DEF Goto, rows
<1>5. ASSUME NEW v \in Workers, NEW label, NEW p, NEW g, Begin(v, label, p, g) PROVE user' = user
  BY <1>5 DEF Begin, rows
<1> QED
  BY <1>3, <1>4, <1>5
  DEF Next, Newcomers, Officers, Register, CreateRenter, CreateUser, LinkUser, FindNoUser,
      NumberResident, NumberUser, NumberLinkedUser, NumberRenter, RemoveUser, MoveOut, UpdateUser,
      GuardUpdate, GuardRemoval, Deactivate, SwitchHousehold, AddResident, vars, rows

\* Whoever registers, or is added as a newcomer, holds the household alone, unless
\* another became a holder by a way that takes no number of theirs.
THEOREM NewcomersAreAlone == Spec => NewHolderIsAlone
<1> DEFINE A == \A w \in Workers :
                  pc[w] \in {"enrolling", "creating"} /\ ~overtaken[w] /\ user'[who[w]] # user[who[w]]
                     => Holders' = {who[w]}
<1>1. Init => TypeInv /\ HolderInv
  <2>1. Init => HolderInv
    BY DEF Init, HolderInv, NoHolder, SawNoHolder
  <2> QED
    BY <2>1, TypeInit
<1>2. (TypeInv /\ HolderInv) /\ [Next]_vars => (TypeInv /\ HolderInv)'
  BY TypeStep, HolderStep
<1>3. (TypeInv /\ HolderInv) /\ [Next]_vars => [A]_vars
  <2> SUFFICES ASSUME TypeInv, HolderInv, [Next]_vars, NEW w \in Workers,
                      pc[w] \in {"enrolling", "creating"}, ~overtaken[w],
                      user'[who[w]] # user[who[w]]
               PROVE  Holders' = {who[w]}
    OBVIOUS
  <2>1. PICK status \in {"PENDING", "ACTIVE"} : Insert(w, status, user)
    BY NewcomerIsAdded
  <2>2. who[w] \in People /\ home[who[w]] = "none" /\ TypeOK
    BY DEF TypeInv, About, NewcomerLabels
  <2>3. ~taken[w] /\ home' = [home EXCEPT ![who[w]] = "here"]
        /\ user' = [user EXCEPT ![who[w]] = status]
    BY <2>1, <2>2 DEF Insert, Goto, rows
  <2>4. Holders = {}
    BY <2>3 DEF HolderInv, NoHolder, SawNoHolder
  <2> QED
    BY <2>2, <2>3, <2>4 DEF Holders, TypeOK
<1> QED
  BY <1>1, <1>2, <1>3, PTL DEF Spec, NewHolderIsAlone
=============================================================================
