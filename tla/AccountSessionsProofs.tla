------------------------ MODULE AccountSessionsProofs ------------------------
(***************************************************************************)
(* What AccountSessions promises holds for any number of requests, tokens  *)
(* and permitted failures.                                                 *)
(***************************************************************************)
EXTENDS AccountSessions, TLAPS

-----------------------------------------------------------------------------
(* Types.  That what was ended is a set of tokens needs to know that every *)
(* token that was issued descends from one that was issued.                *)

Chained ==
    /\ \A t \in Tokens : token[t] # "none" => chain[t] \in Tokens /\ token[chain[t]] # "none"
    /\ \A w \in Workers :
          /\ tok[w] # 0 => token[tok[w]] # "none"
          /\ pc[w] \in {"checking", "rotating", "expiring"} => tok[w] # 0
    /\ \A c \in ended : token[c] # "none"

TypeInv == TypeOK /\ Chained

LEMMA TypeInit == Init => TypeInv
<1> SUFFICES ASSUME Init PROVE TypeInv
  OBVIOUS
<1>1. TypeOK
  BY DEF Init, TypeOK, UserStatus, Labels
<1>2. Chained
  BY DEF Init, Chained
<1> QED
  BY <1>1, <1>2 DEF TypeInv

\* What a worker holds keeps its type from step to step.
LEMMA StepTypes ==
    ASSUME TypeOK, NEW w \in Workers, NEW label \in Labels, NEW late, Step(w, label, late)
    PROVE  /\ pc' \in [Workers -> Labels] /\ tok' \in [Workers -> Tokens \cup {0}]
           /\ seen' \in [Workers -> Nat] /\ goal' \in [Workers -> UserStatus]
           /\ overtaken' \in [Workers -> BOOLEAN]
           /\ \A v \in Workers : tok'[v] \in {tok[v], 0}
           /\ \A v \in Workers : v # w =>
                 /\ tok'[v] = tok[v] /\ pc'[v] = pc[v] /\ seen'[v] = seen[v] /\ goal'[v] = goal[v]
                 /\ overtaken'[v] = (overtaken[v] \/ v \in late)
           /\ pc'[w] = label /\ (label # "idle" => tok'[w] = tok[w])
<1>1. /\ pc' = [pc EXCEPT ![w] = label] /\ overtaken' \in [Workers -> BOOLEAN]
      /\ \A v \in Workers : v # w => overtaken'[v] = (overtaken[v] \/ v \in late)
  BY DEF TypeOK, Step
<1>2. /\ tok' = tok \/ (label = "idle" /\ tok' = [tok EXCEPT ![w] = 0])
      /\ seen' = seen \/ seen' = [seen EXCEPT ![w] = 0]
      /\ goal' = goal \/ goal' = [goal EXCEPT ![w] = "ACTIVE"]
  BY DEF Step
<1> QED
  BY <1>1, <1>2 DEF TypeOK, UserStatus

\* Revoking brings no token back, and issues none.
LEMMA RevokeTypes ==
    ASSUME TypeOK, NEW ts, RevokeAll(ts), \A t \in ts : t \in Tokens => token[t] # "none"
    PROVE  /\ token' \in [Tokens -> {"none", "live", "revoked"}] /\ strays' \subseteq Tokens
           /\ \A t \in Tokens : token'[t] = "none" <=> token[t] = "none"
  BY DEF TypeOK, RevokeAll

LEMMA EndTypes ==
    ASSUME TypeInv, NEW kept, EndAllBut(kept)
    PROVE  ended' \subseteq Tokens /\ \A c \in ended' : token[c] # "none"
  BY DEF TypeInv, TypeOK, Chained, EndAllBut, Chains, Live, Issuing

\* The handler goes on and no token is issued: what is left to show.
LEMMA ChainedKept ==
    ASSUME TypeInv, NEW w \in Workers, NEW label \in Labels, NEW late, Step(w, label, late),
           label \in {"checking", "rotating", "expiring"} => tok[w] # 0,
           chain' = chain, token' \in [Tokens -> {"none", "live", "revoked"}],
           \A t \in Tokens : token'[t] = "none" <=> token[t] = "none",
           ended' \subseteq Tokens, \A c \in ended' : token[c] # "none"
    PROVE  Chained'
  BY StepTypes DEF TypeInv, TypeOK, Chained

LEMMA TypeStep == TypeInv /\ [Next]_vars => TypeInv'
<1> SUFFICES ASSUME TypeInv, [Next]_vars PROVE TypeInv'
  OBVIOUS
<1>t. TypeOK /\ Chained
  BY DEF TypeInv
<1>1. ASSUME NEW w \in Workers, NEW label \in Labels, NEW late, Step(w, label, late),
             label \in {"checking", "rotating", "expiring"} => tok[w] # 0,
             UNCHANGED chain, attempts' \in Nat, fails' \in Nat,
             locked' \in BOOLEAN, deleted' \in BOOLEAN, skewed' \in BOOLEAN,
             account' \in {"PENDING", "ACTIVE", "DISABLED"}, user' \in UserStatus,
             \/ UNCHANGED <<token, strays>>
             \/ token' = token /\ strays' = strays \cup Live
             \/ \E ts : RevokeAll(ts) /\ \A t \in ts : t \in Tokens => token[t] # "none",
             \/ UNCHANGED ended
             \/ \E kept : EndAllBut(kept)
             \/ \E t \in Tokens : token[t] = "live" /\ ended' = ended \cup {chain[t]}
      PROVE  TypeInv'
  <2>1. /\ token' \in [Tokens -> {"none", "live", "revoked"}] /\ strays' \subseteq Tokens
        /\ \A t \in Tokens : token'[t] = "none" <=> token[t] = "none"
    BY <1>t, <1>1, RevokeTypes DEF TypeOK, Live
  <2>2. ended' \subseteq Tokens /\ \A c \in ended' : token[c] # "none"
    BY <1>t, <1>1, EndTypes DEF TypeOK, Chained
  <2>3. Chained'
    BY <1>1, <2>1, <2>2, ChainedKept
  <2>4. TypeOK'
    BY <1>t, <1>1, <2>1, <2>2, StepTypes DEF TypeOK
  <2> QED
    BY <2>3, <2>4 DEF TypeInv
<1>2. ASSUME NEW w \in Workers, NEW label \in Labels, NEW t \in Tokens \cup {0},
             NEW g \in UserStatus, Begin(w, label, t, g),
             t # 0 => token[t] # "none",
             label \in {"checking", "rotating", "expiring"} => t # 0,
             UNCHANGED <<row, history>>
      PROVE  TypeInv'
  BY <1>t, <1>2 DEF TypeInv, TypeOK, Chained, Begin, row, history
<1>3. ASSUME NEW w \in Workers, IssueRefreshToken(w) PROVE TypeInv'
  <2>1. PICK t \in Tokens :
          /\ token[t] = "none"
          /\ token' = [token EXCEPT ![t] = "live"]
          /\ chain' = [chain EXCEPT ![t] =
                IF tok[w] = 0 \/ overtaken[w] THEN t ELSE chain[tok[w]]]
          /\ strays' = IF overtaken[w] THEN strays \cup {t} ELSE strays
    BY <1>3 DEF IssueRefreshToken
  <2>2. Step(w, "idle", {}) /\ "idle" \in Labels
        /\ UNCHANGED <<attempts, locked, account, user, deleted, ended, fails, skewed>>
    BY <1>3 DEF IssueRefreshToken, Labels
  <2>3. /\ token' \in [Tokens -> {"none", "live", "revoked"}]
        /\ chain' \in [Tokens -> Tokens \cup {0}] /\ strays' \subseteq Tokens
    BY <1>t, <2>1 DEF TypeOK
  <2>4. TypeOK'
    BY <1>t, <2>2, <2>3, StepTypes DEF TypeOK
  <2>5. \A s \in Tokens : token'[s] # "none" => chain'[s] \in Tokens /\ token'[chain'[s]] # "none"
    BY <1>t, <2>1 DEF TypeOK, Chained
  <2>6. \A v \in Workers : tok'[v] # 0 => token'[tok'[v]] # "none"
    BY <1>t, <2>1, <2>2, StepTypes DEF TypeOK, Chained
  <2>7. \A v \in Workers : pc'[v] \in {"checking", "rotating", "expiring"} => tok'[v] # 0
    BY <1>t, <2>2, StepTypes DEF TypeOK, Chained
  <2>8. \A c \in ended' : token'[c] # "none"
    BY <1>t, <2>1, <2>2 DEF TypeOK, Chained
  <2> QED
    BY <2>4, <2>5, <2>6, <2>7, <2>8 DEF TypeInv, Chained
<1>4. ASSUME NEW w \in Workers, Login(w) PROVE TypeInv'
  <2>1. CASE LoginWrong(w)
    BY <1>2, <2>1 DEF LoginWrong, Labels, UserStatus
  <2>2. CASE LoginRight(w)
    BY <1>2, <2>2 DEF LoginRight, Labels, UserStatus
  <2>3. CASE CountAttempts(w)
    BY <1>t, <2>3 DEF CountAttempts, TypeInv, TypeOK, Chained, row, history, Labels
  <2>4. CASE RecordFailedAttempt(w)
    BY <1>t, <1>1, <2>4 DEF RecordFailedAttempt, WriteCount, TypeOK, Labels
  <2>5. CASE ClearFailedAttempts(w)
    BY <1>t, <1>1, <2>5 DEF ClearFailedAttempts, TypeOK, Labels
  <2> QED
    BY <1>3, <1>4, <2>1, <2>2, <2>3, <2>4, <2>5 DEF Login
<1>5. ASSUME NEW w \in Workers, RefreshOrLogout(w) PROVE TypeInv'
  <2>1. ASSUME NEW t \in Tokens, Refresh(w, t) PROVE TypeInv'
    <3>1. PICK label \in {"checking", "expiring"} : Begin(w, label, t, "ACTIVE")
      BY <2>1 DEF Refresh
    <3>2. t # 0 /\ token[t] # "none" /\ UNCHANGED <<row, history>>
      BY <2>1 DEF Refresh, Tokens
    <3> QED
      BY <1>2, <3>1, <3>2 DEF Labels, UserStatus
  <2>2. ASSUME NEW t \in Tokens, Logout(w, t) PROVE TypeInv'
    <3>1. /\ Step(w, "idle", IssuingFor(chain[t])) /\ RevokeAll({t}) /\ token[t] # "none"
          /\ ended' = ended \/ (token[t] = "live" /\ ended' = ended \cup {chain[t]})
          /\ UNCHANGED <<attempts, locked, account, user, deleted, chain, fails, skewed>>
      BY <2>2 DEF Logout
    <3> QED
      BY <1>t, <1>1, <3>1 DEF TypeOK, Labels
  <2>3. CASE RevokeExpired(w)
    <3>1. tok[w] # 0 => token[tok[w]] # "none"
      BY <1>t DEF Chained
    <3> QED
      BY <1>t, <1>1, <2>3, <3>1 DEF RevokeExpired, TypeOK, Labels, Tokens
  <2>4. CASE CheckAccount(w)
    BY <1>t, <1>1, <2>4 DEF CheckAccount, At, TypeOK, Chained, Labels, row, history
  <2>5. CASE Rotate(w)
    <3>1. tok[w] # 0 => token[tok[w]] # "none"
      BY <1>t DEF Chained
    <3> QED
      BY <1>t, <1>1, <2>5, <3>1 DEF Rotate, TypeOK, Labels, Tokens
  <2> QED
    BY <1>5, <2>1, <2>2, <2>3, <2>4, <2>5 DEF RefreshOrLogout
<1>6. ASSUME NEW w \in Workers, Password(w) PROVE TypeInv'
  <2>1. ASSUME NEW t \in Tokens \cup {0}, ChangePassword(w, t) PROVE TypeInv'
    BY <1>2, <2>1 DEF ChangePassword, Labels, UserStatus
  <2>2. CASE StorePassword(w)
    BY <1>t, <1>1, <2>2 DEF StorePassword, TypeOK, Labels, Live
  <2>3. CASE ResetPassword(w)
    BY <1>2, <2>3 DEF ResetPassword, Labels, UserStatus
  <2>4. CASE StoreReset(w)
    BY <1>t, <1>1, <2>4 DEF StoreReset, TypeOK, Labels, Live
  <2> QED
    BY <1>6, <2>1, <2>2, <2>3, <2>4 DEF Password
<1>7. ASSUME NEW w \in Workers, Officer(w) PROVE TypeInv'
  <2>1. ASSUME NEW s \in {"ACTIVE", "SUSPENDED"}, UpdateUser(w, s) PROVE TypeInv'
    BY <1>2, <2>1 DEF UpdateUser, Labels, UserStatus
  <2>2. CASE SetUserStatus(w)
    BY <1>t, <1>1, <2>2 DEF SetUserStatus, TypeOK, Labels
  <2>3. CASE ActivateAccount(w)
    BY <1>t, <1>1, <2>3 DEF ActivateAccount, TypeOK, Labels, history
  <2>4. CASE RevokeUserSessions(w)
    BY <1>t, <1>1, <2>4 DEF RevokeUserSessions, TypeOK, Labels, Live
  <2>5. CASE RemoveUser(w) \/ MoveOut(w) \/ CloseHousehold(w)
    BY <1>2, <2>5 DEF RemoveUser, MoveOut, CloseHousehold, Labels, UserStatus
  <2>6. CASE SoftDelete(w)
    BY <1>t, <1>1, <2>6 DEF SoftDelete, TypeOK, Labels, UserStatus
  <2>7. CASE DeactivateLinkedAccount(w)
    BY <1>t, <1>1, <2>7 DEF DeactivateLinkedAccount, TypeOK, Labels, UserStatus, Live
  <2>8. CASE DeactivateLinkedAccounts(w)
    BY <1>t, <1>1, <2>8 DEF DeactivateLinkedAccounts, TypeOK, Labels, UserStatus
  <2> QED
    BY <1>7, <2>1, <2>2, <2>3, <2>4, <2>5, <2>6, <2>7, <2>8 DEF Officer
<1>8. CASE LockPasses \/ UNCHANGED vars
  BY <1>t, <1>8 DEF LockPasses, vars, TypeInv, TypeOK, Chained, history, locals
<1> QED
  BY <1>4, <1>5, <1>6, <1>7, <1>8 DEF Next

\* Every variable keeps its type, and every login that was ended was one.
THEOREM TypeCorrect == Spec => []TypeOK
<1>1. TypeInv => TypeOK
  BY DEF TypeInv
<1> QED
  BY <1>1, TypeInit, TypeStep, PTL DEF Spec

-----------------------------------------------------------------------------
(* The count and the lock.                                                 *)

\* Whoever will write the count knows it, or is known to be late.
CountKnown ==
    \A w \in Workers : pc[w] = "recording" => overtaken[w] \/ seen[w] = attempts

CountInv == TypeInv /\ CountKnown /\ CountIsExact

\* A step that has nothing to do with the count.
LEMMA CountUntouched ==
    ASSUME CountKnown, CountIsExact, UNCHANGED <<attempts, locked, fails, skewed>>,
           \A v \in Workers : pc'[v] = "recording" =>
               /\ pc[v] = "recording" /\ seen'[v] = seen[v]
               /\ overtaken[v] => overtaken'[v]
    PROVE  CountKnown' /\ CountIsExact'
  BY DEF CountKnown, CountIsExact

LEMMA CountStep == CountInv /\ [Next]_vars => CountKnown' /\ CountIsExact'
<1> SUFFICES ASSUME CountInv, [Next]_vars PROVE CountKnown' /\ CountIsExact'
  OBVIOUS
<1>t. TypeOK /\ CountKnown /\ CountIsExact
  BY DEF CountInv, TypeInv
<1>1. ASSUME NEW w \in Workers, NEW label \in Labels \ {"recording"}, NEW late,
             Step(w, label, late), UNCHANGED <<attempts, locked, fails, skewed>>
      PROVE  CountKnown' /\ CountIsExact'
  BY <1>t, <1>1, StepTypes, CountUntouched
<1>2. ASSUME NEW w \in Workers, NEW label \in Labels \ {"recording"}, NEW t, NEW g,
             Begin(w, label, t, g), UNCHANGED <<row, history>>
      PROVE  CountKnown' /\ CountIsExact'
  BY <1>t, <1>2, CountUntouched DEF Begin, TypeOK, row, history
<1>3. ASSUME NEW w \in Workers, RecordFailedAttempt(w) PROVE CountKnown' /\ CountIsExact'
  <2>1. /\ attempts' = seen[w] + 1 /\ fails' = fails + 1
        /\ locked' = (seen[w] + 1 >= MaxAttempts) /\ skewed' = (skewed \/ overtaken[w])
        /\ pc[w] = "recording" /\ Step(w, "idle", Counting)
    BY <1>3 DEF RecordFailedAttempt, WriteCount, At
  <2>2. CountIsExact'
    BY <1>t, <2>1 DEF CountKnown, CountIsExact, TypeOK
  <2>3. CountKnown'
    BY <1>t, <2>1, StepTypes DEF CountKnown, Counting, Labels
  <2> QED
    BY <2>2, <2>3
<1>4. ASSUME NEW w \in Workers, ClearFailedAttempts(w) PROVE CountKnown' /\ CountIsExact'
  <2>1. PICK label \in {"issuing", "idle"} : Step(w, label, Counting)
    BY <1>4 DEF ClearFailedAttempts
  <2>2. CountKnown'
    BY <1>t, <2>1, StepTypes DEF CountKnown, Counting, Labels
  <2>3. CountIsExact'
    BY <1>4 DEF ClearFailedAttempts, CountIsExact
  <2> QED
    BY <2>2, <2>3
<1>5. ASSUME NEW w \in Workers, Login(w) PROVE CountKnown' /\ CountIsExact'
  <2>1. CASE LoginWrong(w) \/ LoginRight(w)
    BY <1>2, <2>1 DEF LoginWrong, LoginRight, Labels
  <2>2. CASE CountAttempts(w)
    BY <1>t, <2>2 DEF CountAttempts, CountKnown, CountIsExact, TypeOK, row, history
  <2>3. CASE IssueRefreshToken(w)
    BY <1>1, <2>3 DEF IssueRefreshToken, Labels
  <2> QED
    BY <1>3, <1>4, <1>5, <2>1, <2>2, <2>3 DEF Login
<1>6. ASSUME NEW w \in Workers, RefreshOrLogout(w) PROVE CountKnown' /\ CountIsExact'
  BY <1>1, <1>2, <1>6 DEF RefreshOrLogout, Refresh, Logout, RevokeExpired, CheckAccount, Rotate,
                          row, history, Labels
<1>7. ASSUME NEW w \in Workers, Password(w) PROVE CountKnown' /\ CountIsExact'
  BY <1>1, <1>2, <1>7 DEF Password, ChangePassword, StorePassword, ResetPassword, StoreReset,
                          Labels
<1>8. ASSUME NEW w \in Workers, Officer(w) PROVE CountKnown' /\ CountIsExact'
  BY <1>1, <1>2, <1>8 DEF Officer, UpdateUser, SetUserStatus, ActivateAccount,
        RevokeUserSessions, RemoveUser, SoftDelete, MoveOut, DeactivateLinkedAccount,
        CloseHousehold, DeactivateLinkedAccounts, history, Labels
<1>9. CASE LockPasses
  BY <1>t, <1>9 DEF LockPasses, CountKnown, CountIsExact, history, locals
<1>10. CASE UNCHANGED vars
  BY <1>t, <1>10, CountUntouched DEF vars
<1> QED
  BY <1>5, <1>6, <1>7, <1>8, <1>9, <1>10 DEF Next

LEMMA CountInvInductive == (Init => CountInv) /\ (CountInv /\ [Next]_vars => CountInv')
<1>1. Init => CountInv
  <2> SUFFICES ASSUME Init PROVE CountInv
    OBVIOUS
  <2>1. TypeInv
    BY TypeInit
  <2> QED
    BY <2>1 DEF Init, CountInv, CountKnown, CountIsExact
<1>2. CountInv /\ [Next]_vars => CountInv'
  BY TypeStep, CountStep DEF CountInv
<1> QED
  BY <1>1, <1>2

\* Unless two counts overlapped, the stored count is the number of failures and a
\* lock stands for enough of them.
THEOREM CountStaysExact == Spec => []CountIsExact
<1>1. CountInv => CountIsExact
  BY DEF CountInv
<1> QED
  BY <1>1, CountInvInductive, PTL DEF Spec

\* No failure lifts a lock unless another count overtook its own.
THEOREM LockIsHeld == Spec => LockHolds
<1>1. CountInv /\ [Next]_vars =>
          [locked /\ ~locked' => attempts' = attempts \/ attempts' = 0 \/ skewed']_vars
  <2> SUFFICES ASSUME CountInv, Next, locked, ~locked'
               PROVE  attempts' = attempts \/ attempts' = 0 \/ skewed'
    OBVIOUS
  <2>t. TypeOK /\ CountKnown /\ CountIsExact
    BY DEF CountInv, TypeInv
  <2>1. ASSUME NEW w \in Workers, RecordFailedAttempt(w), ~skewed' PROVE FALSE
    <3>1. /\ (seen[w] + 1 >= MaxAttempts => locked') /\ pc[w] = "recording"
          /\ skewed' = (skewed \/ overtaken[w])
      BY <2>1 DEF RecordFailedAttempt, WriteCount, At
    <3>2. ~skewed /\ ~overtaken[w]
      BY <2>1, <3>1
    <3>3. seen[w] = fails /\ fails >= MaxAttempts /\ fails \in Nat
      BY <2>t, <3>1, <3>2 DEF CountKnown, CountIsExact, TypeOK
    <3> QED
      BY <3>1, <3>3, SessionConstants
  <2>2. ASSUME NEW w \in Workers, ClearFailedAttempts(w) PROVE attempts' = 0
    BY <2>2 DEF ClearFailedAttempts
  <2>3. ASSUME NEW w \in Workers, Login(w)
        PROVE  attempts' = attempts \/ attempts' = 0 \/ skewed'
    BY <2>1, <2>2, <2>3 DEF Login, LoginWrong, LoginRight, CountAttempts, IssueRefreshToken, row
  <2>4. ASSUME NEW w \in Workers, RefreshOrLogout(w) \/ Password(w) PROVE attempts' = attempts
    BY <2>4 DEF RefreshOrLogout, Refresh, Logout, RevokeExpired, CheckAccount, Rotate, Password,
                ChangePassword, StorePassword, ResetPassword, StoreReset, row
  <2>5. ASSUME NEW w \in Workers, Officer(w) PROVE attempts' = attempts
    BY <2>5 DEF Officer, UpdateUser, SetUserStatus, ActivateAccount, RevokeUserSessions,
          RemoveUser, SoftDelete, MoveOut, DeactivateLinkedAccount, CloseHousehold,
          DeactivateLinkedAccounts, row
  <2>6. CASE LockPasses
    BY <2>6 DEF LockPasses
  <2> QED
    BY <2>3, <2>4, <2>5, <2>6 DEF Next
<1> QED
  BY <1>1, CountInvInductive, PTL DEF Spec, LockHolds

-----------------------------------------------------------------------------
(* Approval.                                                               *)

LEMMA ApprovedStep == TypeInv /\ ApprovedCanSignIn /\ [Next]_vars => ApprovedCanSignIn'
<1> SUFFICES ASSUME TypeInv, ApprovedCanSignIn, [Next]_vars PROVE ApprovedCanSignIn'
  OBVIOUS
<1>t. TypeOK
  BY DEF TypeInv
<1>1. ASSUME user' = "ACTIVE" => user = "ACTIVE" /\ account' = account,
             \A v \in Workers : pc[v] = "activating" => pc'[v] = "activating"
      PROVE  ApprovedCanSignIn'
  BY <1>1 DEF ApprovedCanSignIn
<1>2. ASSUME NEW w \in Workers, NEW label \in Labels, NEW late, Step(w, label, late),
             pc[w] # "activating", user' = "ACTIVE" => user = "ACTIVE" /\ account' = account
      PROVE  ApprovedCanSignIn'
  BY <1>t, <1>1, <1>2, StepTypes
<1>3. ASSUME NEW w \in Workers, NEW label \in Labels, NEW t, NEW g, Begin(w, label, t, g),
             UNCHANGED <<row, history>>
      PROVE  ApprovedCanSignIn'
  BY <1>t, <1>1, <1>3 DEF Begin, At, TypeOK, row
<1>4. ASSUME NEW w \in Workers, Login(w) PROVE ApprovedCanSignIn'
  <2>1. CASE CountAttempts(w)
    BY <1>t, <1>1, <2>1 DEF CountAttempts, At, TypeOK, row
  <2>2. CASE LoginWrong(w) \/ LoginRight(w)
    BY <1>3, <2>2 DEF LoginWrong, LoginRight, Labels
  <2>3. CASE RecordFailedAttempt(w) \/ ClearFailedAttempts(w) \/ IssueRefreshToken(w)
    BY <1>2, <2>3 DEF RecordFailedAttempt, WriteCount, ClearFailedAttempts, IssueRefreshToken, At,
                      Labels
  <2> QED
    BY <1>4, <2>1, <2>2, <2>3 DEF Login
<1>5. ASSUME NEW w \in Workers, RefreshOrLogout(w) PROVE ApprovedCanSignIn'
  BY <1>2, <1>3, <1>5 DEF RefreshOrLogout, Refresh, Logout, RevokeExpired, CheckAccount, Rotate,
                          At, row, history, Labels
<1>6. ASSUME NEW w \in Workers, Password(w) PROVE ApprovedCanSignIn'
  BY <1>2, <1>3, <1>6 DEF Password, ChangePassword, StorePassword, ResetPassword, StoreReset,
                          At, row, Labels
<1>7. ASSUME NEW w \in Workers, SetUserStatus(w) PROVE ApprovedCanSignIn'
  BY <1>t, <1>7, StepTypes DEF SetUserStatus, ApprovedCanSignIn, Labels
<1>8. ASSUME NEW w \in Workers, ActivateAccount(w) PROVE ApprovedCanSignIn'
  BY <1>8 DEF ActivateAccount, ApprovedCanSignIn
<1>9. ASSUME NEW w \in Workers, Officer(w), ~SetUserStatus(w), ~ActivateAccount(w)
      PROVE  ApprovedCanSignIn'
  BY <1>2, <1>3, <1>9 DEF Officer, UpdateUser, RevokeUserSessions, RemoveUser, SoftDelete,
        MoveOut, DeactivateLinkedAccount, CloseHousehold, DeactivateLinkedAccounts, At, Labels
<1>10. CASE LockPasses \/ UNCHANGED vars
  BY <1>1, <1>10 DEF LockPasses, vars
<1> QED
  BY <1>4, <1>5, <1>6, <1>7, <1>8, <1>9, <1>10 DEF Next

\* Whatever else officers do, an active user has an active account once the
\* approval is through.
THEOREM ApprovedSignsIn == Spec => []ApprovedCanSignIn
<1>1. Init => ApprovedCanSignIn
  BY DEF Init, ApprovedCanSignIn
<1> QED
  BY <1>1, ApprovedStep, TypeInit, TypeStep, PTL DEF Spec

-----------------------------------------------------------------------------
(* Rotation.                                                               *)

\* Workers that will continue the login of their token.
Renewing == {w \in Workers : pc[w] = "issuing" /\ tok[w] # 0 /\ ~overtaken[w]}

\* The token of a worker that nobody overtook is live until the worker revokes
\* it; then its login has no live token, and no other worker continues it.
RotationKnown ==
    /\ \A w \in Workers :
          /\ pc[w] \in {"checking", "rotating"} /\ ~overtaken[w] => token[tok[w]] = "live"
          /\ pc[w] = "clearing" => tok[w] = 0
    /\ \A w \in Renewing :
          /\ \A t \in Live : chain[t] # chain[tok[w]]
          /\ \A v \in Renewing : chain[tok[v]] = chain[tok[w]] => v = w

RotationInv == RotationKnown /\ OneTokenPerLogin

\* No token is issued, and whoever loses his is late.
LEMMA RotationKept ==
    ASSUME TypeInv, RotationInv, UNCHANGED chain,
           \A t \in Tokens : token'[t] = "live" => token[t] = "live",
           \A v \in Workers :
              /\ pc'[v] \in {"checking", "rotating"} =>
                    \/ overtaken'[v]
                    \/ tok'[v] \in Tokens /\ token'[tok'[v]] = "live"
              /\ pc'[v] = "clearing" => tok'[v] = 0
              /\ pc'[v] = "issuing" /\ tok'[v] # 0 /\ ~overtaken'[v] =>
                    v \in Renewing /\ tok'[v] = tok[v]
    PROVE  RotationInv'
<1>1. Live' \subseteq Live /\ Renewing' \subseteq Renewing
  BY DEF Live, Renewing
<1>2. OneTokenPerLogin'
  BY <1>1 DEF RotationInv, OneTokenPerLogin
<1>3. \A w \in Renewing' : tok'[w] = tok[w]
  BY DEF Renewing
<1>4. RotationKnown'
  BY <1>1, <1>3 DEF RotationInv, RotationKnown
<1> QED
  BY <1>2, <1>4 DEF RotationInv

LEMMA RotationStep == TypeInv /\ RotationInv /\ [Next]_vars => RotationInv'
<1> SUFFICES ASSUME TypeInv, RotationInv, [Next]_vars PROVE RotationInv'
  OBVIOUS
<1>t. TypeOK /\ Chained /\ RotationKnown /\ OneTokenPerLogin
  BY DEF TypeInv, RotationInv
<1>1. ASSUME NEW w \in Workers, NEW late,
             NEW label \in Labels \ {"checking", "rotating", "issuing", "clearing"},
             Step(w, label, late), UNCHANGED chain,
             \A t \in Tokens : token'[t] = "live" => token[t] = "live",
             \A v \in Issuing : v # w /\ tok[v] \in Tokens /\ token[tok[v]] = "live"
                                   => v \in late \/ token'[tok[v]] = "live"
      PROVE  RotationInv'
  <2>1. /\ \A v \in Workers : v # w =>
              /\ tok'[v] = tok[v] /\ pc'[v] = pc[v]
              /\ overtaken'[v] = (overtaken[v] \/ v \in late)
        /\ pc'[w] = label
    BY <1>t, <1>1, StepTypes
  <2>2. ASSUME NEW v \in Workers, v # w, pc[v] \in {"checking", "rotating"}, ~overtaken[v],
               v \notin late
        PROVE  tok[v] \in Tokens /\ token'[tok[v]] = "live"
    <3>1. tok[v] \in Tokens /\ token[tok[v]] = "live" /\ v \in Issuing
      BY <1>t, <2>2 DEF TypeOK, Chained, RotationKnown, Issuing
    <3> QED
      BY <1>1, <2>2, <3>1
  <2>3. \A v \in Workers : pc'[v] \in {"checking", "rotating"} =>
            \/ overtaken'[v]
            \/ tok'[v] \in Tokens /\ token'[tok'[v]] = "live"
    BY <2>1, <2>2
  <2>4. \A v \in Workers :
            /\ pc'[v] = "clearing" => tok'[v] = 0
            /\ pc'[v] = "issuing" /\ tok'[v] # 0 /\ ~overtaken'[v] =>
                  v \in Renewing /\ tok'[v] = tok[v]
    BY <1>t, <2>1 DEF RotationKnown, Renewing
  <2> QED
    BY <1>1, <2>3, <2>4, RotationKept
<1>2. ASSUME NEW w \in Workers, NEW label \in Labels \ {"issuing"}, NEW t \in Tokens \cup {0},
             NEW g, Begin(w, label, t, g), UNCHANGED <<row, history>>,
             label \in {"checking", "rotating"} => t \in Tokens /\ token[t] = "live",
             label = "clearing" => t = 0
      PROVE  RotationInv'
  <2>1. /\ pc' = [pc EXCEPT ![w] = label] /\ tok' = [tok EXCEPT ![w] = t]
        /\ UNCHANGED <<token, chain, overtaken>> /\ pc[w] = "idle"
    BY <1>2 DEF Begin, At, row, history
  <2>2. \A v \in Workers :
              /\ pc'[v] \in {"checking", "rotating"} =>
                    \/ overtaken'[v]
                    \/ tok'[v] \in Tokens /\ token'[tok'[v]] = "live"
              /\ pc'[v] = "clearing" => tok'[v] = 0
              /\ pc'[v] = "issuing" /\ tok'[v] # 0 /\ ~overtaken'[v] =>
                    v \in Renewing /\ tok'[v] = tok[v]
    BY <1>t, <1>2, <2>1 DEF TypeOK, Chained, RotationKnown, Renewing
  <2> QED
    BY <2>1, <2>2, RotationKept
<1>3. ASSUME NEW w \in Workers, IssueRefreshToken(w) PROVE RotationInv'
  <2>1. PICK t \in Tokens :
          /\ token[t] = "none"
          /\ token' = [token EXCEPT ![t] = "live"]
          /\ chain' = [chain EXCEPT ![t] =
                IF tok[w] = 0 \/ overtaken[w] THEN t ELSE chain[tok[w]]]
    BY <1>3 DEF IssueRefreshToken
  <2>2. pc[w] = "issuing" /\ Step(w, "idle", {}) /\ "idle" \in Labels
    BY <1>3 DEF IssueRefreshToken, At, Labels
  <2>3. /\ \A v \in Workers : v # w =>
              tok'[v] = tok[v] /\ pc'[v] = pc[v] /\ (overtaken[v] => overtaken'[v])
        /\ pc'[w] = "idle"
    BY <1>t, <2>2, StepTypes
  <2>4. /\ \A s \in Tokens : s # t => chain'[s] = chain[s] /\ token'[s] = token[s]
        /\ token'[t] = "live"
        /\ \A s \in Tokens : token[s] # "none" => s # t /\ chain[s] # t
    BY <1>t, <2>1 DEF TypeOK, Chained
  <2>5. \/ chain'[t] = t
        \/ w \in Renewing /\ tok[w] \in Tokens /\ chain'[t] = chain[tok[w]]
    BY <1>t, <2>1, <2>2 DEF TypeOK, Renewing
  <2>6. \A s \in Live : chain'[t] # chain[s] /\ chain'[s] = chain[s] /\ s # t
    BY <1>t, <2>4, <2>5 DEF RotationKnown, Live
  <2>7. Live' = Live \cup {t}
    BY <2>4, <1>t DEF Live
  <2>8. OneTokenPerLogin'
    BY <1>t, <2>6, <2>7 DEF OneTokenPerLogin
  <2>9. \A v \in Renewing' :
            /\ v \in Renewing /\ v # w /\ tok'[v] = tok[v] /\ tok[v] \in Tokens
            /\ token[tok[v]] # "none"
    BY <1>t, <2>3 DEF Renewing, TypeOK, Chained
  <2>10. \A v \in Renewing' : chain'[tok'[v]] = chain[tok[v]] /\ chain'[t] # chain[tok[v]]
    BY <1>t, <2>4, <2>5, <2>9 DEF RotationKnown
  <2>11. \A v \in Renewing' :
            /\ \A s \in Live' : chain'[s] # chain'[tok'[v]]
            /\ \A u \in Renewing' : chain'[tok'[u]] = chain'[tok'[v]] => u = v
    BY <1>t, <2>6, <2>7, <2>9, <2>10 DEF RotationKnown
  <2>12. \A v \in Workers :
            /\ pc'[v] \in {"checking", "rotating"} /\ ~overtaken'[v] => token'[tok'[v]] = "live"
            /\ pc'[v] = "clearing" => tok'[v] = 0
    BY <1>t, <2>3, <2>4 DEF RotationKnown, TypeOK, Chained
  <2> QED
    BY <2>8, <2>11, <2>12 DEF RotationInv, RotationKnown
<1>4. ASSUME NEW w \in Workers, Rotate(w) PROVE RotationInv'
  <2>1. /\ pc[w] = "rotating" /\ chain' = chain /\ RevokeAll({tok[w]})
        /\ Step(w, "issuing", {v \in Issuing : tok[v] = tok[w]}) /\ "issuing" \in Labels
    BY <1>4 DEF Rotate, At, Labels
  <2>2. /\ \A v \in Workers : v # w =>
              /\ tok'[v] = tok[v] /\ pc'[v] = pc[v]
              /\ overtaken'[v] = (overtaken[v] \/ (v \in Issuing /\ tok[v] = tok[w]))
        /\ pc'[w] = "issuing" /\ tok'[w] = tok[w]
        /\ ~overtaken'[w] => ~overtaken[w]
    <3>1. ~overtaken'[w] => ~overtaken[w]
      BY <2>1 DEF Step
    <3> QED
      BY <1>t, <2>1, <3>1, StepTypes
  <2>3. /\ tok[w] \in Tokens
        /\ Live' = Live \ {tok[w]}
        /\ \A t \in Tokens : t # tok[w] => token'[t] = token[t]
    BY <1>t, <2>1 DEF TypeOK, Chained, RevokeAll, Live
  <2>4. OneTokenPerLogin'
    BY <1>t, <2>1, <2>3 DEF OneTokenPerLogin
  <2>5. w \in Renewing' => \A t \in Live' : chain[t] # chain[tok[w]]
    <3>1. ASSUME w \in Renewing' PROVE tok[w] \in Live
      BY <1>t, <2>1, <2>2, <2>3, <3>1 DEF Renewing, RotationKnown, Live
    <3> QED
      BY <1>t, <2>3, <3>1 DEF OneTokenPerLogin
  <2>6. \A v \in Renewing' : v # w => v \in Renewing
    BY <2>2 DEF Renewing
  <2>7. w \in Renewing' => \A v \in Renewing : chain[tok[v]] # chain[tok[w]]
    BY <1>t, <2>1, <2>2, <2>3 DEF Renewing, RotationKnown, Live
  <2>8. \A v \in Renewing' : tok'[v] = tok[v]
    BY <2>2 DEF Renewing
  <2>9. \A v \in Renewing' :
            /\ \A t \in Live' : chain'[t] # chain'[tok'[v]]
            /\ \A u \in Renewing' : chain'[tok'[u]] = chain'[tok'[v]] => u = v
    BY <1>t, <2>1, <2>3, <2>5, <2>6, <2>7, <2>8 DEF RotationKnown
  <2>10. \A v \in Workers :
            /\ pc'[v] \in {"checking", "rotating"} /\ ~overtaken'[v] => token'[tok'[v]] = "live"
            /\ pc'[v] = "clearing" => tok'[v] = 0
    <3> TAKE v \in Workers
    <3>1. CASE v = w
      BY <2>2, <3>1
    <3>2. CASE v # w /\ pc[v] \in {"checking", "rotating"} /\ ~overtaken'[v]
      <4>1. ~overtaken[v] /\ tok[v] # tok[w]
        BY <2>2, <3>2 DEF Issuing
      <4>2. tok[v] \in Tokens /\ token[tok[v]] = "live"
        BY <1>t, <3>2, <4>1 DEF RotationKnown, TypeOK, Chained
      <4> QED
        BY <2>2, <2>3, <3>2, <4>1, <4>2
    <3>3. CASE v # w /\ ~(pc[v] \in {"checking", "rotating"} /\ ~overtaken'[v])
      BY <1>t, <2>2, <3>3 DEF RotationKnown
    <3> QED
      BY <3>1, <3>2, <3>3
  <2> QED
    BY <2>4, <2>9, <2>10 DEF RotationInv, RotationKnown
<1>5. ASSUME NEW w \in Workers, CheckAccount(w), Active PROVE RotationInv'
  <2>1. /\ pc[w] = "checking" /\ Step(w, "rotating", {}) /\ "rotating" \in Labels
        /\ UNCHANGED <<token, chain>>
    BY <1>5 DEF CheckAccount, At, Labels, row, history
  <2>2. /\ \A v \in Workers :
              tok'[v] = tok[v] /\ (v # w => pc'[v] = pc[v]) /\ (overtaken[v] => overtaken'[v])
        /\ pc'[w] = "rotating"
    <3>1. overtaken[w] => overtaken'[w]
      BY <2>1 DEF Step
    <3> QED
      BY <1>t, <2>1, <3>1, StepTypes
  <2>3. \A v \in Workers :
              /\ pc'[v] \in {"checking", "rotating"} =>
                    \/ overtaken'[v]
                    \/ tok'[v] \in Tokens /\ token'[tok'[v]] = "live"
              /\ pc'[v] = "clearing" => tok'[v] = 0
              /\ pc'[v] = "issuing" /\ tok'[v] # 0 /\ ~overtaken'[v] =>
                    v \in Renewing /\ tok'[v] = tok[v]
    BY <1>t, <2>1, <2>2 DEF RotationKnown, Renewing, TypeOK, Chained
  <2> QED
    BY <2>1, <2>3, RotationKept
<1>6. ASSUME NEW w \in Workers, ClearFailedAttempts(w), goal[w] = "ACTIVE" PROVE RotationInv'
  <2>1. /\ pc[w] = "clearing" /\ Step(w, "issuing", Counting) /\ "issuing" \in Labels
        /\ UNCHANGED <<token, chain>>
    BY <1>6 DEF ClearFailedAttempts, At, Labels
  <2>2. /\ \A v \in Workers :
              tok'[v] = tok[v] /\ (v # w => pc'[v] = pc[v]) /\ (overtaken[v] => overtaken'[v])
        /\ pc'[w] = "issuing"
    <3>1. overtaken[w] => overtaken'[w]
      BY <2>1 DEF Step
    <3> QED
      BY <1>t, <2>1, <3>1, StepTypes
  <2>3. \A v \in Workers :
              /\ pc'[v] \in {"checking", "rotating"} =>
                    \/ overtaken'[v]
                    \/ tok'[v] \in Tokens /\ token'[tok'[v]] = "live"
              /\ pc'[v] = "clearing" => tok'[v] = 0
              /\ pc'[v] = "issuing" /\ tok'[v] # 0 /\ ~overtaken'[v] =>
                    v \in Renewing /\ tok'[v] = tok[v]
    BY <1>t, <2>1, <2>2 DEF RotationKnown, Renewing, TypeOK, Chained
  <2> QED
    BY <2>1, <2>3, RotationKept
<1>7. ASSUME NEW w \in Workers, Login(w) PROVE RotationInv'
  <2>1. CASE LoginWrong(w) \/ LoginRight(w)
    BY <1>2, <2>1 DEF LoginWrong, LoginRight, Labels
  <2>2. CASE CountAttempts(w)
    <3>1. /\ UNCHANGED <<token, chain, tok, overtaken>> /\ pc' = [pc EXCEPT ![w] = "recording"]
      BY <2>2 DEF CountAttempts, row, history
    <3>2. \A v \in Workers :
              /\ pc'[v] \in {"checking", "rotating"} =>
                    \/ overtaken'[v]
                    \/ tok'[v] \in Tokens /\ token'[tok'[v]] = "live"
              /\ pc'[v] = "clearing" => tok'[v] = 0
              /\ pc'[v] = "issuing" /\ tok'[v] # 0 /\ ~overtaken'[v] =>
                    v \in Renewing /\ tok'[v] = tok[v]
      BY <1>t, <3>1 DEF TypeOK, Chained, RotationKnown, Renewing
    <3> QED
      BY <3>1, <3>2, RotationKept
  <2>3. CASE RecordFailedAttempt(w)
    BY <1>1, <2>3 DEF RecordFailedAttempt, WriteCount, Labels
  <2>4. CASE ClearFailedAttempts(w) /\ goal[w] # "ACTIVE"
    BY <1>1, <2>4 DEF ClearFailedAttempts, Labels
  <2> QED
    BY <1>3, <1>6, <1>7, <2>1, <2>2, <2>3, <2>4 DEF Login
<1>8. ASSUME NEW w \in Workers, RefreshOrLogout(w) PROVE RotationInv'
  <2>1. ASSUME NEW t \in Tokens, Refresh(w, t) PROVE RotationInv'
    BY <1>2, <2>1 DEF Refresh, Labels
  <2>2. ASSUME NEW t \in Tokens, Logout(w, t) PROVE RotationInv'
    BY <1>1, <2>2 DEF Logout, RevokeAll, IssuingFor, Labels, Tokens
  <2>3. CASE RevokeExpired(w)
    BY <1>1, <2>3 DEF RevokeExpired, RevokeAll, IssuingFor, Labels, Tokens
  <2>4. CASE CheckAccount(w) /\ ~Active
    BY <1>1, <2>4 DEF CheckAccount, row, history, Labels
  <2> QED
    BY <1>4, <1>5, <1>8, <2>1, <2>2, <2>3, <2>4 DEF RefreshOrLogout
<1>9. ASSUME NEW w \in Workers, Password(w) PROVE RotationInv'
  <2>1. CASE StorePassword(w)
    BY <1>1, <2>1 DEF StorePassword, RevokeAll, Labels
  <2>2. CASE StoreReset(w)
    BY <1>1, <2>2 DEF StoreReset, RevokeAll, Labels
  <2>3. CASE ResetPassword(w)
    BY <1>2, <2>3 DEF ResetPassword, Labels
  <2>4. ASSUME NEW t \in Tokens \cup {0}, ChangePassword(w, t) PROVE RotationInv'
    BY <1>2, <2>4 DEF ChangePassword, Labels
  <2> QED
    BY <1>9, <2>1, <2>2, <2>3, <2>4 DEF Password
<1>10. ASSUME NEW w \in Workers, Officer(w) PROVE RotationInv'
  <2>1. CASE \/ \E s \in {"ACTIVE", "SUSPENDED"} : UpdateUser(w, s)
             \/ RemoveUser(w) \/ MoveOut(w) \/ CloseHousehold(w)
    BY <1>2, <2>1 DEF UpdateUser, RemoveUser, MoveOut, CloseHousehold, Labels
  <2>2. CASE SetUserStatus(w) \/ ActivateAccount(w) \/ SoftDelete(w) \/ DeactivateLinkedAccounts(w)
    BY <1>1, <2>2 DEF SetUserStatus, ActivateAccount, SoftDelete, DeactivateLinkedAccounts,
                      history, Labels
  <2>3. CASE RevokeUserSessions(w) \/ DeactivateLinkedAccount(w)
    BY <1>1, <2>3 DEF RevokeUserSessions, DeactivateLinkedAccount, RevokeAll, Labels
  <2> QED
    BY <1>10, <2>1, <2>2, <2>3 DEF Officer
<1>11. CASE LockPasses \/ UNCHANGED vars
  BY <1>t, <1>11 DEF LockPasses, vars, history, locals, RotationInv, RotationKnown, Renewing, Live,
                     OneTokenPerLogin
<1> QED
  BY <1>7, <1>8, <1>9, <1>10, <1>11 DEF Next

LEMMA RotationInit == Init => RotationInv
  BY DEF Init, RotationInv, RotationKnown, OneTokenPerLogin, Renewing, Live

\* One login has one live token, however often it was refreshed, by however many
\* requests at once.
THEOREM OneLoginOneToken == Spec => []OneTokenPerLogin
<1>1. RotationInv => OneTokenPerLogin
  BY DEF RotationInv
<1> QED
  BY <1>1, TypeInit, TypeStep, RotationInit, RotationStep, PTL DEF Spec

-----------------------------------------------------------------------------
(* Ended logins.                                                           *)

\* No officer's handler is about to revoke.
Quiet == \A w \in Workers : pc[w] # "revoking"

\* Workers that have read what is still so, and will issue a token for it.
Timely == {w \in Issuing : ~overtaken[w]}

EndInv ==
    Quiet =>
        /\ \A t \in Live : chain[t] \notin ended
        /\ \A w \in Timely : tok[w] # 0 => chain[tok[w]] \notin ended

\* Nothing is ended, no token appears, and nobody is more timely than before.
LEMMA EndKept ==
    ASSUME EndInv, UNCHANGED <<chain, ended>>, Quiet' => Quiet, Live' \subseteq Live,
           \A w \in Timely' : tok'[w] # 0 => w \in Timely /\ tok'[w] = tok[w]
    PROVE  EndInv'
  BY DEF EndInv

\* A handler that goes on makes nobody more timely.
LEMMA TimelyKept ==
    ASSUME TypeOK, NEW w \in Workers, NEW label \in Labels, NEW late, Step(w, label, late),
           label \in {"clearing", "checking", "rotating", "issuing"} => w \in Issuing
    PROVE  \A v \in Timely' : v \in Timely /\ (v # w => v \notin late) /\ tok'[v] = tok[v]
<1>1. \A v \in Workers : v # w /\ ~overtaken'[v] => ~overtaken[v] /\ v \notin late
  BY StepTypes
<1>2. label # "idle" /\ ~overtaken'[w] => ~overtaken[w]
  BY DEF Step
<1> QED
  BY <1>1, <1>2, StepTypes DEF Timely, Issuing

\* Everything live is revoked and everybody is late.
LEMMA EndAll ==
    ASSUME TypeOK, NEW w \in Workers, Step(w, "idle", Issuing), RevokeAll(Live)
    PROVE  Live' = {} /\ Timely' = {} /\ EndInv'
<1>1. Live' = {}
  BY DEF TypeOK, RevokeAll, Live
<1>2. "idle" \in Labels
  BY DEF Labels
<1>3. Timely' = {}
  BY <1>2, TimelyKept, StepTypes DEF Timely, Issuing
<1> QED
  BY <1>1, <1>3 DEF EndInv

LEMMA EndStep == TypeInv /\ RotationInv /\ EndInv /\ [Next]_vars => EndInv'
<1> SUFFICES ASSUME TypeInv, RotationInv, EndInv, [Next]_vars PROVE EndInv'
  OBVIOUS
<1>t. TypeOK /\ Chained /\ RotationKnown /\ OneTokenPerLogin
  BY DEF TypeInv, RotationInv
<1>1. ASSUME NEW w \in Workers, NEW late, NEW label \in Labels, Step(w, label, late),
             UNCHANGED <<chain, ended>>, pc[w] # "revoking", Live' \subseteq Live,
             label \in {"clearing", "checking", "rotating", "issuing"} => w \in Issuing
      PROVE  EndInv'
  <2>1. Quiet' => Quiet
    BY <1>t, <1>1, StepTypes DEF Quiet
  <2> QED
    BY <1>t, <1>1, <2>1, TimelyKept, EndKept
<1>2. ASSUME NEW w \in Workers, NEW label \in Labels, NEW t \in Tokens \cup {0}, NEW g,
             Begin(w, label, t, g), UNCHANGED <<row, history>>,
             label \in {"clearing", "checking", "rotating", "issuing"} => t = 0 \/ t \in Live
      PROVE  EndInv'
  <2>1. /\ pc' = [pc EXCEPT ![w] = label] /\ tok' = [tok EXCEPT ![w] = t]
        /\ UNCHANGED <<token, chain, ended, overtaken>> /\ pc[w] = "idle"
    BY <1>2 DEF Begin, At, row, history
  <2>2. (Quiet' => Quiet) /\ Live' = Live
    BY <1>t, <2>1 DEF Quiet, TypeOK, Live
  <2>3. \A v \in Timely' : v # w => v \in Timely /\ tok'[v] = tok[v]
    BY <1>t, <2>1 DEF Timely, Issuing, TypeOK
  <2>4. w \in Timely' => tok'[w] = 0 \/ tok'[w] \in Live
    BY <1>t, <1>2, <2>1 DEF Timely, Issuing, TypeOK
  <2> QED
    BY <2>1, <2>2, <2>3, <2>4 DEF EndInv
<1>3. ASSUME NEW w \in Workers, NEW late, Step(w, "revoking", late) PROVE EndInv'
  BY <1>t, <1>3, StepTypes DEF EndInv, Quiet, Labels
<1>4. ASSUME NEW w \in Workers, IssueRefreshToken(w) PROVE EndInv'
  <2>1. PICK t \in Tokens :
          /\ token[t] = "none"
          /\ token' = [token EXCEPT ![t] = "live"]
          /\ chain' = [chain EXCEPT ![t] =
                IF tok[w] = 0 \/ overtaken[w] THEN t ELSE chain[tok[w]]]
    BY <1>4 DEF IssueRefreshToken
  <2>2. pc[w] = "issuing" /\ Step(w, "idle", {}) /\ "idle" \in Labels /\ ended' = ended
    BY <1>4 DEF IssueRefreshToken, At, Labels
  <2>3. Quiet' => Quiet
    BY <1>t, <2>2, StepTypes DEF Quiet
  <2>4. Live' = Live \cup {t} /\ \A s \in Tokens : s # t => chain'[s] = chain[s]
    BY <1>t, <2>1 DEF TypeOK, Live
  <2>5. \A s \in Live : s # t
    BY <2>1 DEF Live
  <2>6. Quiet => chain'[t] \notin ended
    <3>1. CASE tok[w] = 0 \/ overtaken[w]
      BY <1>t, <2>1, <3>1 DEF TypeOK, Chained
    <3>2. CASE tok[w] # 0 /\ ~overtaken[w]
      <4>1. w \in Timely /\ chain'[t] = chain[tok[w]]
        BY <1>t, <2>1, <2>2, <3>2 DEF TypeOK, Timely, Issuing
      <4> QED
        BY <3>2, <4>1 DEF EndInv
    <3> QED
      BY <3>1, <3>2
  <2>7. \A v \in Timely' :
            v \in Timely /\ tok'[v] = tok[v] /\ (tok[v] # 0 => tok[v] \in Tokens /\ tok[v] # t)
    BY <1>t, <2>1, <2>2, TimelyKept DEF TypeOK, Chained, Timely, Issuing
  <2> QED
    BY <2>2, <2>3, <2>4, <2>5, <2>6, <2>7 DEF EndInv, Live
<1>5. ASSUME NEW w \in Workers, NEW t \in Tokens, Logout(w, t) PROVE EndInv'
  <2>1. /\ Step(w, "idle", IssuingFor(chain[t])) /\ "idle" \in Labels /\ RevokeAll({t})
        /\ ended' = ended \/ (t \in Live /\ ended' = ended \cup {chain[t]})
        /\ chain' = chain /\ pc[w] = "idle"
    BY <1>5 DEF Logout, At, Labels, Live
  <2>2. Quiet' => Quiet
    BY <1>t, <2>1, StepTypes DEF Quiet
  <2>3. Live' = Live \ {t}
    BY <1>t, <2>1 DEF TypeOK, RevokeAll, Live
  <2>4. \A s \in Live' : ended' = ended \/ chain[s] # chain[t]
    BY <1>t, <2>1, <2>3 DEF OneTokenPerLogin
  <2>5. \A v \in Timely' : v \in Timely /\ tok'[v] = tok[v] /\ (tok[v] # 0 => chain[tok[v]] # chain[t])
    BY <1>t, <2>1, TimelyKept DEF IssuingFor, Timely, Issuing
  <2> QED
    BY <2>1, <2>2, <2>3, <2>4, <2>5 DEF EndInv
<1>6. ASSUME NEW w \in Workers, StorePassword(w) PROVE EndInv'
  <2> DEFINE late == {v \in Issuing : tok[v] # tok[w] \/ tok[w] = 0}
             kept == IF tok[w] = 0 THEN {} ELSE {chain[tok[w]]}
  <2>1. /\ Step(w, "idle", late) /\ "idle" \in Labels /\ RevokeAll(Live \ {tok[w]})
        /\ ended' = ended \cup (Chains \ kept) /\ chain' = chain /\ pc[w] = "changing"
    BY <1>6 DEF StorePassword, At, Labels, EndAllBut
  <2>2. Quiet' => Quiet
    BY <1>t, <2>1, StepTypes DEF Quiet
  <2>3. \A t \in Live' : t \in Live /\ t = tok[w]
    BY <1>t, <2>1 DEF TypeOK, RevokeAll, Live
  <2>4. tok[w] # 0 => (chain[tok[w]] \in ended' => chain[tok[w]] \in ended)
    BY <2>1
  <2>5. \A v \in Timely' : v \in Timely /\ tok'[v] = tok[v] /\ tok[v] = tok[w] /\ tok[w] # 0
    <3>1. \A v \in Timely' : v \in Timely /\ v # w /\ v \notin late /\ tok'[v] = tok[v]
      <4> HIDE DEF late
      <4>1. w \notin Timely'
        BY <1>t, <2>1, StepTypes DEF Timely, Issuing
      <4> QED
        BY <1>t, <2>1, <4>1, TimelyKept
    <3> QED
      BY <3>1 DEF Timely
  <2>6. \A t \in Live : t # 0
    BY DEF Live, Tokens
  <2> QED
    BY <2>1, <2>2, <2>3, <2>4, <2>5, <2>6 DEF EndInv
<1>7. ASSUME NEW w \in Workers, Login(w) PROVE EndInv'
  <2>1. CASE LoginWrong(w) \/ LoginRight(w)
    BY <1>2, <2>1 DEF LoginWrong, LoginRight, Labels
  <2>2. CASE CountAttempts(w)
    <3>1. /\ UNCHANGED <<token, chain, ended, tok, overtaken>>
          /\ pc' = [pc EXCEPT ![w] = "recording"] /\ pc[w] = "counting"
      BY <2>2 DEF CountAttempts, At, row, history
    <3> QED
      BY <1>t, <3>1, EndKept DEF TypeOK, Quiet, Live, Timely, Issuing
  <2>3. CASE RecordFailedAttempt(w)
    BY <1>1, <2>3 DEF RecordFailedAttempt, WriteCount, At, Labels, Live
  <2>4. CASE ClearFailedAttempts(w)
    BY <1>1, <2>4 DEF ClearFailedAttempts, At, Labels, Live, Issuing
  <2> QED
    BY <1>4, <1>7, <2>1, <2>2, <2>3, <2>4 DEF Login
<1>8. ASSUME NEW w \in Workers, RefreshOrLogout(w) PROVE EndInv'
  <2>1. ASSUME NEW t \in Tokens, Refresh(w, t) PROVE EndInv'
    BY <1>2, <2>1 DEF Refresh, Labels, Live
  <2>2. CASE RevokeExpired(w)
    BY <1>1, <2>2 DEF RevokeExpired, RevokeAll, At, Labels, Live
  <2>3. CASE CheckAccount(w)
    BY <1>1, <2>3 DEF CheckAccount, At, row, history, Labels, Live, Issuing
  <2>4. CASE Rotate(w)
    BY <1>1, <2>4 DEF Rotate, RevokeAll, At, Labels, Live, Issuing
  <2> QED
    BY <1>5, <1>8, <2>1, <2>2, <2>3, <2>4 DEF RefreshOrLogout
<1>9. ASSUME NEW w \in Workers, Password(w) PROVE EndInv'
  <2>1. CASE StoreReset(w)
    BY <1>t, <2>1, EndAll DEF StoreReset
  <2>2. CASE ResetPassword(w)
    BY <1>2, <2>2 DEF ResetPassword, Labels
  <2>3. ASSUME NEW t \in Tokens \cup {0}, ChangePassword(w, t) PROVE EndInv'
    BY <1>2, <2>3 DEF ChangePassword, Labels
  <2> QED
    BY <1>6, <1>9, <2>1, <2>2, <2>3 DEF Password
<1>10. ASSUME NEW w \in Workers, Officer(w) PROVE EndInv'
  <2>1. CASE \/ \E s \in {"ACTIVE", "SUSPENDED"} : UpdateUser(w, s)
             \/ RemoveUser(w) \/ MoveOut(w) \/ CloseHousehold(w)
    BY <1>2, <2>1 DEF UpdateUser, RemoveUser, MoveOut, CloseHousehold, Labels
  <2>2. CASE SetUserStatus(w)
    BY <1>1, <1>3, <2>2 DEF SetUserStatus, At, Labels, Live
  <2>3. CASE ActivateAccount(w) \/ DeactivateLinkedAccounts(w)
    BY <1>1, <2>3 DEF ActivateAccount, DeactivateLinkedAccounts, At, history, Labels, Live
  <2>4. CASE SoftDelete(w)
    BY <1>3, <2>4 DEF SoftDelete
  <2>5. CASE RevokeUserSessions(w) \/ DeactivateLinkedAccount(w)
    BY <1>t, <2>5, EndAll DEF RevokeUserSessions, DeactivateLinkedAccount
  <2> QED
    BY <1>10, <2>1, <2>2, <2>3, <2>4, <2>5 DEF Officer
<1>11. CASE LockPasses \/ UNCHANGED vars
  BY <1>t, <1>11, EndKept DEF LockPasses, vars, history, locals, Quiet, Live, Timely, Issuing
<1> QED
  BY <1>7, <1>8, <1>9, <1>10, <1>11 DEF Next

\* A login that was ended, by whomever, has no token left that can be refreshed,
\* unless an officer's handler is about to revoke it.
THEOREM EndedLoginsStayEnded == Spec => []EndedStaysEnded
<1>1. Init => EndInv
  BY DEF Init, EndInv, Live, Timely, Issuing
<1>2. EndInv => EndedStaysEnded
  BY DEF EndInv, EndedStaysEnded, Quiet
<1> QED
  BY <1>1, <1>2, TypeInit, TypeStep, RotationInit, RotationStep, EndStep, PTL DEF Spec

-----------------------------------------------------------------------------
(* Being shut out.                                                         *)

\* Workers that will issue a token without looking at the user again.
Admitted == {w \in Timely : \/ pc[w] \in {"rotating", "issuing"}
                            \/ pc[w] = "clearing" /\ goal[w] = "ACTIVE"}

ShutInv == user # "ACTIVE" /\ Quiet => Live \subseteq strays /\ Admitted = {}

LEMMA ShutStep == TypeInv /\ ShutInv /\ [Next]_vars => ShutInv'
<1> SUFFICES ASSUME TypeInv, ShutInv, [Next]_vars PROVE ShutInv'
  OBVIOUS
<1>t. TypeOK
  BY DEF TypeInv
<1>1. ASSUME NEW w \in Workers, NEW late, NEW label \in Labels, Step(w, label, late),
             user' = user, pc[w] # "revoking",
             \A t \in Live' : t \in Live /\ (t \in strays => t \in strays'),
             label \in {"clearing", "checking", "rotating", "issuing"} =>
                 \/ pc[w] = "rotating"
                 \/ pc[w] = "clearing" /\ goal[w] = "ACTIVE"
                 \/ user = "ACTIVE"
      PROVE  ShutInv'
  <2>1. Quiet' => Quiet
    BY <1>t, <1>1, StepTypes DEF Quiet
  <2>2. user # "ACTIVE" /\ Quiet => Admitted' = {}
    <3> SUFFICES ASSUME user # "ACTIVE", Quiet, NEW v \in Admitted' PROVE FALSE
      OBVIOUS
    <3>1. w \in Issuing \/ label \notin {"clearing", "checking", "rotating", "issuing"}
      BY <1>1 DEF Issuing
    <3>2. v \in Timely /\ v \in Workers
      BY <1>t, <1>1, <3>1, TimelyKept DEF Admitted, Timely, Issuing
    <3>3. CASE v # w
      BY <1>t, <1>1, <3>2, <3>3, StepTypes DEF Admitted, ShutInv
    <3>4. CASE v = w
      BY <1>t, <1>1, <3>2, <3>4, StepTypes DEF Admitted, ShutInv
    <3> QED
      BY <3>3, <3>4
  <2> QED
    BY <1>1, <2>1, <2>2 DEF ShutInv
<1>2. ASSUME NEW w \in Workers, NEW label \in Labels, NEW t, NEW g, Begin(w, label, t, g),
             UNCHANGED <<row, history>>, label \notin {"rotating", "issuing"},
             label = "clearing" /\ g = "ACTIVE" => user = "ACTIVE"
      PROVE  ShutInv'
  <2>1. /\ pc' = [pc EXCEPT ![w] = label] /\ goal' = [goal EXCEPT ![w] = g]
        /\ UNCHANGED <<user, token, strays, overtaken>> /\ pc[w] = "idle"
    BY <1>2 DEF Begin, At, row, history
  <2>2. Quiet' => Quiet
    BY <1>t, <2>1 DEF TypeOK, Quiet
  <2>3. user # "ACTIVE" => Admitted' \subseteq Admitted
    BY <1>t, <1>2, <2>1 DEF TypeOK, Admitted, Timely, Issuing
  <2> QED
    BY <2>1, <2>2, <2>3 DEF ShutInv, Live
<1>3. ASSUME NEW w \in Workers, NEW late, Step(w, "revoking", late) PROVE ShutInv'
  BY <1>t, <1>3, StepTypes DEF ShutInv, Quiet, Labels
<1>4. ASSUME Live' \subseteq strays', Timely' = {} PROVE ShutInv'
  BY <1>4 DEF ShutInv, Admitted
<1>5. ASSUME NEW w \in Workers, IssueRefreshToken(w) PROVE ShutInv'
  <2>1. PICK t \in Tokens :
          /\ token' = [token EXCEPT ![t] = "live"]
          /\ strays' = IF overtaken[w] THEN strays \cup {t} ELSE strays
    BY <1>5 DEF IssueRefreshToken
  <2>2. pc[w] = "issuing" /\ Step(w, "idle", {}) /\ "idle" \in Labels /\ user' = user
    BY <1>5 DEF IssueRefreshToken, At, Labels
  <2>3. Quiet' => Quiet
    BY <1>t, <2>2, StepTypes DEF Quiet
  <2>4. user # "ACTIVE" /\ Quiet => overtaken[w]
    BY <2>2 DEF ShutInv, Admitted, Timely, Issuing
  <2>5. Live' \subseteq Live \cup {t}
    BY <1>t, <2>1 DEF TypeOK, Live
  <2>6. Admitted' \subseteq Admitted
    BY <1>t, <2>2, TimelyKept, StepTypes DEF Admitted, Timely, Issuing
  <2> QED
    BY <2>1, <2>2, <2>3, <2>4, <2>5, <2>6 DEF ShutInv
<1>6. ASSUME NEW w \in Workers, Login(w) PROVE ShutInv'
  <2>1. CASE LoginWrong(w) \/ LoginRight(w)
    BY <1>2, <2>1 DEF LoginWrong, LoginRight, Labels, Active
  <2>2. CASE CountAttempts(w)
    <3>1. /\ UNCHANGED <<token, user, strays, goal, overtaken>>
          /\ pc' = [pc EXCEPT ![w] = "recording"] /\ pc[w] = "counting"
      BY <2>2 DEF CountAttempts, At, row, history
    <3> QED
      BY <1>t, <3>1 DEF TypeOK, ShutInv, Quiet, Live, Admitted, Timely, Issuing
  <2>3. CASE RecordFailedAttempt(w)
    BY <1>1, <2>3 DEF RecordFailedAttempt, WriteCount, At, Labels, Live
  <2>4. CASE ClearFailedAttempts(w)
    BY <1>1, <2>4 DEF ClearFailedAttempts, At, Labels, Live
  <2> QED
    BY <1>5, <1>6, <2>1, <2>2, <2>3, <2>4 DEF Login
<1>7. ASSUME NEW w \in Workers, RefreshOrLogout(w) PROVE ShutInv'
  <2>1. ASSUME NEW t \in Tokens, Refresh(w, t) PROVE ShutInv'
    BY <1>2, <2>1 DEF Refresh, Labels
  <2>2. CASE RevokeExpired(w)
    BY <1>1, <2>2 DEF RevokeExpired, RevokeAll, At, Labels, Live
  <2>3. CASE CheckAccount(w)
    BY <1>1, <2>3 DEF CheckAccount, At, row, history, Labels, Live, Active
  <2>4. CASE Rotate(w)
    BY <1>1, <2>4 DEF Rotate, RevokeAll, At, Labels, Live
  <2>5. ASSUME NEW t \in Tokens, Logout(w, t) PROVE ShutInv'
    BY <1>1, <2>5 DEF Logout, RevokeAll, At, Labels, Live
  <2> QED
    BY <1>7, <2>1, <2>2, <2>3, <2>4, <2>5 DEF RefreshOrLogout
<1>8. ASSUME NEW w \in Workers, Password(w) PROVE ShutInv'
  <2>1. CASE StoreReset(w)
    BY <1>t, <1>4, <2>1, EndAll DEF StoreReset
  <2>2. CASE ResetPassword(w) \/ \E t \in Tokens \cup {0} : ChangePassword(w, t)
    BY <1>2, <2>2 DEF ResetPassword, ChangePassword, Labels
  <2>3. CASE StorePassword(w)
    BY <1>1, <2>3 DEF StorePassword, RevokeAll, At, Labels, Live
  <2> QED
    BY <1>8, <2>1, <2>2, <2>3 DEF Password
<1>9. ASSUME NEW w \in Workers, Officer(w) PROVE ShutInv'
  <2>1. CASE \/ \E s \in {"ACTIVE", "SUSPENDED"} : UpdateUser(w, s)
             \/ RemoveUser(w) \/ MoveOut(w) \/ CloseHousehold(w)
    BY <1>2, <2>1 DEF UpdateUser, RemoveUser, MoveOut, CloseHousehold, Labels
  <2>2. CASE SetUserStatus(w)
    <3>1. goal[w] # "ACTIVE" => Step(w, "revoking", {})
      BY <2>2 DEF SetUserStatus
    <3>2. user' = goal[w]
      BY <2>2 DEF SetUserStatus
    <3> QED
      BY <1>3, <3>1, <3>2 DEF ShutInv
  <2>3. CASE ActivateAccount(w)
    BY <1>1, <2>3 DEF ActivateAccount, At, history, Labels, Live
  <2>4. CASE SoftDelete(w)
    BY <1>3, <2>4 DEF SoftDelete
  <2>5. CASE RevokeUserSessions(w) \/ DeactivateLinkedAccount(w)
    BY <1>t, <1>4, <2>5, EndAll DEF RevokeUserSessions, DeactivateLinkedAccount
  <2>6. CASE DeactivateLinkedAccounts(w)
    <3>1. Step(w, "idle", Issuing) /\ "idle" \in Labels /\ token' = token
          /\ strays' = strays \cup Live
      BY <2>6 DEF DeactivateLinkedAccounts, Labels
    <3>2. Timely' = {}
      BY <1>t, <3>1, TimelyKept, StepTypes DEF Timely, Issuing
    <3>3. Live' \subseteq strays'
      BY <3>1 DEF Live
    <3> QED
      BY <1>4, <3>2, <3>3
  <2> QED
    BY <1>9, <2>1, <2>2, <2>3, <2>4, <2>5, <2>6 DEF Officer
<1>10. CASE LockPasses \/ UNCHANGED vars
  BY <1>10 DEF LockPasses, vars, history, locals, ShutInv, Quiet, Live, Admitted, Timely, Issuing
<1> QED
  BY <1>6, <1>7, <1>8, <1>9, <1>10 DEF Next

\* Whoever is not an active user holds no refresh token but strays, unless an
\* officer's handler is about to revoke it.
THEOREM ShutOutHasNothing == Spec => []ShutOutHoldsNothing
<1>1. Init => ShutInv
  BY DEF Init, ShutInv, Live, Admitted, Timely, Issuing
<1>2. ShutInv => ShutOutHoldsNothing
  BY DEF ShutInv, ShutOutHoldsNothing, Quiet
<1> QED
  BY <1>1, <1>2, TypeInit, TypeStep, ShutStep, PTL DEF Spec
=============================================================================
