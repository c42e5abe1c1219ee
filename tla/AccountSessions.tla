-------------------------- MODULE AccountSessions --------------------------
(***************************************************************************)
(* One account: its lockout counter, the refresh tokens that keep its      *)
(* devices signed in, and the officers who approve, suspend and remove it  *)
(* (auth/auth.service.ts, users/users.service.ts,                          *)
(* residents/resident.service.ts).                                         *)
(*                                                                         *)
(* Every handler reads first and writes later, one database call (or one   *)
(* transaction) per step.  Session rows are left out: the program writes   *)
(* them and reads them nowhere.  Access tokens are left out too: every     *)
(* request checks the user and the account again (SignedIn).               *)
(*                                                                         *)
(* chain, strays, ended, fails, skewed and overtaken are history.  A token *)
(* is a stray if what its handler had read was revoked before the handler  *)
(* issued it; it then counts as a login of its own.  A token that outlives *)
(* the closing of its household is a stray too.  The code does leave       *)
(* strays; the properties say that nothing else goes wrong.                *)
(***************************************************************************)
EXTENDS Integers, FiniteSets

CONSTANTS
    Workers,     \* requests that may be in flight
    MaxTokens,   \* bound on refresh tokens issued
    MaxAttempts, \* failed logins that lock the account
    MaxFails     \* bound on failed logins, and on the count

ASSUME SessionConstants ==
    /\ MaxTokens \in Nat /\ MaxFails \in Nat
    /\ MaxAttempts \in Nat \ {0}

Tokens == 1 .. MaxTokens

VARIABLES
    attempts, \* Account.failedLoginAttempts
    locked,   \* Account.lockedUntil lies in the future
    account,  \* Account.status
    user,     \* User.status
    deleted,  \* User.deletedAt is set
    token,    \* token[t]: no row yet, or revokedAt null, or set
    chain,    \* chain[t]: the token of the login that t descends from
    strays,   \* live tokens that missed what revoked the others
    ended,    \* logins that were ended: signed out, or the user shut out
    fails,    \* wrong passwords answered since the last right one
    skewed,   \* a count was written that another request had overtaken
    pc,       \* pc[w]: what worker w does next
    tok,      \* tok[w]: the refresh token w was called with
    seen,     \* seen[w]: the count w read
    goal,     \* goal[w]: the user's status as w read it or will write it
    overtaken \* overtaken[w]: what w read is not so any more

row     == <<attempts, locked, account, user, deleted, token>>
history == <<chain, strays, ended, fails, skewed>>
locals  == <<tok, seen, goal, overtaken>>
vars == <<attempts, locked, account, user, deleted, token, chain, strays, ended,
          fails, skewed, pc, tok, seen, goal, overtaken>>

UserStatus == {"PENDING", "ACTIVE", "SUSPENDED", "INACTIVE"}
Labels == {"idle", "counting", "recording", "clearing", "expiring", "checking",
           "rotating", "issuing", "changing", "resetting", "setting",
           "activating", "deleting", "movingOut", "closing", "revoking"}

TypeOK ==
    /\ attempts \in Nat /\ fails \in Nat
    /\ locked \in BOOLEAN /\ deleted \in BOOLEAN /\ skewed \in BOOLEAN
    /\ account \in {"PENDING", "ACTIVE", "DISABLED"} /\ user \in UserStatus
    /\ token \in [Tokens -> {"none", "live", "revoked"}]
    /\ chain \in [Tokens -> Tokens \cup {0}]
    /\ strays \subseteq Tokens /\ ended \subseteq Tokens
    /\ pc \in [Workers -> Labels] /\ tok \in [Workers -> Tokens \cup {0}]
    /\ seen \in [Workers -> Nat] /\ goal \in [Workers -> UserStatus]
    /\ overtaken \in [Workers -> BOOLEAN]

\* An account a resident registered, or one an officer created.
Init ==
    /\ attempts = 0 /\ locked = FALSE /\ deleted = FALSE
    /\ user \in {"PENDING", "ACTIVE"} /\ account = user
    /\ token = [t \in Tokens |-> "none"] /\ chain = [t \in Tokens |-> 0]
    /\ strays = {} /\ ended = {}
    /\ fails = 0 /\ skewed = FALSE
    /\ pc = [w \in Workers |-> "idle"] /\ tok = [w \in Workers |-> 0]
    /\ seen = [w \in Workers |-> 0] /\ goal = [w \in Workers |-> "ACTIVE"]
    /\ overtaken = [w \in Workers |-> FALSE]

-----------------------------------------------------------------------------
\* What login and refresh look at, and what every signed-in request does.
Active   == account = "ACTIVE" /\ user = "ACTIVE"
SignedIn == Active /\ ~deleted

Live == {t \in Tokens : token[t] = "live"}

At(w, label) == pc[w] = label

Goto(w, label) == pc' = [pc EXCEPT ![w] = label] /\ UNCHANGED locals

Begin(w, label, t, g) ==
    /\ At(w, "idle")
    /\ pc' = [pc EXCEPT ![w] = label]
    /\ tok' = [tok EXCEPT ![w] = t]
    /\ goal' = [goal EXCEPT ![w] = g]
    /\ UNCHANGED <<seen, overtaken>>

\* The handler goes on or returns; the workers in "late" have read what this
\* step rewrote.
Step(w, label, late) ==
    /\ pc' = [pc EXCEPT ![w] = label]
    /\ IF label = "idle"
       THEN /\ tok' = [tok EXCEPT ![w] = 0]
            /\ seen' = [seen EXCEPT ![w] = 0]
            /\ goal' = [goal EXCEPT ![w] = "ACTIVE"]
       ELSE UNCHANGED <<tok, seen, goal>>
    /\ overtaken' = [v \in Workers |-> IF v = w THEN label # "idle" /\ overtaken[v]
                                                ELSE overtaken[v] \/ v \in late]

\* Workers that will write the count, or issue a token, from what they read.
Counting == {v \in Workers : pc[v] = "recording"}
Issuing  == {v \in Workers : pc[v] \in {"clearing", "checking", "rotating", "issuing"}}
IssuingFor(c) == {v \in Issuing : tok[v] # 0 /\ chain[tok[v]] = c}

RevokeAll(ts) ==
    /\ token' = [t \in Tokens |-> IF t \in ts THEN "revoked" ELSE token[t]]
    /\ strays' = strays \ ts

\* The logins that have a live token, or whose token is being rotated.
Chains == {chain[t] : t \in Live} \cup {chain[tok[v]] : v \in {u \in Issuing : tok[u] # 0}}
EndAllBut(kept) == ended' = ended \cup (Chains \ kept)

-----------------------------------------------------------------------------
(* login: a locked account is refused before the password is looked at.    *)

LoginWrong(w) ==
    /\ ~locked /\ fails < MaxFails
    /\ Begin(w, "counting", 0, "ACTIVE")
    /\ UNCHANGED <<row, history>>

\* The statuses login checks at the end are the ones it reads here.
LoginRight(w) ==
    /\ ~locked
    /\ Begin(w, "clearing", 0, IF Active THEN "ACTIVE" ELSE "INACTIVE")
    /\ UNCHANGED <<row, history>>

\* recordFailedAttempt reads the count ...
CountAttempts(w) ==
    /\ At(w, "counting")
    /\ attempts <= MaxFails
    /\ pc' = [pc EXCEPT ![w] = "recording"]
    /\ seen' = [seen EXCEPT ![w] = attempts]
    /\ UNCHANGED <<row, history, tok, goal, overtaken>>

WriteCount(w, lock) ==
    /\ At(w, "recording")
    /\ attempts' = seen[w] + 1
    /\ locked' = lock
    /\ fails' = fails + 1
    /\ skewed' = (skewed \/ overtaken[w])
    /\ Step(w, "idle", Counting)
    /\ UNCHANGED <<account, user, deleted, token, chain, strays, ended>>

\* RecordFailedAttempt when only the last permitted failure locks.
RecordFailedAttemptOnce(w) == WriteCount(w, seen[w] + 1 = MaxAttempts)

\* RecordFailedAttempt when the lock comes one failure early.
RecordFailedAttemptEarly(w) == WriteCount(w, seen[w] + 2 >= MaxAttempts)

\* ... and writes it back with one more, and the lock or no lock.
RecordFailedAttempt(w) == WriteCount(w, seen[w] + 1 >= MaxAttempts)

\* ClearFailedAttempts when it takes one failure back.
ClearOneFailure(w) ==
    /\ At(w, "clearing")
    /\ attempts' = attempts - 1 /\ locked' = FALSE /\ fails' = 0 /\ skewed' = FALSE
    /\ Step(w, IF goal[w] = "ACTIVE" THEN "issuing" ELSE "idle", Counting)
    /\ UNCHANGED <<account, user, deleted, token, chain, strays, ended>>

\* A right password clears the count, even if the account is not active.
ClearFailedAttempts(w) ==
    /\ At(w, "clearing")
    /\ attempts' = 0 /\ locked' = FALSE /\ fails' = 0 /\ skewed' = FALSE
    /\ Step(w, IF goal[w] = "ACTIVE" THEN "issuing" ELSE "idle", Counting)
    /\ UNCHANGED <<account, user, deleted, token, chain, strays, ended>>

\* lockedUntil passes; the count stays.
LockPasses ==
    /\ locked
    /\ locked' = FALSE
    /\ UNCHANGED <<attempts, account, user, deleted, token, history, pc, locals>>

\* createSession: the new token continues the login of the one it replaces.
IssueRefreshToken(w) ==
    /\ At(w, "issuing")
    /\ \E t \in Tokens :
          /\ token[t] = "none" /\ \A u \in Tokens : token[u] = "none" => t <= u
          /\ token' = [token EXCEPT ![t] = "live"]
          /\ chain' = [chain EXCEPT ![t] =
                IF tok[w] = 0 \/ overtaken[w] THEN t ELSE chain[tok[w]]]
          /\ strays' = IF overtaken[w] THEN strays \cup {t} ELSE strays
    /\ Step(w, "idle", {})
    /\ UNCHANGED <<attempts, locked, account, user, deleted, ended, fails, skewed>>

-----------------------------------------------------------------------------
(* refresh: find the token, check the account, revoke, issue.              *)

Refresh(w, t) ==
    /\ token[t] = "live"
    /\ \E label \in {"checking", "expiring"} : Begin(w, label, t, "ACTIVE")
    /\ UNCHANGED <<row, history>>

\* Its expiresAt has passed.
RevokeExpired(w) ==
    /\ At(w, "expiring")
    /\ RevokeAll({tok[w]})
    /\ Step(w, "idle", IssuingFor(chain[tok[w]]))
    /\ UNCHANGED <<attempts, locked, account, user, deleted, chain, ended, fails, skewed>>

\* CheckAccount when nobody looks at the user's status.
CheckNothing(w) ==
    /\ At(w, "checking")
    /\ Step(w, "rotating", {})
    /\ UNCHANGED <<row, history>>

CheckAccount(w) ==
    /\ At(w, "checking")
    /\ Step(w, IF Active THEN "rotating" ELSE "idle", {})
    /\ UNCHANGED <<row, history>>

\* Rotate when the old token stays.
RotateKeepingOld(w) ==
    /\ At(w, "rotating")
    /\ Step(w, "issuing", {})
    /\ UNCHANGED <<row, history>>

\* Others that were called with the same token are late from now on.
Rotate(w) ==
    /\ At(w, "rotating")
    /\ RevokeAll({tok[w]})
    /\ Step(w, "issuing", {v \in Issuing : tok[v] = tok[w]})
    /\ UNCHANGED <<attempts, locked, account, user, deleted, chain, ended, fails, skewed>>

\* logout, from the device that holds t.
Logout(w, t) ==
    /\ At(w, "idle") /\ SignedIn
    /\ token[t] # "none"
    /\ RevokeAll({t})
    /\ ended' = ended \cup (IF token[t] = "live" THEN {chain[t]} ELSE {})
    /\ Step(w, "idle", IssuingFor(chain[t]))
    /\ UNCHANGED <<attempts, locked, account, user, deleted, chain, fails, skewed>>

-----------------------------------------------------------------------------
(* Passwords.                                                              *)

\* changePassword from the device that sends t's cookie, or (0) none.
ChangePassword(w, t) ==
    /\ SignedIn
    /\ t # 0 => token[t] # "none"
    /\ Begin(w, "changing", t, "ACTIVE")
    /\ UNCHANGED <<row, history>>

\* StorePassword when the other devices stay signed in.
StorePasswordOnly(w) ==
    /\ At(w, "changing")
    /\ EndAllBut(IF tok[w] = 0 THEN {} ELSE {chain[tok[w]]})
    /\ Step(w, "idle", {v \in Issuing : tok[v] # tok[w] \/ tok[w] = 0})
    /\ UNCHANGED <<row, chain, strays, fails, skewed>>

\* Every token but the caller's is revoked in the same transaction.
StorePassword(w) ==
    /\ At(w, "changing")
    /\ RevokeAll(Live \ {tok[w]})
    /\ EndAllBut(IF tok[w] = 0 THEN {} ELSE {chain[tok[w]]})
    /\ Step(w, "idle", {v \in Issuing : tok[v] # tok[w] \/ tok[w] = 0})
    /\ UNCHANGED <<attempts, locked, account, user, deleted, chain, fails, skewed>>

\* resetPassword with a link forgotPassword mailed.
ResetPassword(w) ==
    /\ Begin(w, "resetting", 0, "ACTIVE")
    /\ UNCHANGED <<row, history>>

StoreReset(w) ==
    /\ At(w, "resetting")
    /\ RevokeAll(Live) /\ EndAllBut({})
    /\ Step(w, "idle", Issuing)
    /\ UNCHANGED <<attempts, locked, account, user, deleted, chain, fails, skewed>>

-----------------------------------------------------------------------------
(* Officers.                                                               *)

\* users update with a status: read the user ...
UpdateUser(w, s) ==
    /\ ~deleted
    /\ Begin(w, "setting", 0, s)
    /\ UNCHANGED <<row, history>>

\* ... write its status ...
SetUserStatus(w) ==
    /\ At(w, "setting")
    /\ user' = goal[w]
    /\ IF goal[w] = "ACTIVE" THEN UNCHANGED ended ELSE EndAllBut({})
    /\ Step(w, IF goal[w] = "ACTIVE" THEN "activating" ELSE "revoking", {})
    /\ UNCHANGED <<attempts, locked, account, deleted, token, chain, strays, fails, skewed>>

\* ... and activate the account, or revoke the sessions.
ActivateAccount(w) ==
    /\ At(w, "activating")
    /\ account' = "ACTIVE"
    /\ Step(w, "idle", {})
    /\ UNCHANGED <<attempts, locked, user, deleted, token, history>>

RevokeUserSessions(w) ==
    /\ At(w, "revoking")
    /\ RevokeAll(Live)
    /\ Step(w, "idle", Issuing)
    /\ UNCHANGED <<attempts, locked, account, user, deleted, chain, ended, fails, skewed>>

\* users remove.
RemoveUser(w) ==
    /\ ~deleted
    /\ Begin(w, "deleting", 0, "INACTIVE")
    /\ UNCHANGED <<row, history>>

SoftDelete(w) ==
    /\ At(w, "deleting")
    /\ deleted' = TRUE /\ user' = "INACTIVE" /\ account' = "DISABLED"
    /\ EndAllBut({})
    /\ Step(w, "revoking", {})
    /\ UNCHANGED <<attempts, locked, token, chain, strays, fails, skewed>>

\* residents moveOut and remove read the resident and its user, and then
\* deactivateLinkedAccount writes all there is in one transaction, as a new
\* renter's account does to the one it replaces.
MoveOut(w) ==
    /\ Begin(w, "movingOut", 0, "INACTIVE")
    /\ UNCHANGED <<row, history>>

\* DeactivateLinkedAccount when it disables the account only.
DisableAccountOnly(w) ==
    /\ At(w, "movingOut")
    /\ account' = "DISABLED"
    /\ RevokeAll(Live) /\ EndAllBut({})
    /\ Step(w, "idle", Issuing)
    /\ UNCHANGED <<attempts, locked, user, deleted, chain, fails, skewed>>

DeactivateLinkedAccount(w) ==
    /\ At(w, "movingOut")
    /\ account' = "DISABLED" /\ user' = "INACTIVE"
    /\ RevokeAll(Live) /\ EndAllBut({})
    /\ Step(w, "idle", Issuing)
    /\ UNCHANGED <<attempts, locked, deleted, chain, fails, skewed>>

\* Deactivating or deleting a household finds its active users ...
CloseHousehold(w) ==
    /\ user = "ACTIVE" /\ ~deleted
    /\ Begin(w, "closing", 0, "INACTIVE")
    /\ UNCHANGED <<row, history>>

\* ... and writes their status, and nothing else.
DeactivateLinkedAccounts(w) ==
    /\ At(w, "closing")
    /\ user' = "INACTIVE"
    /\ strays' = strays \cup Live
    /\ Step(w, "idle", Issuing)
    /\ UNCHANGED <<attempts, locked, account, deleted, token, chain, ended, fails, skewed>>

Login(w) ==
    \/ LoginWrong(w) \/ LoginRight(w)
    \/ CountAttempts(w) \/ RecordFailedAttempt(w) \/ ClearFailedAttempts(w)
    \/ IssueRefreshToken(w)

RefreshOrLogout(w) ==
    \/ \E t \in Tokens : Refresh(w, t) \/ Logout(w, t)
    \/ RevokeExpired(w) \/ CheckAccount(w) \/ Rotate(w)

Password(w) ==
    \/ \E t \in Tokens \cup {0} : ChangePassword(w, t)
    \/ StorePassword(w) \/ ResetPassword(w) \/ StoreReset(w)

Officer(w) ==
    \/ \E s \in {"ACTIVE", "SUSPENDED"} : UpdateUser(w, s)
    \/ SetUserStatus(w) \/ ActivateAccount(w) \/ RevokeUserSessions(w)
    \/ RemoveUser(w) \/ SoftDelete(w) \/ MoveOut(w) \/ DeactivateLinkedAccount(w)
    \/ CloseHousehold(w) \/ DeactivateLinkedAccounts(w)

Next ==
    \/ \E w \in Workers : Login(w) \/ RefreshOrLogout(w) \/ Password(w) \/ Officer(w)
    \/ LockPasses

Spec == Init /\ [][Next]_vars

-----------------------------------------------------------------------------
(* Properties.                                                             *)

\* A login that was ended, by signing out, by a new password or by an officer,
\* has no token left that can be refreshed, unless an officer's handler is
\* about to revoke it.  What a request in flight issues afterwards is a stray:
\* a login of its own (auth.service.ts:993-994: "Revoke every other refresh
\* token so other devices are signed out").
EndedStaysEnded ==
    (\A w \in Workers : pc[w] # "revoking") =>
        \A t \in Live : chain[t] \notin ended

\* Whoever is not an active user holds no refresh token but strays, with the
\* same exceptions (users.service.ts:1199-1201, 1284; resident.service.ts:33-73).
ShutOutHoldsNothing ==
    user # "ACTIVE" /\ (\A w \in Workers : pc[w] # "revoking") =>
        Live \subseteq strays

\* Rotation: one login has one live token, however often it was refreshed,
\* unless two requests refreshed the same token at once, which makes two logins
\* (LOGIN-WORKFLOWS.md:12-13: "rotated on every refresh").
OneTokenPerLogin ==
    \A s, t \in Live : chain[s] = chain[t] => s = t

\* The stored count is the number of failures since the last right password,
\* and a lock stands for enough of them, unless two counts overlapped
\* (auth.service.ts:710-734).
CountIsExact ==
    ~skewed => attempts = fails /\ (locked => fails >= MaxAttempts)

\* A lock is lifted by its time, by a right password, or by a count that
\* another had overtaken, never by one more failure (auth.service.ts:718-725).
LockHolds ==
    [][locked /\ ~locked' => attempts' = attempts \/ attempts' = 0 \/ skewed']_vars

\* An active user has an active account once the approval is through, whatever
\* else officers did meanwhile (users.service.ts:1187-1197).
ApprovedCanSignIn ==
    user = "ACTIVE" =>
        account = "ACTIVE" \/ \E w \in Workers : pc[w] = "activating"
=============================================================================
