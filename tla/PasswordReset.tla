---------------------------- MODULE PasswordReset ----------------------------
(***************************************************************************)
(* One account's password, reset links and sessions: the backend's         *)
(* services/password_reset_service.ts (forgot-password, reset-password),   *)
(* scripts/reset_operator_password.ts, the login of routes/auth.ts and the *)
(* session check of middleware/user_auth.ts.                               *)
(*                                                                         *)
(* Every await is a point where other requests, or the operator's one-shot *)
(* container, run.  The two resets are transactions of PostgreSQL at READ  *)
(* COMMITTED: a statement sees what was committed when it began, an UPDATE *)
(* locks the rows it matches until the transaction ends, and on a row that *)
(* another transaction holds it waits and then matches the row again.      *)
(* Their writes are applied here at commit, the locks keep them private    *)
(* until then.  A deadlock aborts one of its members.                      *)
(***************************************************************************)
EXTENDS Integers, FiniteSets

CONSTANTS
  Requests,    \* forgot-password requests; each creates at most one reset link
  Resets,      \* reset-password requests
  Operators,   \* runs of reset_operator_password
  Logins,
  Passwords,
  Cooldown,    \* REQUEST_COOLDOWN_MS
  TokenTtl,    \* TOKEN_TTL_MS
  MaxTime,     \* bound on the clock
  Nobody

Changers == Resets \union Operators    \* transactions that change the password
Lockers  == Requests \union Changers
Procs    == Lockers \union Logins

ASSUME ResetAssumption ==
  /\ Requests # {} /\ Nobody \notin Procs
  /\ Requests \intersect Changers = {} /\ Resets \intersect Operators = {}
  /\ Logins \intersect Lockers = {}
  /\ Cooldown \in Nat /\ TokenTtl \in Nat /\ MaxTime \in Nat

VARIABLES
  now,
  pwd, version,     \* the User row: passwordHash and sessionVersion
  token,            \* per request, its PasswordResetToken row: none, open or used
  createdAt,        \* the row's createdAt
  tokenLock, userLock,
  pc,
  startedAt,        \* the `now` a forgot-password request read
  link, newPwd,     \* what a reset submits
  sweep,            \* rows an UPDATE of the open tokens has still to lock
  swept,            \* history: all the rows it matched
  entered, seen     \* a login: the password typed, the sessionVersion read

rows == <<pwd, version, token, createdAt>>
locks == <<tokenLock, userLock>>
inputs == <<startedAt, link, newPwd, entered, seen>>
vars == <<now, rows, locks, pc, inputs, sweep, swept>>

-----------------------------------------------------------------------------
OpenTokens == {t \in Requests : token[t] = "open"}
Held(p)    == {t \in Requests : tokenLock[t] = p}
Goto(p, step) == pc' = [pc EXCEPT ![p] = step]

\* The transaction ends: its locks go.
Release(p) ==
  /\ tokenLock' = [t \in Requests |-> IF tokenLock[t] = p THEN Nobody ELSE tokenLock[t]]
  /\ userLock' = IF userLock = p THEN Nobody ELSE userLock

MarkUsed(ts) == token' = [t \in Requests |-> IF t \in ts THEN "used" ELSE token[t]]

(* ---- UPDATE "PasswordResetToken" SET "usedAt" WHERE "usedAt" IS NULL ---- *)

SweepBegins(p) ==
  /\ pc[p] = IF p \in Requests THEN "checked" ELSE "updated"
  /\ Goto(p, IF p \in Requests THEN "invalidating" ELSE "sweeping")
  /\ sweep' = [sweep EXCEPT ![p] = OpenTokens \ Held(p)]
  /\ swept' = [swept EXCEPT ![p] = OpenTokens \ Held(p)]
  /\ UNCHANGED <<now, rows, locks, inputs>>

SweepRow(p, t) ==
  /\ t \in sweep[p] /\ tokenLock[t] = Nobody
  /\ sweep' = [sweep EXCEPT ![p] = @ \ {t}]
  /\ tokenLock' = IF token[t] = "open" THEN [tokenLock EXCEPT ![t] = p] ELSE tokenLock
  /\ UNCHANGED <<now, rows, userLock, pc, inputs, swept>>

(* ------------------------- requestPasswordReset ------------------------- *)

FindUser(r) ==
  /\ pc[r] = "idle"
  /\ startedAt' = [startedAt EXCEPT ![r] = now]
  /\ Goto(r, "found")
  /\ UNCHANGED <<now, rows, locks, link, newPwd, entered, seen, sweep, swept>>

HasRecentToken(r) == \E t \in OpenTokens : createdAt[t] >= startedAt[r] - Cooldown

CheckCooldown(r) ==
  /\ pc[r] = "found"
  /\ Goto(r, IF HasRecentToken(r) THEN "ended" ELSE "checked")
  /\ UNCHANGED <<now, rows, locks, inputs, sweep, swept>>

InvalidateOpenTokens(r) ==
  /\ pc[r] = "invalidating" /\ sweep[r] = {}
  /\ MarkUsed(Held(r)) /\ Release(r)
  /\ Goto(r, "cleared")
  /\ UNCHANGED <<now, pwd, version, createdAt, inputs, sweep, swept>>

CreateToken(r) ==
  /\ pc[r] = "cleared"
  /\ token' = [token EXCEPT ![r] = "open"]
  /\ createdAt' = [createdAt EXCEPT ![r] = now]
  /\ Goto(r, "created")
  /\ UNCHANGED <<now, pwd, version, locks, inputs, sweep, swept>>

SendResetEmail(r) ==
  /\ pc[r] = "created"
  /\ \E delivered \in BOOLEAN : Goto(r, IF delivered THEN "ended" ELSE "undelivered")
  /\ UNCHANGED <<now, rows, locks, inputs, sweep, swept>>

InvalidateToken(r) ==
  /\ pc[r] = "undelivered" /\ tokenLock[r] = Nobody
  /\ MarkUsed({r})
  /\ Goto(r, "ended")
  /\ UNCHANGED <<now, pwd, version, createdAt, locks, inputs, sweep, swept>>

(* -------------------- resetPassword, resetOperatorPassword --------------- *)

Unexpired(t) == startedAt[t] + TokenTtl > now

(* The user follows a link that was created, at any time since.  The time  *)
(* it is held against is read here, before the transaction.                *)
SubmitReset(s) ==
  /\ pc[s] = "idle"
  /\ \E t \in Requests, p \in Passwords :
       /\ token[t] # "none"
       /\ link' = [link EXCEPT ![s] = t]
       /\ newPwd' = [newPwd EXCEPT ![s] = p]
       /\ Goto(s, IF Unexpired(t) THEN "submitted" ELSE "ended")
  /\ UNCHANGED <<now, rows, locks, startedAt, entered, seen, sweep, swept>>

\* Fault: the claim looks only at the expiry.
ClaimUsedToo(s) ==
  /\ pc[s] = "submitted" /\ tokenLock[link[s]] = Nobody
  /\ tokenLock' = [tokenLock EXCEPT ![link[s]] = s] /\ Goto(s, "claimed")
  /\ UNCHANGED <<now, rows, userLock, inputs, sweep, swept>>

\* Fault: a refused claim returns without closing its transaction.
ClaimLeftOpen(s) ==
  LET t == link[s] IN
  /\ pc[s] = "submitted" /\ tokenLock[t] = Nobody
  /\ tokenLock' = [tokenLock EXCEPT ![t] = s]
  /\ Goto(s, IF token[t] = "open" THEN "claimed" ELSE "ended")
  /\ UNCHANGED <<now, rows, userLock, inputs, sweep, swept>>

Claim(s) ==
  LET t == link[s] IN
  /\ pc[s] = "submitted" /\ tokenLock[t] = Nobody
  /\ IF token[t] = "open"
     THEN tokenLock' = [tokenLock EXCEPT ![t] = s] /\ Goto(s, "claimed")
     ELSE UNCHANGED tokenLock /\ Goto(s, "ended")
  /\ UNCHANGED <<now, rows, userLock, inputs, sweep, swept>>

\* The operator names the account, and needs no link.
OperatorBegins(o) ==
  /\ pc[o] = "idle"
  /\ \E p \in Passwords : newPwd' = [newPwd EXCEPT ![o] = p]
  /\ Goto(o, "claimed")
  /\ UNCHANGED <<now, rows, locks, startedAt, link, entered, seen, sweep, swept>>

UpdateUser(p) ==
  /\ pc[p] = "claimed" /\ userLock = Nobody
  /\ userLock' = p
  /\ Goto(p, "updated")
  /\ UNCHANGED <<now, rows, tokenLock, inputs, sweep, swept>>

\* Fault: the sessionVersion is left alone.
CommitKeepsSessions(p) ==
  /\ pc[p] = "sweeping" /\ sweep[p] = {}
  /\ pwd' = newPwd[p]
  /\ MarkUsed(Held(p)) /\ Release(p)
  /\ Goto(p, "won")
  /\ UNCHANGED <<now, version, createdAt, inputs, sweep, swept>>

\* Fault: the other links of the account are not marked.
CommitSparesLinks(p) ==
  /\ pc[p] = "sweeping" /\ sweep[p] = {}
  /\ pwd' = newPwd[p] /\ version' = version + 1
  /\ MarkUsed(IF p \in Resets THEN {link[p]} ELSE {}) /\ Release(p)
  /\ Goto(p, "won")
  /\ UNCHANGED <<now, createdAt, inputs, sweep, swept>>

Commit(p) ==
  /\ pc[p] = "sweeping" /\ sweep[p] = {}
  /\ pwd' = newPwd[p] /\ version' = version + 1
  /\ MarkUsed(Held(p)) /\ Release(p)
  /\ Goto(p, "won")
  /\ UNCHANGED <<now, createdAt, inputs, sweep, swept>>

(* ------------------------------- aborts ---------------------------------- *)

\* The processes that p waits for, when it waits.
WaitsFor(p) ==
  CASE pc[p] = "submitted" -> {tokenLock[link[p]]} \ {Nobody}
    [] pc[p] = "undelivered" -> {tokenLock[p]} \ {Nobody}
    [] pc[p] = "claimed"   -> {userLock} \ {Nobody}
    [] pc[p] \in {"invalidating", "sweeping"} ->
         IF \E t \in sweep[p] : tokenLock[t] = Nobody THEN {}
         ELSE {tokenLock[t] : t \in sweep[p]}
    [] OTHER -> {}

Deadlocked(p) ==
  \E group \in SUBSET Lockers :
    p \in group /\ \A q \in group : WaitsFor(q) # {} /\ WaitsFor(q) \subseteq group

Rollback(p) ==
  /\ Release(p)
  /\ Goto(p, "ended")
  /\ sweep' = [sweep EXCEPT ![p] = {}]
  /\ UNCHANGED <<now, rows, inputs, swept>>

DeadlockAbort(p) == Deadlocked(p) /\ Rollback(p)

\* A statement fails, the backend dies, or Prisma's transaction timeout passes.
Stop(p) == pc[p] \notin {"idle", "ended", "won"} /\ Rollback(p)

(* ------------------------------- sessions -------------------------------- *)

\* findUnique reads hash and sessionVersion together; a wrong password is a 401.
LoginReads(l) ==
  /\ pc[l] = "idle"
  /\ entered' = [entered EXCEPT ![l] = pwd]
  /\ seen' = [seen EXCEPT ![l] = version]
  /\ Goto(l, "verified")
  /\ UNCHANGED <<now, rows, locks, startedAt, link, newPwd, sweep, swept>>

\* generateToken, after bcrypt.
GenerateToken(l) ==
  /\ pc[l] = "verified"
  /\ Goto(l, "issued")
  /\ UNCHANGED <<now, rows, locks, inputs, sweep, swept>>

\* verifyUserToken compares the session's version with the account's.
ValidSession(l) == pc[l] = "issued" /\ seen[l] = version

-----------------------------------------------------------------------------
Tick ==
  /\ now < MaxTime
  /\ now' = now + 1
  /\ UNCHANGED <<rows, locks, pc, inputs, sweep, swept>>

RequestStep(r) ==
  \/ CheckCooldown(r) \/ SweepBegins(r) \/ (\E t \in Requests : SweepRow(r, t))
  \/ InvalidateOpenTokens(r) \/ CreateToken(r) \/ SendResetEmail(r) \/ InvalidateToken(r)

ChangeStep(p) ==
  \/ UpdateUser(p) \/ SweepBegins(p) \/ (\E t \in Requests : SweepRow(p, t)) \/ Commit(p)

Step(p) ==
  \/ p \in Requests /\ RequestStep(p)
  \/ p \in Resets /\ Claim(p)
  \/ p \in Changers /\ ChangeStep(p)

Init ==
  /\ now = 0 /\ pwd \in Passwords /\ version = 0
  /\ token = [t \in Requests |-> "none"] /\ createdAt = [t \in Requests |-> 0]
  /\ tokenLock = [t \in Requests |-> Nobody] /\ userLock = Nobody
  /\ pc = [p \in Procs |-> "idle"]
  /\ startedAt = [r \in Requests |-> 0]
  /\ link = [s \in Resets |-> CHOOSE t \in Requests : TRUE] /\ newPwd = [p \in Changers |-> pwd]
  /\ sweep = [p \in Lockers |-> {}] /\ swept = [p \in Lockers |-> {}]
  /\ entered = [l \in Logins |-> pwd] /\ seen = [l \in Logins |-> 0]

Next ==
  \/ Tick
  \/ \E p \in Lockers : Step(p) \/ DeadlockAbort(p) \/ Stop(p)
  \/ \E r \in Requests : FindUser(r)
  \/ \E s \in Resets : SubmitReset(s)
  \/ \E o \in Operators : OperatorBegins(o)
  \/ \E l \in Logins : LoginReads(l) \/ GenerateToken(l)

Spec == Init /\ [][Next]_vars

\* Statements return, and PostgreSQL resolves deadlocks.
FairSpec == Spec /\ \A p \in Lockers : WF_vars(Step(p)) /\ WF_vars(DeadlockAbort(p))

-----------------------------------------------------------------------------
(* Properties *)

PcValues == {"idle", "found", "checked", "invalidating", "cleared", "created", "undelivered",
             "submitted", "claimed", "updated", "sweeping", "verified", "issued", "ended", "won"}

\* Types; a row that is locked is an open link.
TypeOK ==
  /\ now \in 0..MaxTime /\ pwd \in Passwords /\ version \in Nat
  /\ token \in [Requests -> {"none", "open", "used"}]
  /\ createdAt \in [Requests -> 0..MaxTime]
  /\ tokenLock \in [Requests -> Lockers \union {Nobody}]
  /\ userLock \in Changers \union {Nobody}
  /\ pc \in [Procs -> PcValues]
  /\ startedAt \in [Requests -> 0..MaxTime]
  /\ link \in [Resets -> Requests] /\ newPwd \in [Changers -> Passwords]
  /\ sweep \in [Lockers -> SUBSET Requests] /\ swept \in [Lockers -> SUBSET Requests]
  /\ entered \in [Logins -> Passwords] /\ seen \in [Logins -> Nat]
  /\ \A t \in Requests : tokenLock[t] # Nobody => token[t] = "open"

\* A session that passes verifyUserToken was obtained with the password the account
\* has now, also when the login read the row just before a reset committed and got
\* its token after it.
SessionMatchesPassword == \A l \in Logins : ValidSession(l) => entered[l] = pwd

\* A link changes the password at most once, also when it is submitted twice at once
\* or while the operator resets the account (claimAndReset).
LinkWinsOnce ==
  \A s1, s2 \in Resets : pc[s1] = "won" /\ pc[s2] = "won" /\ link[s1] = link[s2] => s1 = s2

\* Once a change of the password has committed, none of the links it saw open can
\* change the password, whichever of them was being used at that moment.
VoidedNeverWins ==
  \A p \in Changers, s \in Resets :
    pc[p] = "won" /\ pc[s] = "won" => link[s] \notin swept[p]

\* Locks taken in opposite orders (a link, then the account, then the other links)
\* never leave a reset hanging.
ResetsEnd == \A p \in Changers : pc[p] = "claimed" \/ (p \in Resets /\ pc[p] = "submitted")
                                ~> pc[p] \in {"ended", "won"}

=============================================================================
