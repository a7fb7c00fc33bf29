------------------------- MODULE PasswordResetProofs -------------------------
(* Proofs about PasswordReset, for any number of requests, resets, operator runs  *)
(* and logins, and any cooldown, lifetime and bound on the clock.                 *)
EXTENDS PasswordReset, TLAPS

-----------------------------------------------------------------------------
(* Types *)

LEMMA InitType == ASSUME Init PROVE TypeOK
<1>1. now \in 0..MaxTime /\ version \in Nat /\ pwd \in Passwords
  BY ResetAssumption DEF Init
<1>2. (CHOOSE t \in Requests : TRUE) \in Requests
  BY ResetAssumption
<1>3. link \in [Resets -> Requests] /\ newPwd \in [Changers -> Passwords]
  BY <1>1, <1>2 DEF Init
<1>4. createdAt \in [Requests -> 0..MaxTime] /\ startedAt \in [Requests -> 0..MaxTime]
  BY <1>1, ResetAssumption DEF Init
<1>5. /\ token \in [Requests -> {"none", "open", "used"}]
      /\ tokenLock \in [Requests -> Lockers \union {Nobody}]
      /\ userLock \in Changers \union {Nobody}
      /\ sweep \in [Lockers -> SUBSET Requests] /\ swept \in [Lockers -> SUBSET Requests]
  BY DEF Init
<1>6. pc \in [Procs -> PcValues]
  BY DEF Init, PcValues
<1>7. entered \in [Logins -> Passwords] /\ seen \in [Logins -> Nat]
  BY <1>1 DEF Init
<1> QED BY <1>1, <1>3, <1>4, <1>5, <1>6, <1>7 DEF TypeOK, Init

\* A transaction that ends marks and unlocks only rows it holds.
LEMMA EndTypes ==
  ASSUME TypeOK, NEW p \in Lockers, Release(p),
         MarkUsed(Held(p)) \/ token' = token
  PROVE  /\ token' \in [Requests -> {"none", "open", "used"}]
         /\ tokenLock' \in [Requests -> Lockers \union {Nobody}]
         /\ userLock' \in Changers \union {Nobody}
         /\ \A t \in Requests : tokenLock'[t] # Nobody => token'[t] = "open"
         /\ \A t \in Requests : token[t] = "used" => token'[t] = "used"
         /\ \A t \in Requests : tokenLock[t] # p => token'[t] = token[t]
<1>1. tokenLock' \in [Requests -> Lockers \union {Nobody}] /\ userLock' \in Changers \union {Nobody}
  BY DEF TypeOK, Release
<1>2. token' \in [Requests -> {"none", "open", "used"}]
  BY DEF TypeOK, MarkUsed
<1>3. \A t \in Requests : tokenLock[t] # p => token'[t] = token[t]
  BY DEF MarkUsed, Held
<1>4. \A t \in Requests : token[t] = "used" => token'[t] = "used"
  BY DEF MarkUsed
<1>5. \A t \in Requests : tokenLock'[t] # Nobody => tokenLock[t] = tokenLock'[t] /\ tokenLock[t] # p
  BY DEF Release
<1>6. \A t \in Requests : tokenLock'[t] # Nobody => token'[t] = "open"
  BY <1>3, <1>5 DEF TypeOK
<1> QED BY <1>1, <1>2, <1>3, <1>4, <1>6

LEMMA RequestType ==
  ASSUME TypeOK, NEW r \in Requests, FindUser(r) \/ RequestStep(r)
  PROVE  TypeOK'
<1> USE DEF TypeOK
<1>0. r \in Procs /\ r \in Lockers
  BY DEF Procs, Lockers
<1>1. CASE FindUser(r)
  BY <1>0, <1>1 DEF FindUser, Goto, PcValues, rows, locks
<1>2. CASE CheckCooldown(r)
  BY <1>0, <1>2 DEF CheckCooldown, Goto, PcValues, rows, locks, inputs
<1>3. CASE SweepBegins(r)
  BY <1>0, <1>3 DEF SweepBegins, Goto, PcValues, OpenTokens, rows, locks, inputs
<1>4. ASSUME NEW t \in Requests, SweepRow(r, t) PROVE TypeOK'
  BY <1>0, <1>4 DEF SweepRow, rows, inputs
<1>5. CASE InvalidateOpenTokens(r)
  <2>1. pc' \in [Procs -> PcValues]
    BY <1>0, <1>5 DEF InvalidateOpenTokens, Goto, PcValues
  <2> QED BY <1>0, <1>5, <2>1, EndTypes DEF InvalidateOpenTokens, inputs
<1>6. CASE CreateToken(r)
  BY <1>0, <1>6 DEF CreateToken, Goto, PcValues, locks, inputs
<1>7. CASE SendResetEmail(r)
  BY <1>0, <1>7 DEF SendResetEmail, Goto, PcValues, rows, locks, inputs
<1>8. CASE InvalidateToken(r)
  BY <1>0, <1>8 DEF InvalidateToken, MarkUsed, Goto, PcValues, locks, inputs
<1> QED BY <1>1, <1>2, <1>3, <1>4, <1>5, <1>6, <1>7, <1>8 DEF RequestStep

LEMMA ResetType ==
  ASSUME TypeOK, NEW s \in Resets, SubmitReset(s) \/ Claim(s)
  PROVE  TypeOK'
<1> USE DEF TypeOK
<1>0. s \in Procs /\ s \in Lockers /\ s \in Changers
  BY DEF Procs, Lockers, Changers
<1>1. CASE SubmitReset(s)
  BY <1>0, <1>1 DEF SubmitReset, Goto, PcValues, rows, locks
<1>2. CASE Claim(s)
  <2>1. pc' \in [Procs -> PcValues]
    BY <1>0, <1>2 DEF Claim, Goto, PcValues
  <2>2. /\ tokenLock' \in [Requests -> Lockers \union {Nobody}]
        /\ \A t \in Requests : tokenLock'[t] # Nobody => token[t] = "open"
    BY <1>0, <1>2 DEF Claim
  <2> QED BY <1>2, <2>1, <2>2 DEF Claim, rows, inputs
<1> QED BY <1>1, <1>2

LEMMA ChangeType ==
  ASSUME TypeOK, NEW p \in Changers, OperatorBegins(p) \/ ChangeStep(p)
  PROVE  TypeOK'
<1> USE DEF TypeOK
<1>0. p \in Procs /\ p \in Lockers
  BY DEF Procs, Lockers
<1>1. CASE OperatorBegins(p)
  BY <1>0, <1>1 DEF OperatorBegins, Goto, PcValues, rows, locks
<1>2. CASE UpdateUser(p)
  BY <1>0, <1>2 DEF UpdateUser, Goto, PcValues, rows, inputs
<1>3. CASE SweepBegins(p)
  BY <1>0, <1>3 DEF SweepBegins, Goto, PcValues, OpenTokens, rows, locks, inputs
<1>4. ASSUME NEW t \in Requests, SweepRow(p, t) PROVE TypeOK'
  BY <1>0, <1>4 DEF SweepRow, rows, inputs
<1>5. CASE Commit(p)
  <2>1. pc' \in [Procs -> PcValues]
    BY <1>0, <1>5 DEF Commit, Goto, PcValues
  <2>2. pwd' \in Passwords /\ version' \in Nat
    BY <1>5 DEF Commit
  <2> QED BY <1>0, <1>5, <2>1, <2>2, EndTypes DEF Commit, inputs
<1> QED BY <1>1, <1>2, <1>3, <1>4, <1>5 DEF ChangeStep

LEMMA RollbackType ==
  ASSUME TypeOK, NEW p \in Lockers, Rollback(p)
  PROVE  TypeOK'
<1>1. pc' \in [Procs -> PcValues]
  BY DEF TypeOK, Rollback, Goto, PcValues, Procs
<1>2. sweep' \in [Lockers -> SUBSET Requests]
  BY DEF TypeOK, Rollback
<1>3. Release(p) /\ token' = token
  BY DEF Rollback, rows
<1> QED BY <1>1, <1>2, <1>3, EndTypes DEF TypeOK, Rollback, rows, inputs

LEMMA LoginType ==
  ASSUME TypeOK, NEW l \in Logins, LoginReads(l) \/ GenerateToken(l)
  PROVE  TypeOK'
<1> USE DEF TypeOK
<1>0. l \in Procs
  BY DEF Procs
<1>1. CASE LoginReads(l)
  BY <1>0, <1>1 DEF LoginReads, Goto, PcValues, rows, locks
<1>2. CASE GenerateToken(l)
  BY <1>0, <1>2 DEF GenerateToken, Goto, PcValues, rows, locks, inputs
<1> QED BY <1>1, <1>2

LEMMA TypeStep == TypeOK /\ [Next]_vars => TypeOK'
<1> SUFFICES ASSUME TypeOK, [Next]_vars PROVE TypeOK'
  OBVIOUS
<1>1. CASE Tick
  <2>1. now' \in 0..MaxTime
    BY <1>1, ResetAssumption DEF TypeOK, Tick
  <2>2. UNCHANGED <<rows, locks, pc, inputs, sweep, swept>>
    BY <1>1 DEF Tick
  <2> QED BY <2>1, <2>2 DEF TypeOK, rows, locks, inputs
<1>2. ASSUME NEW p \in Lockers, Step(p) PROVE TypeOK'
  BY <1>2, RequestType, ResetType, ChangeType DEF Step
<1>3. ASSUME NEW p \in Lockers, DeadlockAbort(p) \/ Stop(p) PROVE TypeOK'
  BY <1>3, RollbackType DEF DeadlockAbort, Stop
<1>4. ASSUME NEW r \in Requests, FindUser(r) PROVE TypeOK'
  BY <1>4, RequestType
<1>5. ASSUME NEW s \in Resets, SubmitReset(s) PROVE TypeOK'
  BY <1>5, ResetType
<1>6. ASSUME NEW o \in Operators, OperatorBegins(o) PROVE TypeOK'
  BY <1>6, ChangeType DEF Changers
<1>7. ASSUME NEW l \in Logins, LoginReads(l) \/ GenerateToken(l) PROVE TypeOK'
  BY <1>7, LoginType
<1>8. CASE UNCHANGED vars
  BY <1>8 DEF TypeOK, vars, rows, locks, inputs
<1> QED BY <1>1, <1>2, <1>3, <1>4, <1>5, <1>6, <1>7, <1>8 DEF Next

\* Types hold throughout, and only an open link is ever locked.
THEOREM TypeCorrect == Spec => []TypeOK
<1>1. Init => TypeOK
  BY InitType
<1> QED BY <1>1, TypeStep, PTL DEF Spec

-----------------------------------------------------------------------------
(* Sessions: the hash and the sessionVersion change together, and the version     *)
(* only grows, so a login that read an older row gets a session that is void.     *)

SessionInv ==
  \A l \in Logins : pc[l] \in {"verified", "issued"} =>
    seen[l] <= version /\ (seen[l] = version => entered[l] = pwd)

\* Steps that leave the account and the logins alone.
LEMMA SessionFrame ==
  ASSUME TypeOK, SessionInv, UNCHANGED <<pwd, version, entered, seen>>,
         \A l \in Logins : pc'[l] = pc[l]
  PROVE  SessionInv'
BY DEF SessionInv

LEMMA LockerKeepsSessions ==
  ASSUME TypeOK, SessionInv, NEW p \in Lockers,
         Step(p) \/ FindUser(p) \/ SubmitReset(p) \/ OperatorBegins(p) \/ Rollback(p)
  PROVE  SessionInv'
<1>1. \A l \in Logins : l # p
  BY ResetAssumption
<1>2. ASSUME NEW step, Goto(p, step) PROVE \A l \in Logins : pc'[l] = pc[l]
  BY <1>1, <1>2 DEF Goto, TypeOK, Procs
<1>3. CASE Commit(p)
  <2>1. version' = version + 1 /\ UNCHANGED <<entered, seen>> /\ Goto(p, "won")
    BY <1>3 DEF Commit, inputs
  <2> QED BY <1>2, <2>1 DEF SessionInv, TypeOK
<1>4. CASE SweepBegins(p)
  <2>1. UNCHANGED <<pwd, version, entered, seen>> /\ \E step : Goto(p, step)
    BY <1>4 DEF SweepBegins, rows, inputs
  <2> QED BY <1>2, <2>1, SessionFrame
<1>5. ASSUME NEW t, SweepRow(p, t) PROVE SessionInv'
  BY <1>5, SessionFrame DEF SweepRow, rows, inputs
<1>6. CASE InvalidateOpenTokens(p) \/ CreateToken(p) \/ InvalidateToken(p)
  <2>1. UNCHANGED <<pwd, version, entered, seen>> /\ \E step : Goto(p, step)
    BY <1>6 DEF InvalidateOpenTokens, CreateToken, InvalidateToken, inputs
  <2> QED BY <1>2, <2>1, SessionFrame
<1>7. CASE CheckCooldown(p) \/ SendResetEmail(p) \/ Claim(p) \/ UpdateUser(p) \/ Rollback(p)
  <2>1. UNCHANGED <<pwd, version, entered, seen>> /\ \E step : Goto(p, step)
    BY <1>7 DEF CheckCooldown, SendResetEmail, Claim, UpdateUser, Rollback, rows, inputs
  <2> QED BY <1>2, <2>1, SessionFrame
<1>8. CASE FindUser(p) \/ SubmitReset(p) \/ OperatorBegins(p)
  <2>1. UNCHANGED <<pwd, version, entered, seen>> /\ \E step : Goto(p, step)
    BY <1>8 DEF FindUser, SubmitReset, OperatorBegins, rows
  <2> QED BY <1>2, <2>1, SessionFrame
<1> QED BY <1>3, <1>4, <1>5, <1>6, <1>7, <1>8 DEF Step, RequestStep, ChangeStep

LEMMA SessionStep == TypeOK /\ SessionInv /\ [Next]_vars => SessionInv'
<1> SUFFICES ASSUME TypeOK, SessionInv, [Next]_vars PROVE SessionInv'
  OBVIOUS
<1>1. CASE Tick \/ UNCHANGED vars
  BY <1>1 DEF SessionInv, Tick, vars, rows, inputs
<1>2. ASSUME NEW p \in Lockers, Step(p) \/ DeadlockAbort(p) \/ Stop(p) PROVE SessionInv'
  BY <1>2, LockerKeepsSessions DEF DeadlockAbort, Stop
<1>3. ASSUME NEW r \in Requests, FindUser(r) PROVE SessionInv'
  BY <1>3, LockerKeepsSessions DEF Lockers
<1>4. ASSUME NEW s \in Resets, SubmitReset(s) PROVE SessionInv'
  BY <1>4, LockerKeepsSessions DEF Lockers, Changers
<1>5. ASSUME NEW o \in Operators, OperatorBegins(o) PROVE SessionInv'
  BY <1>5, LockerKeepsSessions DEF Lockers, Changers
<1>6. ASSUME NEW l \in Logins, LoginReads(l) PROVE SessionInv'
  BY <1>6 DEF SessionInv, LoginReads, TypeOK, Goto, Procs, rows
<1>7. ASSUME NEW l \in Logins, GenerateToken(l) PROVE SessionInv'
  BY <1>7 DEF SessionInv, GenerateToken, TypeOK, Goto, Procs, rows, inputs
<1> QED BY <1>1, <1>2, <1>3, <1>4, <1>5, <1>6, <1>7 DEF Next

\* A session verifyUserToken accepts was obtained with the account's present password,
\* for any interleaving of logins with resets.
THEOREM SessionsFollowPassword == Spec => []SessionMatchesPassword
<1>1. Init => SessionInv
  BY DEF Init, SessionInv, Procs
<1>2. SessionInv => SessionMatchesPassword
  BY DEF SessionInv, SessionMatchesPassword, ValidSession
<1> QED BY <1>1, <1>2, TypeCorrect, SessionStep, PTL DEF Spec

-----------------------------------------------------------------------------
(* Links: a change holds the account while it sweeps, and a reset holds its own   *)
(* link from the claim to the commit, so no two of them can both get through.     *)

Claimed == {"claimed", "updated", "sweeping"}
Fresh   == {"idle", "found", "checked", "invalidating", "cleared"}

HoldsLink == \A s \in Resets : pc[s] \in Claimed => tokenLock[link[s]] = s
HoldsUser == \A p \in Changers : pc[p] \in {"updated", "sweeping"} => userLock = p
RealRows == \A p \in Lockers : \A t \in sweep[p] : token[t] # "none"
NotYetCreated == \A r \in Requests : pc[r] \in Fresh => token[r] = "none"
WonIsUsed == \A s \in Resets : pc[s] = "won" => token[link[s]] = "used"

\* While a change sweeps, each link it matched is still to do, held by it, or used;
\* when it has committed they are all used.
SweptRows ==
  /\ \A p \in Changers : pc[p] = "sweeping" =>
       \A t \in swept[p] : t \in sweep[p] \/ tokenLock[t] = p \/ token[t] = "used"
  /\ \A p \in Changers : pc[p] = "won" => \A t \in swept[p] : token[t] = "used"

\* What it matched was not won before.
SweptNotWon ==
  \A p \in Changers, s \in Resets :
    pc[p] = "sweeping" /\ pc[s] = "won" => link[s] \notin swept[p]

\* Its own link, which it has claimed, is not among them.
OwnNotSwept == \A s \in Resets : pc[s] = "sweeping" => link[s] \notin swept[s]

LinkInv ==
  /\ HoldsLink /\ HoldsUser /\ RealRows /\ NotYetCreated /\ WonIsUsed /\ SweptRows /\ SweptNotWon
  /\ OwnNotSwept /\ LinkWinsOnce /\ VoidedNeverWins

LEMMA InitLink == Init => LinkInv
BY DEF Init, LinkInv, HoldsLink, HoldsUser, RealRows, NotYetCreated, WonIsUsed, SweptRows, SweptNotWon,
       OwnNotSwept, LinkWinsOnce, VoidedNeverWins, Claimed, Procs, Lockers, Changers

\* Steps of processes other than a change that commits: nobody new wins, and what the
\* resets hold and what has been used stays so.
LEMMA LinkFrame ==
  ASSUME TypeOK, LinkInv,
         HoldsLink', HoldsUser', RealRows', NotYetCreated',
         \A p \in Changers : pc'[p] \in {"sweeping", "won"} =>
           pc'[p] = pc[p] /\ swept'[p] = swept[p],
         \A s \in Resets : pc'[s] \in {"sweeping", "won"} => link'[s] = link[s],
         \A t \in Requests : token[t] = "used" => token'[t] = "used",
         \A p \in Changers, t \in Requests : pc'[p] = "sweeping" =>
           (t \in sweep[p] \/ tokenLock[t] = p => t \in sweep'[p] \/ tokenLock'[t] = p
                                                   \/ token'[t] = "used")
  PROVE  LinkInv'
<1> USE DEF LinkInv
<1>2. WonIsUsed'
  BY DEF WonIsUsed, TypeOK, Changers
<1>3. SweptRows'
  BY DEF SweptRows, TypeOK, Changers, Lockers
<1>4. SweptNotWon' /\ OwnNotSwept' /\ LinkWinsOnce' /\ VoidedNeverWins'
  BY DEF SweptNotWon, OwnNotSwept, LinkWinsOnce, VoidedNeverWins, Changers
<1> QED BY <1>2, <1>3, <1>4

\* A step that moves only the process p, and neither to nor within the steps where a
\* change holds locks, leaves what the others hold.
LEMMA RequestLink ==
  ASSUME TypeOK, LinkInv, NEW r \in Requests,
         FindUser(r) \/ CheckCooldown(r) \/ SweepBegins(r) \/ InvalidateOpenTokens(r)
           \/ CreateToken(r) \/ SendResetEmail(r) \/ InvalidateToken(r)
  PROVE  LinkInv'
<1> USE DEF LinkInv
<1>0. r \notin Changers /\ r \notin Resets /\ r \in Lockers /\ r \in Procs
  BY ResetAssumption DEF Changers, Lockers, Procs
<1>1. /\ \A q \in Changers : pc'[q] = pc[q] /\ sweep'[q] = sweep[q] /\ swept'[q] = swept[q]
      /\ link' = link
  BY <1>0 DEF FindUser, CheckCooldown, SweepBegins, InvalidateOpenTokens, CreateToken,
     SendResetEmail, InvalidateToken, Goto, TypeOK, Procs, Lockers, Changers, inputs
<1>2. /\ \A t \in Requests : tokenLock[t] # r => tokenLock'[t] = tokenLock[t]
      /\ userLock # r => userLock' = userLock
  BY DEF FindUser, CheckCooldown, SweepBegins, InvalidateOpenTokens, CreateToken,
     SendResetEmail, InvalidateToken, Release, locks
<1>3. \A t \in Requests : token[t] # "none" => token'[t] # "none"
  BY DEF FindUser, CheckCooldown, SweepBegins, InvalidateOpenTokens, CreateToken,
     SendResetEmail, InvalidateToken, MarkUsed, TypeOK, rows
<1>4. \A t \in Requests : token[t] = "used" => token'[t] = "used"
  <2>1. CASE CreateToken(r)
    BY <2>1 DEF CreateToken, NotYetCreated, Fresh, TypeOK
  <2>2. CASE ~CreateToken(r)
    BY <2>2 DEF FindUser, CheckCooldown, SweepBegins, InvalidateOpenTokens,
       SendResetEmail, InvalidateToken, MarkUsed, rows
  <2> QED BY <2>1, <2>2
<1>5. HoldsLink' /\ HoldsUser'
  BY <1>0, <1>1, <1>2 DEF HoldsLink, HoldsUser, Changers, TypeOK
<1>6. RealRows'
  <2>1. \A q \in Lockers : \A t \in sweep'[q] : t \in sweep[q] \/ token[t] = "open"
    BY <1>0 DEF FindUser, CheckCooldown, SweepBegins, InvalidateOpenTokens, CreateToken,
       SendResetEmail, InvalidateToken, OpenTokens, TypeOK
  <2>2. \A q \in Lockers : sweep'[q] \subseteq Requests
    BY <1>0 DEF FindUser, CheckCooldown, SweepBegins, InvalidateOpenTokens, CreateToken,
       SendResetEmail, InvalidateToken, OpenTokens, TypeOK
  <2> QED BY <1>3, <2>1, <2>2 DEF RealRows
<1>7. NotYetCreated'
  <2>1. \A q \in Requests : q # r => pc'[q] = pc[q]
    BY <1>0 DEF FindUser, CheckCooldown, SweepBegins, InvalidateOpenTokens, CreateToken,
       SendResetEmail, InvalidateToken, Goto, TypeOK, Procs, Lockers
  <2>2. pc'[r] \in Fresh => pc[r] \in Fresh /\ ~CreateToken(r)
    BY <1>0 DEF FindUser, CheckCooldown, SweepBegins, InvalidateOpenTokens, CreateToken,
       SendResetEmail, InvalidateToken, Goto, TypeOK, Fresh
  <2>3. \A t \in Requests : token[t] = "none" => token'[t] = "none" \/ (t = r /\ pc'[r] \notin Fresh)
    <3>1. CASE FindUser(r) \/ CheckCooldown(r) \/ SweepBegins(r) \/ SendResetEmail(r)
      BY <3>1 DEF FindUser, CheckCooldown, SweepBegins, SendResetEmail, rows
    <3>2. CASE InvalidateOpenTokens(r)
      <4>1. \A t \in Held(r) : token[t] = "open"
        BY <1>0, ResetAssumption DEF Held, TypeOK, Procs
      <4> QED BY <3>2, <4>1 DEF InvalidateOpenTokens, MarkUsed
    <3>3. CASE CreateToken(r) \/ InvalidateToken(r)
      BY <3>3, <1>0 DEF CreateToken, InvalidateToken, MarkUsed, Goto, TypeOK, Fresh
    <3> QED BY <3>1, <3>2, <3>3
  <2> QED BY <2>1, <2>2, <2>3 DEF NotYetCreated
<1>8. \A q \in Changers, t \in Requests :
        t \in sweep[q] \/ tokenLock[t] = q => t \in sweep'[q] \/ tokenLock'[t] = q
  BY <1>0, <1>1, <1>2
<1> QED BY <1>0, <1>1, <1>4, <1>5, <1>6, <1>7, <1>8, LinkFrame DEF Changers

LEMMA SweepRowLink ==
  ASSUME TypeOK, LinkInv, NEW p \in Lockers, NEW t \in Requests, SweepRow(p, t)
  PROVE  LinkInv'
<1> USE DEF LinkInv
<1>1. UNCHANGED <<token, userLock, pc, link, swept>>
  BY DEF SweepRow, rows, inputs
<1>2. \A u \in Requests : tokenLock[u] # Nobody => tokenLock'[u] = tokenLock[u]
  BY DEF SweepRow, TypeOK
<1>3. \A q \in Lockers : sweep'[q] \subseteq sweep[q]
  BY DEF SweepRow, TypeOK
<1>4. HoldsLink' /\ HoldsUser' /\ RealRows' /\ NotYetCreated'
  <2>1. \A s \in Resets : s # Nobody
    BY ResetAssumption DEF Procs, Lockers, Changers
  <2> QED BY <1>1, <1>2, <1>3, <2>1 DEF HoldsLink, HoldsUser, RealRows, NotYetCreated, TypeOK
<1>5. \A q \in Changers, u \in Requests :
        u \in sweep[q] \/ tokenLock[u] = q =>
          u \in sweep'[q] \/ tokenLock'[u] = q \/ token'[u] = "used"
  <2>1. ASSUME NEW q \in Changers, NEW u \in Requests, u \in sweep[q], u \notin sweep'[q]
        PROVE  tokenLock'[u] = q \/ token'[u] = "used"
    <3>1. q = p /\ u = t
      BY <2>1 DEF SweepRow, TypeOK, Lockers
    <3>2. token[t] # "none" /\ token[t] \in {"none", "open", "used"}
      BY <2>1, <3>1 DEF RealRows, TypeOK
    <3> QED BY <3>1, <3>2, <1>1 DEF SweepRow, TypeOK
  <2>2. \A q \in Changers : q # Nobody
    BY ResetAssumption DEF Procs, Lockers
  <2> QED BY <1>2, <2>1, <2>2
<1> QED BY <1>1, <1>4, <1>5, LinkFrame

LEMMA ClaimLink ==
  ASSUME TypeOK, LinkInv, NEW s \in Resets, SubmitReset(s) \/ Claim(s)
  PROVE  LinkInv'
<1> USE DEF LinkInv
<1>0. s \in Changers /\ s \in Procs /\ s \notin Requests
  BY ResetAssumption DEF Changers, Lockers, Procs
<1>1. UNCHANGED <<token, userLock, sweep, swept>>
  BY DEF SubmitReset, Claim, rows, locks
<1>2. \A u \in Requests : tokenLock[u] # Nobody => tokenLock'[u] = tokenLock[u]
  BY DEF SubmitReset, Claim, locks, TypeOK
<1>3. \A q \in Procs : q # s => pc'[q] = pc[q]
  BY <1>0 DEF SubmitReset, Claim, Goto, TypeOK
<1>4. pc'[s] \in {"submitted", "claimed", "ended"}
  BY <1>0 DEF SubmitReset, Claim, Goto, TypeOK
<1>5. \A q \in Resets : q # s => link'[q] = link[q]
  BY DEF SubmitReset, Claim, inputs, TypeOK
<1>6. pc'[s] = "claimed" => tokenLock'[link'[s]] = s
  BY <1>0 DEF SubmitReset, Claim, Goto, inputs, TypeOK
<1>7. \A q \in Changers : q # Nobody /\ q \in Procs
  BY ResetAssumption DEF Procs, Lockers
<1>8. HoldsLink' /\ HoldsUser' /\ RealRows' /\ NotYetCreated'
  <2>1. HoldsLink'
    BY <1>2, <1>3, <1>4, <1>5, <1>6, <1>7 DEF HoldsLink, TypeOK, Claimed, Changers
  <2>2. HoldsUser'
    BY <1>1, <1>3, <1>4, <1>7 DEF HoldsUser
  <2>3. RealRows' /\ NotYetCreated'
    BY <1>0, <1>1, <1>3 DEF RealRows, NotYetCreated, Procs, Lockers
  <2> QED BY <2>1, <2>2, <2>3
<1> QED BY <1>1, <1>2, <1>3, <1>4, <1>5, <1>7, <1>8, LinkFrame DEF Changers

LEMMA UpdateLink ==
  ASSUME TypeOK, LinkInv, NEW p \in Changers, OperatorBegins(p) \/ UpdateUser(p),
         p \in Resets => UpdateUser(p)
  PROVE  LinkInv'
<1> USE DEF LinkInv
<1>0. p \in Procs /\ p \notin Requests
  BY ResetAssumption DEF Lockers, Procs
<1>1. UNCHANGED <<token, tokenLock, link, sweep, swept>>
  BY DEF OperatorBegins, UpdateUser, rows, locks, inputs
<1>2. \A q \in Procs : q # p => pc'[q] = pc[q]
  BY <1>0 DEF OperatorBegins, UpdateUser, Goto, TypeOK
<1>3. /\ pc'[p] \in {"claimed", "updated"}
      /\ pc'[p] = "updated" => userLock' = p /\ userLock = Nobody /\ pc[p] = "claimed"
      /\ pc'[p] # "updated" => userLock' = userLock /\ p \notin Resets
  BY <1>0 DEF OperatorBegins, UpdateUser, Goto, TypeOK, locks
<1>4. \A q \in Changers : q # Nobody /\ q \in Procs
  BY ResetAssumption DEF Procs, Lockers
<1>5. HoldsLink'
  BY <1>1, <1>2, <1>3, <1>4 DEF HoldsLink, Claimed, Changers
<1>6. HoldsUser'
  BY <1>2, <1>3, <1>4 DEF HoldsUser
<1>7. RealRows' /\ NotYetCreated'
  BY <1>0, <1>1, <1>2 DEF RealRows, NotYetCreated, Procs, Lockers
<1> QED BY <1>1, <1>2, <1>3, <1>4, <1>5, <1>6, <1>7, LinkFrame DEF Changers

LEMMA SweepBeginsLink ==
  ASSUME TypeOK, LinkInv, NEW p \in Changers, SweepBegins(p)
  PROVE  LinkInv'
<1> USE DEF LinkInv
<1>0. p \in Procs /\ p \in Lockers /\ p \notin Requests
  BY ResetAssumption DEF Lockers, Procs
<1>1. /\ UNCHANGED <<token, tokenLock, userLock, link>>
      /\ pc' = [pc EXCEPT ![p] = "sweeping"] /\ pc[p] = "updated"
  BY <1>0 DEF SweepBegins, Goto, rows, locks, inputs
<1>2. /\ \A q \in Lockers : q # p => sweep'[q] = sweep[q] /\ swept'[q] = swept[q]
      /\ sweep'[p] = swept'[p]
      /\ \A t \in swept'[p] : t \in Requests /\ token[t] = "open"
  BY <1>0 DEF SweepBegins, OpenTokens, TypeOK
<1>3. \A q \in Changers : q \in Procs /\ q \in Lockers
  BY DEF Procs, Lockers
<1>4. HoldsLink' /\ HoldsUser'
  BY <1>1, <1>3 DEF HoldsLink, HoldsUser, Claimed, Changers, TypeOK
<1>5. RealRows' /\ NotYetCreated'
  BY <1>0, <1>1, <1>2 DEF RealRows, NotYetCreated, TypeOK, Fresh, Procs, Lockers
<1>6. WonIsUsed'
  BY <1>1, <1>3 DEF WonIsUsed, Changers, TypeOK
<1>7. SweptRows'
  BY <1>1, <1>2, <1>3 DEF SweptRows, TypeOK
<1>8. SweptNotWon'
  BY <1>1, <1>2, <1>3 DEF SweptNotWon, WonIsUsed, TypeOK, Changers
<1>9. LinkWinsOnce' /\ VoidedNeverWins'
  BY <1>1, <1>2, <1>3 DEF LinkWinsOnce, VoidedNeverWins, TypeOK, Changers
<1>10. OwnNotSwept'
  <2>1. p \in Resets => link[p] \notin swept'[p]
    <3>1. swept'[p] \intersect Held(p) = {}
      BY <1>0 DEF SweepBegins, TypeOK
    <3> QED BY <3>1, <1>1 DEF HoldsLink, Held, Claimed, TypeOK
  <2> QED BY <1>1, <1>2, <1>3, <2>1 DEF OwnNotSwept, TypeOK, Changers
<1> QED BY <1>4, <1>5, <1>6, <1>7, <1>8, <1>9, <1>10

\* The commit: the account's lock keeps every other change out of its last steps.
LEMMA CommitLink ==
  ASSUME TypeOK, LinkInv, NEW p \in Changers, Commit(p)
  PROVE  LinkInv'
<1> USE DEF LinkInv
<1>0. p \in Procs /\ p \in Lockers /\ p \notin Requests /\ p # Nobody
  BY ResetAssumption DEF Lockers, Procs
<1>1. /\ UNCHANGED <<link, sweep, swept>> /\ Release(p) /\ MarkUsed(Held(p))
      /\ pc' = [pc EXCEPT ![p] = "won"] /\ pc[p] = "sweeping" /\ sweep[p] = {}
  BY DEF Commit, Goto, inputs
<1>2. \A q \in Changers : q \in Procs /\ q \in Lockers /\ q # Nobody
  BY ResetAssumption DEF Procs, Lockers
<1>3. /\ \A t \in Requests : tokenLock[t] = p => token'[t] = "used"
      /\ \A t \in Requests : tokenLock[t] # p => token'[t] = token[t] /\ tokenLock'[t] = tokenLock[t]
      /\ \A t \in Requests : token[t] = "used" => token'[t] = "used"
  BY <1>1 DEF MarkUsed, Held, Release
<1>4. userLock = p /\ userLock' = Nobody
  BY <1>1 DEF HoldsUser, Release
<1>5. \A q \in Changers : q # p => pc[q] \notin {"updated", "sweeping"} /\ pc'[q] = pc[q]
  BY <1>1, <1>2, <1>4 DEF HoldsUser, TypeOK
<1>6. HoldsLink' /\ HoldsUser'
  BY <1>0, <1>1, <1>2, <1>3, <1>5 DEF HoldsLink, HoldsUser, Claimed, Changers, TypeOK
<1>7. RealRows' /\ NotYetCreated'
  <2>1. \A t \in Requests : token[t] # "none" => token'[t] # "none"
    BY <1>3
  <2>2. \A t \in Requests : token[t] = "none" => token'[t] = "none"
    BY <1>0, <1>3 DEF TypeOK
  <2>3. \A r \in Requests : pc'[r] = pc[r]
    BY <1>0, <1>1 DEF TypeOK, Procs, Lockers
  <2> QED BY <1>1, <2>1, <2>2, <2>3 DEF RealRows, NotYetCreated, TypeOK
<1>8. WonIsUsed'
  BY <1>0, <1>1, <1>2, <1>3, <1>5 DEF WonIsUsed, HoldsLink, Claimed, Changers, TypeOK
<1>9. SweptRows'
  <2>1. \A q \in Changers : q # p => pc'[q] # "sweeping"
    BY <1>5
  <2>2. \A q \in Changers : q # p /\ pc'[q] = "won" => \A t \in swept'[q] : token'[t] = "used"
    BY <1>1, <1>2, <1>3, <1>5 DEF SweptRows, TypeOK
  <2>3. \A t \in swept'[p] : token'[t] = "used"
    BY <1>0, <1>1, <1>2, <1>3 DEF SweptRows, TypeOK
  <2>4. pc'[p] = "won"
    BY <1>0, <1>1 DEF TypeOK
  <2> QED BY <2>1, <2>2, <2>3, <2>4 DEF SweptRows
<1>10. SweptNotWon'
  BY <1>0, <1>1, <1>5 DEF SweptNotWon, TypeOK
<1>11. LinkWinsOnce'
  <2>1. ASSUME p \in Resets, NEW s \in Resets, s # p, pc[s] = "won" PROVE link[s] # link[p]
    <3>1. token[link[p]] = "open"
      BY <2>1, <1>0, <1>1 DEF HoldsLink, Claimed, TypeOK
    <3> QED BY <2>1, <3>1 DEF WonIsUsed
  <2> QED BY <2>1, <1>1, <1>2, <1>5 DEF LinkWinsOnce, TypeOK, Changers
<1>12. VoidedNeverWins'
  <2>1. ASSUME NEW q \in Changers, q # p, pc[q] = "won", p \in Resets PROVE link[p] \notin swept[q]
    <3>1. token[link[p]] = "open"
      BY <2>1, <1>0, <1>1 DEF HoldsLink, Claimed, TypeOK
    <3> QED BY <2>1, <3>1 DEF SweptRows
  <2>2. ASSUME NEW s \in Resets, s # p, pc[s] = "won" PROVE link[s] \notin swept[p]
    BY <2>2, <1>1 DEF SweptNotWon
  <2>3. ASSUME p \in Resets PROVE link[p] \notin swept[p]
    BY <2>3, <1>1 DEF OwnNotSwept
  <2> QED BY <1>1, <1>2, <1>5, <2>1, <2>2, <2>3 DEF VoidedNeverWins, TypeOK, Changers
<1>13. OwnNotSwept'
  BY <1>0, <1>1, <1>2, <1>5 DEF OwnNotSwept, TypeOK, Changers
<1> QED BY <1>6, <1>7, <1>8, <1>9, <1>10, <1>11, <1>12, <1>13

LEMMA RollbackLink ==
  ASSUME TypeOK, LinkInv, NEW p \in Lockers, Rollback(p)
  PROVE  LinkInv'
<1> USE DEF LinkInv
<1>0. p \in Procs
  BY DEF Procs
<1>1. /\ UNCHANGED <<token, link, swept>> /\ Release(p)
      /\ pc' = [pc EXCEPT ![p] = "ended"] /\ sweep' = [sweep EXCEPT ![p] = {}]
  BY DEF Rollback, Goto, rows, inputs
<1>2. /\ \A t \in Requests : tokenLock[t] # p => tokenLock'[t] = tokenLock[t]
      /\ userLock # p => userLock' = userLock
  BY <1>1 DEF Release
<1>3. \A q \in Lockers : q \in Procs
  BY DEF Procs
<1>4. HoldsLink' /\ HoldsUser'
  BY <1>0, <1>1, <1>2, <1>3 DEF HoldsLink, HoldsUser, Claimed, TypeOK, Lockers, Changers
<1>5. RealRows' /\ NotYetCreated'
  BY <1>0, <1>1, <1>3 DEF RealRows, NotYetCreated, TypeOK, Fresh, Lockers
<1>6. \A q \in Changers : pc'[q] # "ended" =>
        q # p /\ pc'[q] = pc[q] /\ sweep'[q] = sweep[q]
  BY <1>0, <1>1, <1>3 DEF TypeOK, Lockers
<1>7. \A q \in Changers, t \in Requests : pc'[q] = "sweeping" =>
        (t \in sweep[q] \/ tokenLock[t] = q => t \in sweep'[q] \/ tokenLock'[t] = q)
  BY <1>2, <1>6
<1> QED BY <1>1, <1>4, <1>5, <1>6, <1>7, LinkFrame

LEMMA LinkStep == TypeOK /\ LinkInv /\ [Next]_vars => LinkInv'
<1> SUFFICES ASSUME TypeOK, LinkInv, [Next]_vars PROVE LinkInv'
  OBVIOUS
<1>0. \A l \in Logins : l \notin Lockers
  BY ResetAssumption
<1>1. ASSUME UNCHANGED <<token, tokenLock, userLock, link, sweep, swept>>,
             \A p \in Lockers : pc'[p] = pc[p]
      PROVE  LinkInv'
  BY <1>1 DEF LinkInv, HoldsLink, HoldsUser, RealRows, NotYetCreated, WonIsUsed, SweptRows,
     SweptNotWon, OwnNotSwept, LinkWinsOnce, VoidedNeverWins, Lockers, Changers
<1>2. CASE Tick \/ UNCHANGED vars
  BY <1>1, <1>2 DEF Tick, vars, rows, locks, inputs
<1>3. ASSUME NEW l \in Logins, LoginReads(l) \/ GenerateToken(l) PROVE LinkInv'
  <2>1. \A p \in Lockers : pc'[p] = pc[p]
    BY <1>0, <1>3 DEF LoginReads, GenerateToken, Goto, TypeOK, Procs
  <2> QED BY <1>1, <1>3, <2>1 DEF LoginReads, GenerateToken, rows, locks, inputs
<1>4. ASSUME NEW p \in Lockers, Step(p) PROVE LinkInv'
  <2>1. ASSUME NEW t \in Requests, SweepRow(p, t) PROVE LinkInv'
    BY <2>1, SweepRowLink
  <2>2. CASE p \in Requests /\ RequestStep(p)
    BY <2>1, <2>2, RequestLink DEF RequestStep
  <2>3. CASE p \in Resets /\ Claim(p)
    BY <2>3, ClaimLink
  <2>4. CASE p \in Changers /\ ChangeStep(p)
    BY <2>1, <2>4, UpdateLink, SweepBeginsLink, CommitLink DEF ChangeStep
  <2> QED BY <1>4, <2>2, <2>3, <2>4 DEF Step
<1>5. ASSUME NEW p \in Lockers, DeadlockAbort(p) \/ Stop(p) PROVE LinkInv'
  BY <1>5, RollbackLink DEF DeadlockAbort, Stop
<1>6. ASSUME NEW r \in Requests, FindUser(r) PROVE LinkInv'
  BY <1>6, RequestLink
<1>7. ASSUME NEW s \in Resets, SubmitReset(s) PROVE LinkInv'
  BY <1>7, ClaimLink
<1>8. ASSUME NEW o \in Operators, OperatorBegins(o) PROVE LinkInv'
  BY <1>8, UpdateLink, ResetAssumption DEF Changers
<1> QED BY <1>2, <1>3, <1>4, <1>5, <1>6, <1>7, <1>8 DEF Next

\* A reset link changes the password at most once, however often and by however many
\* requests it is submitted together (claimAndReset).
THEOREM LinkIsSpent == Spec => []LinkWinsOnce
<1>1. LinkInv => LinkWinsOnce
  BY DEF LinkInv
<1> QED BY <1>1, TypeCorrect, InitLink, LinkStep, PTL DEF Spec

\* Of the links open together, the first reset or operator reset that commits leaves
\* none that can still change the password.
THEOREM VoidedLinksStayVoid == Spec => []VoidedNeverWins
<1>1. LinkInv => VoidedNeverWins
  BY DEF LinkInv
<1> QED BY <1>1, TypeCorrect, InitLink, LinkStep, PTL DEF Spec

=============================================================================
