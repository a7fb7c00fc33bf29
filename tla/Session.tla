------------------------------ MODULE Session ------------------------------
(***************************************************************************)
(* A tab of the frontend, the session cookie of its browser, and the       *)
(* account behind it: frontend AuthProvider, RequireSession, AuthForm,     *)
(* TurnstileWidget and proxy.ts, the routes under app/api/session that     *)
(* stand between them and the backend, and the backend's registration,     *)
(* login and /me (routes/auth.ts, middleware/user_auth.ts).                *)
(*                                                                         *)
(* The account is its sessionVersion counted from 1, and 0 before it is    *)
(* registered; a token is the version it was issued for, 0 for no cookie.  *)
(* The browser's other tabs reach this one through the cookie, other       *)
(* people and devices through the account.  An answer takes effect where   *)
(* it arrives, in whatever order that is.  The tab has one submission      *)
(* under way at a time, and two calls of refresh in the same state with    *)
(* the same token are one.                                                 *)
(***************************************************************************)
EXTENDS Integers, FiniteSets

CONSTANTS
  TargetResolves,  \* does forwardToBackend call the address it was given?
  Https,           \* does the browser take the Secure cookie that clears the session?
  MaxVersion,      \* bound on the account's versions
  Entries,         \* pages opened by their address
  MaxActs,         \* bound on the user's acts
  MaxFaults        \* bound on the calls that fail on the way

ASSUME SessionAssumption ==
  /\ TargetResolves \in BOOLEAN /\ Https \in BOOLEAN
  /\ MaxVersion \in Nat \ {0} /\ MaxActs \in Nat /\ MaxFaults \in Nat
  /\ Entries \subseteq {"home", "login", "signup", "convert"}

VARIABLES
  account, cookie,
  page,       \* "login back" is /login?returnTo=%2Fconvert
  status,     \* AuthProvider's
  reads,      \* refreshes under way: whose, how far, and the token they carry
  form,       \* AuthForm's submission: how far, by which page, and its token
  challenge,  \* TurnstileWidget's token: none, fresh, or spent by a submission
  logout,     \* is a logout under way?
  acts, faults

sessionVars == <<account, cookie, page, status, reads, form, challenge, logout, acts, faults>>

Versions  == 1..MaxVersion
Pages     == {"home", "login", "login back", "signup", "convert"}
FormPages == {"login", "login back", "signup"}
Read      == [for : {"page", "form"}, at : {"sent", "checked"}, token : 0..MaxVersion]
Forms     == [at : {"idle", "posting", "creating", "granted", "refreshing"},
              by : FormPages, token : 0..MaxVersion, fresh : BOOLEAN]
NoForm    == [at |-> "idle", by |-> "login", token |-> 0, fresh |-> FALSE]

SessionTypeOK ==
  /\ account \in 0..MaxVersion /\ cookie \in 0..account
  /\ page \in Pages
  /\ status \in {"loading", "authenticated", "anonymous"}
  /\ reads \subseteq Read
  /\ form \in Forms
  /\ challenge \in {"none", "fresh", "spent"}
  /\ logout \in BOOLEAN
  /\ acts \in 0..MaxActs /\ faults \in 0..MaxFaults

----------------------------------------------------------------------------
\* Fault: a browser with a cookie is sent on from the login page.
ArriveByCookie(p) ==
  CASE p = "convert" /\ cookie = 0 -> "login back"
    [] p \in {"login", "login back"} /\ cookie # 0 -> "convert"
    [] OTHER -> p

\* proxy.ts: where a navigation to p ends.
Arrive(p) == IF p = "convert" /\ cookie = 0 THEN "login back" ELSE p

\* verifyUserToken
Accepted(token) == token # 0 /\ token = account

\* refresh: GET /api/session/me, which takes the token from the cookie.
Sent(whose, token) == [for |-> whose, at |-> "sent", token |-> token]

Act == acts < MaxActs /\ acts' = acts + 1
Fault == faults < MaxFaults /\ faults' = faults + 1

SetForm(at, token) == form' = [form EXCEPT !.at = at, !.token = token]

(* What the backend has begun it ends, also when nobody waits for it: the  *)
(* account after a registration that is given up.                          *)
GoesOn ==
  IF form.by = "signup" /\ form.at \in {"posting", "creating"} /\ form.fresh /\ account = 0
  THEN {0, 1} ELSE {account}

(* ------------------------------- the user ------------------------------- *)

\* The address bar, a reload or a plain link.  The tab's calls are dropped.
Open(p) ==
  /\ Act
  /\ page' = Arrive(p)
  /\ status' = "loading"
  /\ reads' = {Sent("page", cookie)}
  /\ form' = NoForm
  /\ challenge' = "none"
  /\ logout' = FALSE
  /\ account' \in GoesOn
  /\ UNCHANGED <<cookie, faults>>

\* The home page's links, which keep the tab's state.
Follow ==
  /\ page = "home" /\ Act
  /\ page' = Arrive(IF status = "authenticated" THEN "convert" ELSE "login")
  /\ UNCHANGED <<account, cookie, status, reads, form, challenge, logout, faults>>

Submit ==
  /\ page \in FormPages /\ form.at = "idle"
  /\ page = "signup" => challenge # "none"
  /\ Act
  /\ form' = [at |-> "posting", by |-> page, token |-> 0, fresh |-> challenge = "fresh"]
  /\ challenge' = IF page = "signup" THEN "spent" ELSE challenge
  /\ UNCHANGED <<account, cookie, page, status, reads, logout, faults>>

PressLogout ==
  /\ page = "convert" /\ status # "loading" /\ ~logout /\ Act
  /\ logout' = TRUE
  /\ UNCHANGED <<account, cookie, page, status, reads, form, challenge, faults>>

\* Another tab of the browser signs in or out.
OtherTab ==
  /\ cookie' \in {0, account} /\ Act
  /\ UNCHANGED <<account, page, status, reads, form, challenge, logout, faults>>

(* The name is registered by someone else, or the password is changed by a *)
(* reset link: in this browser, whose cookie the route clears, or another. *)
Elsewhere ==
  /\ account < MaxVersion
  /\ account' = account + 1
  /\ cookie' \in {cookie, 0}
  /\ UNCHANGED <<page, status, reads, form, challenge, logout, acts, faults>>

\* callback, expired-callback and error-callback of the widget.
TurnstileAnswers ==
  /\ page = "signup"
  /\ IF challenge = "none"
     THEN challenge' = "fresh" /\ UNCHANGED acts
     ELSE challenge' = "none" /\ Act
  /\ UNCHANGED <<account, cookie, page, status, reads, form, logout, faults>>

(* --------------------------- signing in and up -------------------------- *)

(* AuthForm on an answer that is not ok: a registration needs a new        *)
(* challenge.                                                              *)
Refused ==
  /\ SetForm("idle", 0)
  /\ challenge' = IF form.by = "signup" THEN "none" ELSE challenge

\* The password is right or wrong.
LoginChecked ==
  /\ form.at = "posting" /\ form.by # "signup" /\ TargetResolves
  /\ \/ account # 0 /\ SetForm("granted", account) /\ UNCHANGED challenge
     \/ Refused
  /\ UNCHANGED <<account, cookie, page, status, reads, logout, acts, faults>>

\* Cloudflare accepts a token once.
VerifyTurnstile == form.fresh

\* verifyTurnstile, then the search for the username or the email.
RegisterChecked ==
  /\ form.at = "posting" /\ form.by = "signup" /\ TargetResolves
  /\ \/ VerifyTurnstile /\ account = 0 /\ SetForm("creating", 0) /\ UNCHANGED challenge
     \/ Refused
  /\ UNCHANGED <<account, cookie, page, status, reads, logout, acts, faults>>

\* The password is hashed meanwhile; a unique index refuses the second row.
RegisterCreates ==
  /\ form.at = "creating"
  /\ IF account = 0
     THEN account' = 1 /\ SetForm("granted", 1) /\ UNCHANGED challenge
     ELSE Refused /\ UNCHANGED account
  /\ UNCHANGED <<cookie, page, status, reads, logout, acts, faults>>

(* A call that fails: between route and backend, or between browser and    *)
(* route, where the form keeps its challenge, spent or not.                *)
SubmitFails ==
  /\ form.at \in {"posting", "creating", "granted"}
  /\ \/ Fault
     \/ ~TargetResolves /\ UNCHANGED faults
  /\ \/ Refused
     \/ /\ SetForm("idle", 0)
        /\ challenge' \in {challenge} \union
             (IF form.fresh /\ form.at = "posting" /\ challenge = "spent" THEN {"fresh"} ELSE {})
  /\ account' \in GoesOn
  /\ UNCHANGED <<cookie, page, status, reads, logout, acts>>

\* Fault: the button stays busy when the call fails.
FailsUnnoticed ==
  /\ form.at \in {"posting", "creating", "granted"} /\ Fault
  /\ SetForm("posting", 0)
  /\ UNCHANGED <<account, cookie, page, status, reads, challenge, logout, acts>>

\* The answer sets the cookie, and handleSubmit awaits refresh.
SignedIn ==
  /\ form.at = "granted"
  /\ cookie' = form.token
  /\ SetForm("refreshing", 0)
  /\ reads' = reads \union {Sent("form", cookie')}
  /\ UNCHANGED <<account, page, status, challenge, logout, acts, faults>>

(* ---------------------------- who is signed in -------------------------- *)

(* The route and /api/auth/me.  A refusal, a failure and an absent cookie  *)
(* all answer { user: null }.                                              *)
MeChecked(r) ==
  /\ r \in reads /\ r.at = "sent"
  /\ \/ /\ UNCHANGED faults
        /\ LET user == IF Accepted(r.token) /\ TargetResolves THEN r.token ELSE 0 IN
           reads' = (reads \ {r}) \union {[r EXCEPT !.at = "checked", !.token = user]}
     \/ /\ Fault
        /\ reads' = (reads \ {r}) \union {[r EXCEPT !.at = "checked", !.token = 0]}
  /\ UNCHANGED <<account, cookie, page, status, form, challenge, logout, acts>>

\* normalizeClientReturnTo
Target == IF form.by = "login" THEN "home" ELSE "convert"

(* The answer sets the status; the form's also ends the submission, and    *)
(* router.replace takes the tab to its target wherever it is by then.      *)
ReadApplied(r) ==
  /\ r \in reads /\ r.at = "checked"
  /\ reads' = reads \ {r}
  /\ status' = IF r.token # 0 THEN "authenticated" ELSE "anonymous"
  /\ IF r.for = "form"
     THEN SetForm("idle", 0) /\ page' = Arrive(Target)
     ELSE UNCHANGED <<form, page>>
  /\ UNCHANGED <<account, cookie, challenge, logout, acts, faults>>

\* RequireSession, which wraps the pages under app/(app) and those alone.
Redirect ==
  /\ page = "convert" /\ status = "anonymous"
  /\ page' = Arrive("login back")
  /\ UNCHANGED <<account, cookie, status, reads, form, challenge, logout, acts, faults>>

\* logout sets the tab to anonymous whether the call succeeds or not.
LoggedOut ==
  /\ logout
  /\ logout' = FALSE
  /\ status' = "anonymous"
  /\ \/ cookie' = (IF Https THEN 0 ELSE cookie) /\ UNCHANGED faults
     \/ Fault /\ UNCHANGED cookie
  /\ UNCHANGED <<account, page, reads, form, challenge, acts>>

----------------------------------------------------------------------------
SessionInit ==
  /\ account \in {0, 1} /\ cookie \in {0, account}
  /\ page \in {"home"} \union Entries
  /\ page = Arrive(page)
  /\ status = "loading"
  /\ reads = {Sent("page", cookie)}
  /\ form = NoForm
  /\ challenge = "none"
  /\ logout = FALSE
  /\ acts = 0 /\ faults = 0

UserActs ==
  \/ \E p \in Entries : Open(p)
  \/ Follow \/ Submit \/ PressLogout \/ TurnstileAnswers

Proceeds ==
  \/ LoginChecked \/ RegisterChecked \/ RegisterCreates
  \/ SubmitFails \/ SignedIn \/ LoggedOut \/ Redirect
  \/ \E r \in reads : MeChecked(r) \/ ReadApplied(r)

SessionNext == OtherTab \/ Elsewhere \/ UserActs \/ Proceeds

(* Every call is answered or fails: the backend answers 408 after ten      *)
(* seconds and a connection that ends fails the fetch.  The effects of     *)
(* React run.  Nothing is assumed of the user.                             *)
SessionFairness == WF_sessionVars(Proceeds)

SessionSpec == SessionInit /\ [][SessionNext]_sessionVars /\ SessionFairness

----------------------------------------------------------------------------
Resting ==
  /\ reads = {} /\ form.at = "idle" /\ ~logout
  /\ status # "loading"
  /\ page = "convert" => status = "authenticated"

(* Left alone, the tab comes to rest: no spinner, no busy form, and on the *)
(* workspace only if someone is signed in.  The cookie that proxy.ts looks *)
(* at and the status that RequireSession looks at may disagree for good,   *)
(* and must not send the tab back and forth.                               *)
TabSettles == <>[]Resting

(* forwardToBackend resolves the backend's address per call so that proxied *)
(* requests do not fail: a submission fails only when something on the way *)
(* failed.                                                                 *)
CallsReachBackend == [][SubmitFails => faults' > faults]_sessionVars
============================================================================
