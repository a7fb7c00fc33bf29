--------------------------- MODULE CircuitBreaker ---------------------------
(***************************************************************************)
(* conversionBreaker (backend utils/circuit_breaker.ts), shared by every   *)
(* call of the backend to the conversion service                           *)
(* (services/conversion_service_client.ts).                                *)
(*                                                                         *)
(* execute runs up to `await fn()` in one go; the rest, onSuccess or       *)
(* onFailure, runs when the call ends, with whatever state the breaker has *)
(* by then.  A status read times out after 10 s, a submission or download  *)
(* after 300 s, so calls do outlive the reset timeout of 60 s.  The call   *)
(* that the breaker refuses changes nothing and is not a step here.        *)
(***************************************************************************)
EXTENDS Naturals, FiniteSets

CONSTANTS
  Calls,        \* calls that can be in flight together
  Threshold,    \* countable failures that open the circuit
  ResetTimeout  \* time it stays open

ASSUME BreakerAssumption ==
  /\ Threshold \in Nat \ {0}
  /\ ResetTimeout \in Nat \ {0}

VARIABLES
  state,             \* closed, open or half-open
  failureCount,
  halfOpenInflight,
  sinceFailure,      \* Date.now() - lastFailureTime, counted up to ResetTimeout
  call,              \* per call: idle, admitted when closed, or admitted as a probe
  up,                \* does the conversion service answer?
  exposed,           \* calls in flight at some moment the service was down
  streak             \* history: countable failures since the last success,
                     \* counted up to Threshold

breakerVars == <<state, failureCount, halfOpenInflight, sinceFailure>>
vars == <<state, failureCount, halfOpenInflight, sinceFailure, call, up, exposed, streak>>

States == {"closed", "open", "half-open"}

-----------------------------------------------------------------------------
InFlight == {c \in Calls : call[c] # "idle"}
Probes   == {c \in Calls : call[c] = "probe"}

Enter(c, kind) ==
  /\ call[c] = "idle"
  /\ call' = [call EXCEPT ![c] = kind]
  /\ exposed' = IF up THEN exposed ELSE exposed \union {c}

Leave(c) ==
  /\ c \in InFlight
  /\ call' = [call EXCEPT ![c] = "idle"]
  /\ exposed' = exposed \ {c}

\* The circuit lets a probe through: half-open, or open for long enough.
MayProbe ==
  /\ state = "half-open" \/ (state = "open" /\ sinceFailure >= ResetTimeout)
  /\ ~halfOpenInflight

AdmitClosed(c) ==
  /\ state = "closed" /\ Enter(c, "plain")
  /\ UNCHANGED breakerVars

AdmitProbe(c) ==
  /\ MayProbe /\ Enter(c, "probe")
  /\ state' = "half-open"
  /\ halfOpenInflight' = TRUE
  /\ UNCHANGED <<failureCount, sinceFailure>>

\* execute, up to the call.
Admitted(c) == AdmitClosed(c) \/ AdmitProbe(c)

Execute(c) ==
  /\ Admitted(c)
  /\ UNCHANGED <<up, streak>>

\* Fault: only a failure resets the flag.
SuccessKeepsFlag ==
  /\ failureCount' = 0
  /\ state' = IF state = "half-open" THEN "closed" ELSE state
  /\ UNCHANGED <<halfOpenInflight, sinceFailure>>

OnSuccess ==
  /\ failureCount' = 0
  /\ halfOpenInflight' = FALSE
  /\ state' = IF state = "half-open" THEN "closed" ELSE state
  /\ UNCHANGED sinceFailure

\* Fault: an error that does not count returns before the flag is reset.
FlagOnlyIfCountable(countable) ==
  /\ sinceFailure' = 0
  /\ halfOpenInflight' = (halfOpenInflight /\ ~countable)
  /\ failureCount' = IF countable /\ state = "closed" THEN failureCount + 1 ELSE failureCount
  /\ state' = IF countable /\ (state = "half-open" \/ failureCount' >= Threshold)
              THEN "open" ELSE state

\* Fault: a client error counts.
CountClientErrors(countable) ==
  /\ sinceFailure' = 0
  /\ halfOpenInflight' = FALSE
  /\ failureCount' = IF state = "closed" THEN failureCount + 1 ELSE failureCount
  /\ state' = IF state = "half-open" \/ failureCount' >= Threshold THEN "open" ELSE state

\* The count moves only in the closed state, so reaching the threshold opens it.
OnFailure(countable) ==
  /\ sinceFailure' = 0
  /\ halfOpenInflight' = FALSE
  /\ failureCount' = IF countable /\ state = "closed" THEN failureCount + 1 ELSE failureCount
  /\ state' = IF countable /\ (state = "half-open" \/ failureCount' >= Threshold)
              THEN "open" ELSE state

Succeed(c) ==
  /\ up /\ Leave(c)
  /\ OnSuccess
  /\ streak' = 0
  /\ UNCHANGED up

\* 4xx: isFailureCountable says no.
ClientError(c) ==
  /\ up /\ Leave(c)
  /\ OnFailure(FALSE)
  /\ UNCHANGED <<up, streak>>

\* 5xx, timeout, dropped connection.
ServerFailure(c) ==
  /\ c \in exposed /\ Leave(c)
  /\ OnFailure(TRUE)
  /\ streak' = IF streak < Threshold THEN streak + 1 ELSE streak
  /\ UNCHANGED up

Finish(c) == Succeed(c) \/ ClientError(c) \/ ServerFailure(c)

Tick ==
  /\ sinceFailure < ResetTimeout
  /\ sinceFailure' = sinceFailure + 1
  /\ UNCHANGED <<state, failureCount, halfOpenInflight, call, up, exposed, streak>>

\* The service goes down or comes back; whatever is in flight meanwhile may fail.
Outage ==
  /\ up' = ~up
  /\ exposed' = IF up THEN InFlight ELSE exposed
  /\ UNCHANGED <<breakerVars, call, streak>>

-----------------------------------------------------------------------------
\* lastFailureTime starts at 0, long ago.
Init ==
  /\ state = "closed" /\ failureCount = 0 /\ halfOpenInflight = FALSE
  /\ sinceFailure = ResetTimeout
  /\ call = [c \in Calls |-> "idle"]
  /\ up = TRUE /\ exposed = {} /\ streak = 0

Next ==
  \/ \E c \in Calls : Execute(c) \/ Finish(c)
  \/ Tick \/ Outage

Spec == Init /\ [][Next]_vars

-----------------------------------------------------------------------------
(* Properties *)

\* Types; in particular failures of probes and late failures never push the count
\* beyond the threshold (the comment in execute: a half-open failure must not
\* accelerate failureCount).
TypeOK ==
  /\ state \in States
  /\ failureCount \in 0..Threshold
  /\ halfOpenInflight \in BOOLEAN
  /\ sinceFailure \in 0..ResetTimeout
  /\ call \in [Calls -> {"idle", "plain", "probe"}]
  /\ up \in BOOLEAN /\ exposed \subseteq InFlight
  /\ streak \in 0..Threshold

\* A circuit that closes after a probe has its whole allowance again, also when late
\* calls ended meanwhile (onSuccess).
ClosedBelowThreshold == state = "closed" => failureCount < Threshold

\* The flag that refuses further probes ("only one at a time") stands for a probe that
\* will end and clear it; a flag left behind by any of the ways a call ends would refuse
\* every call for ever.
FlagMeansProbe == halfOpenInflight => state = "half-open" /\ Probes # {}

\* The circuit opens only after Threshold failures of the service with no success in
\* between, whatever client errors are mixed in (isFailureCountable).
OpensOnOutageOnly ==
  [][state = "closed" /\ state' = "open" => streak' = Threshold]_vars

=============================================================================
