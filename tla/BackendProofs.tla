--------------------------- MODULE BackendProofs ----------------------------
(* Proofs about CircuitBreaker, Migration and BackendServer: for any calls,  *)
(* threshold and reset timeout, any databases and requests, and with signals *)
(* at any time.                                                              *)
EXTENDS BackendServer, TLAPS

-----------------------------------------------------------------------------
(* The circuit breaker. *)

\* In the closed state the code's count never runs ahead of the failures that
\* really happened since the last success.
CountIsBacked == state = "closed" => failureCount <= streak

Inv == TypeOK /\ ClosedBelowThreshold /\ FlagMeansProbe /\ CountIsBacked

LEMMA InitInv == Init => Inv
<1> SUFFICES ASSUME Init PROVE Inv
  OBVIOUS
<1> USE BreakerAssumption DEF Init
<1>1. failureCount \in 0..Threshold /\ sinceFailure \in 0..ResetTimeout /\ streak \in 0..Threshold
  OBVIOUS
<1>2. state \in States /\ halfOpenInflight \in BOOLEAN /\ up \in BOOLEAN
  BY Zenon DEF States
<1>3. call \in [Calls -> {"idle", "plain", "probe"}] /\ exposed \subseteq InFlight
  OBVIOUS
<1>4. ClosedBelowThreshold /\ CountIsBacked
  BY DEF ClosedBelowThreshold, CountIsBacked
<1>5. FlagMeansProbe
  BY DEF FlagMeansProbe
<1> QED BY <1>1, <1>2, <1>3, <1>4, <1>5 DEF Inv, TypeOK

LEMMA ExecuteInv ==
  ASSUME Inv, NEW c \in Calls, Execute(c)
  PROVE  Inv'
<1> USE BreakerAssumption DEF Inv
<1>1. CASE AdmitClosed(c)
  <2>1. TypeOK'
    BY <1>1 DEF TypeOK, Execute, AdmitClosed, Enter, InFlight, breakerVars
  <2>2. FlagMeansProbe'
    BY <1>1 DEF FlagMeansProbe, AdmitClosed, breakerVars
  <2>3. ClosedBelowThreshold' /\ CountIsBacked'
    BY <1>1 DEF ClosedBelowThreshold, CountIsBacked, AdmitClosed, Execute, breakerVars
  <2> QED BY <2>1, <2>2, <2>3
<1>2. CASE AdmitProbe(c)
  <2>1. TypeOK'
    BY <1>2 DEF TypeOK, States, Execute, AdmitProbe, Enter, InFlight
  <2>2. call'[c] = "probe"
    BY <1>2 DEF TypeOK, AdmitProbe, Enter
  <2>3. FlagMeansProbe'
    BY <1>2, <2>2 DEF FlagMeansProbe, AdmitProbe, Probes
  <2>4. ClosedBelowThreshold' /\ CountIsBacked'
    BY <1>2 DEF ClosedBelowThreshold, CountIsBacked, AdmitProbe
  <2> QED BY <2>1, <2>3, <2>4
<1> QED BY <1>1, <1>2 DEF Execute, Admitted

\* What ending a call does to the calls in flight.
LEMMA LeaveTypes ==
  ASSUME TypeOK, NEW c \in Calls, Leave(c)
  PROVE  call' \in [Calls -> {"idle", "plain", "probe"}] /\ exposed' \subseteq InFlight'
<1>1. call' = [call EXCEPT ![c] = "idle"] /\ exposed' = exposed \ {c}
  BY DEF Leave
<1>2. call' \in [Calls -> {"idle", "plain", "probe"}]
  BY <1>1 DEF TypeOK
<1>3. ASSUME NEW d \in exposed' PROVE d \in InFlight'
  BY <1>1, <1>3 DEF TypeOK, InFlight
<1> QED BY <1>2, <1>3

LEMMA FailureInv ==
  ASSUME Inv, NEW c \in Calls, ClientError(c) \/ ServerFailure(c)
  PROVE  Inv'
<1> USE BreakerAssumption DEF Inv
<1>1. TypeOK'
  <2>1. call' \in [Calls -> {"idle", "plain", "probe"}] /\ exposed' \subseteq InFlight'
    BY LeaveTypes DEF ClientError, ServerFailure
  <2>2. failureCount' \in 0..Threshold
    BY DEF TypeOK, ClosedBelowThreshold, ClientError, ServerFailure, OnFailure
  <2>3. sinceFailure' \in 0..ResetTimeout /\ streak' \in 0..Threshold
    BY DEF TypeOK, ClientError, ServerFailure, OnFailure
  <2>4. state' = "open" \/ state' = state
    BY DEF ClientError, ServerFailure, OnFailure
  <2>5. halfOpenInflight' = FALSE /\ up' = up
    BY DEF ClientError, ServerFailure, OnFailure
  <2>6. state' \in States /\ halfOpenInflight' \in BOOLEAN /\ up' \in BOOLEAN
    BY <2>4, <2>5, Zenon DEF TypeOK, States
  <2> QED BY <2>1, <2>2, <2>3, <2>6 DEF TypeOK
<1>2. FlagMeansProbe'
  BY DEF FlagMeansProbe, ClientError, ServerFailure, OnFailure
<1>3. ClosedBelowThreshold'
  BY DEF TypeOK, ClosedBelowThreshold, ClientError, ServerFailure, OnFailure
<1>4. CountIsBacked'
  BY DEF TypeOK, ClosedBelowThreshold, CountIsBacked, ClientError, ServerFailure, OnFailure
<1> QED BY <1>1, <1>2, <1>3, <1>4

LEMMA SuccessInv ==
  ASSUME Inv, NEW c \in Calls, Succeed(c)
  PROVE  Inv'
<1> USE BreakerAssumption DEF Inv
<1>1. TypeOK'
  <2>1. call' \in [Calls -> {"idle", "plain", "probe"}] /\ exposed' \subseteq InFlight'
    BY LeaveTypes DEF Succeed
  <2>2. failureCount' \in 0..Threshold /\ sinceFailure' \in 0..ResetTimeout /\ streak' \in 0..Threshold
    BY DEF TypeOK, Succeed, OnSuccess
  <2>3. (state' = "closed" \/ state' = state) /\ halfOpenInflight' = FALSE /\ up' = up
    BY DEF Succeed, OnSuccess
  <2>4. state' \in States /\ halfOpenInflight' \in BOOLEAN /\ up' \in BOOLEAN
    BY <2>3, Zenon DEF TypeOK, States
  <2> QED BY <2>1, <2>2, <2>4 DEF TypeOK
<1>2. FlagMeansProbe' /\ ClosedBelowThreshold' /\ CountIsBacked'
  BY DEF FlagMeansProbe, ClosedBelowThreshold, CountIsBacked, Succeed, OnSuccess
<1> QED BY <1>1, <1>2

LEMMA StepInv == Inv /\ [Next]_vars => Inv'
<1> SUFFICES ASSUME Inv, [Next]_vars PROVE Inv'
  OBVIOUS
<1> USE DEF Inv
<1>1. ASSUME NEW c \in Calls, Execute(c) PROVE Inv'
  BY <1>1, ExecuteInv
<1>2. ASSUME NEW c \in Calls, Finish(c) PROVE Inv'
  BY <1>2, FailureInv, SuccessInv DEF Finish
<1>3. CASE Tick
  <2>1. TypeOK'
    BY <1>3, BreakerAssumption DEF TypeOK, Tick, InFlight
  <2>2. FlagMeansProbe' /\ ClosedBelowThreshold' /\ CountIsBacked'
    BY <1>3 DEF FlagMeansProbe, Probes, ClosedBelowThreshold, CountIsBacked, Tick
  <2> QED BY <2>1, <2>2
<1>4. CASE Outage
  <2>1. up' \in BOOLEAN /\ exposed' \subseteq InFlight'
    BY <1>4 DEF TypeOK, Outage, InFlight
  <2>2. TypeOK'
    BY <1>4, <2>1 DEF TypeOK, Outage, breakerVars
  <2>3. FlagMeansProbe' /\ ClosedBelowThreshold' /\ CountIsBacked'
    BY <1>4 DEF FlagMeansProbe, Probes, ClosedBelowThreshold, CountIsBacked, Outage, breakerVars
  <2> QED BY <2>2, <2>3
<1>5. CASE UNCHANGED vars
  BY <1>5 DEF TypeOK, InFlight, FlagMeansProbe, Probes, ClosedBelowThreshold, CountIsBacked, vars
<1> QED BY <1>1, <1>2, <1>3, <1>4, <1>5 DEF Next

\* A flag that refuses probes always stands for a probe in flight, so the breaker is
\* never blocked by a call that has already ended (circuit_breaker.ts execute,
\* onSuccess, onFailure).
THEOREM FlagIsNeverStale == Spec => []FlagMeansProbe
<1>1. Inv => FlagMeansProbe
  BY DEF Inv
<1> QED BY <1>1, InitInv, StepInv, PTL DEF Spec

\* However late calls end, a closed circuit has failures left before it opens.
THEOREM ClosedHasAllowance == Spec => []ClosedBelowThreshold
<1>1. Inv => ClosedBelowThreshold
  BY DEF Inv
<1> QED BY <1>1, InitInv, StepInv, PTL DEF Spec

LEMMA StepOpens ==
  Inv /\ [Next]_vars => [state = "closed" /\ state' = "open" => streak' = Threshold]_vars
<1> SUFFICES ASSUME Inv, [Next]_vars, state = "closed", state' = "open"
             PROVE  streak' = Threshold
  OBVIOUS
<1>1. PICK c \in Calls : Execute(c) \/ Finish(c)
  BY DEF Next, Tick, Outage, breakerVars, vars
<1>2. ~Execute(c)
  BY DEF Execute, Admitted, AdmitClosed, AdmitProbe, MayProbe, breakerVars
<1>3. ~Succeed(c) /\ ~ClientError(c)
  BY DEF Succeed, OnSuccess, ClientError, OnFailure
<1>4. ServerFailure(c)
  BY <1>1, <1>2, <1>3 DEF Finish
<1>5. failureCount' >= Threshold /\ failureCount' = failureCount + 1
  BY <1>4 DEF ServerFailure, OnFailure
<1> QED
  BY <1>4, <1>5, BreakerAssumption DEF ServerFailure, Inv, TypeOK, CountIsBacked

\* The circuit opens only after Threshold failures of the service in a row, whatever
\* client errors come between (isFailureCountable of conversionBreaker).
THEOREM OpensForOutages == Spec => OpensOnOutageOnly
<1> QED BY InitInv, StepInv, StepOpens, PTL DEF Spec, OpensOnOutageOnly

-----------------------------------------------------------------------------
(* The migrate container. *)

MigrateStages ==
  {"new", "detecting", "resolving", "deploying", "applying", "applied", "done", "failed",
   "interrupted"}

\* What is recorded is there: the record is written only after the tables are
\* complete, and what is being created has no flaws.
RecordIsTrue ==
  /\ record \in {"none", "begun", "applied"} /\ migrate \in MigrateStages
  /\ shape \in Shape
  /\ record = "applied" \/ migrate \in {"resolving", "applied"} => Complete(shape)
  /\ migrate = "done" => record = "applied"
  /\ migrate = "applying" => shape.flaws = {}
  /\ migrate = "deploying" /\ Complete(shape) => record = "applied"

LEMMA MigrationStarts == MigrationInit => RecordIsTrue
BY MigrationAssumption DEF MigrationInit, RecordIsTrue, MigrateStages

LEMMA MigrationSteps ==
  ASSUME RecordIsTrue, [MigrationNext]_migrationVars
  PROVE  RecordIsTrue'
<1> USE DEF RecordIsTrue, MigrateStages, Complete
<1>1. CASE Run
  BY <1>1 DEF Run
<1>2. CASE Detect
  BY <1>2 DEF Detect, Assess, Shape
<1>3. CASE Resolve
  BY <1>3 DEF Resolve
<1>4. CASE Deploy
  BY <1>4 DEF Deploy, Shape
<1>5. CASE ApplyScript
  BY <1>5 DEF ApplyScript, Shape
<1>6. CASE RecordFinished
  BY <1>6 DEF RecordFinished
<1>7. CASE Interrupted
  BY <1>7 DEF Interrupted
<1>8. CASE UNCHANGED migrationVars
  BY <1>8 DEF migrationVars
<1> QED
  BY <1>1, <1>2, <1>3, <1>4, <1>5, <1>6, <1>7, <1>8 DEF MigrationNext

LEMMA Adopts ==
  ASSUME RecordIsTrue, [MigrationNext]_migrationVars
  PROVE  [(Complete(shape) /\ migrate = "deploying" /\ migrate' # migrate) =>
            migrate' \in {"done", "interrupted"}]_migrationVars
<1> SUFFICES ASSUME MigrationNext, Complete(shape), migrate = "deploying"
             PROVE  migrate' \in {"done", "interrupted"}
  OBVIOUS
<1>1. Deploy \/ Interrupted
  BY DEF MigrationNext, Run, Detect, Resolve, ApplyScript, RecordFinished
<1> QED BY <1>1 DEF Deploy, Interrupted, RecordIsTrue

-----------------------------------------------------------------------------
(* The process and its requests. *)

\* Only a process that serves has requests, and it began on a migrated
\* database; what is drained stays drained; an error that escaped has begun
\* the shutdown.
ProcessInv ==
  /\ process # "down" => migrate = "done"
  /\ process = "down" => stop = "no"
  /\ process # "serving" => /\ listening = FALSE /\ staged = {}
                            /\ \A r \in Calls : request[r] = Idle
  /\ stop \in {"drained", "redis closed", "closed"} /\ ~listening => Waiting = {}
  /\ escaped => code = 1 /\ (process = "down" \/ stop # "no")

HandlerInv == ServerTypeOK /\ ProcessInv /\ StagedHasHandler

LEMMA ServerStarts == ServerInit => HandlerInv
<1> SUFFICES ASSUME ServerInit PROVE HandlerInv
  OBVIOUS
<1>1. Idle \in Requests
  BY DEF Idle, Requests, Stages
<1>2. ServerTypeOK
  BY <1>1 DEF ServerInit, ServerTypeOK, Hooks
<1>3. ProcessInv /\ StagedHasHandler
  BY DEF ServerInit, ProcessInv, StagedHasHandler, Waiting, Idle
<1> QED BY <1>2, <1>3 DEF HandlerInv

\* The end of a process leaves a state like the first one.
LEMMA DeathInv ==
  ASSUME HandlerInv, Dies, code' \in {0, 1}, escaped' \in BOOLEAN, escaped' => code' = 1
  PROVE  HandlerInv'
<1>1. Idle \in Requests
  BY DEF Idle, Requests, Stages
<1>2. ServerTypeOK'
  BY <1>1 DEF Dies, ServerTypeOK, HandlerInv, Hooks
<1>3. ProcessInv' /\ StagedHasHandler'
  BY DEF Dies, ProcessInv, StagedHasHandler, Waiting, Idle
<1> QED BY <1>2, <1>3 DEF HandlerInv

\* One request of a serving process moves on.
LEMMA Advance ==
  ASSUME HandlerInv, NEW r \in Calls, NEW q \in Requests,
         process = "serving", UNCHANGED unmoved,
         request' = [request EXCEPT ![r] = q],
         staged' \in {staged, staged \union {r}},
         r \in staged' => q.at # "none",
         q.client = "waiting" => r \in Waiting \/ listening
  PROVE  HandlerInv'
<1> USE DEF HandlerInv, unmoved, processVars, migrationVars
<1>1. ServerTypeOK'
  BY DEF ServerTypeOK
<1>2. \A s \in Calls : request'[s] = IF s = r THEN q ELSE request[s]
  BY DEF ServerTypeOK
<1>3. Waiting' \subseteq Waiting \/ listening
  BY <1>2 DEF Waiting
<1>4. ProcessInv'
  BY <1>3 DEF ProcessInv
<1>5. StagedHasHandler'
  BY <1>1, <1>2 DEF StagedHasHandler, At, ServerTypeOK
<1> QED BY <1>1, <1>4, <1>5

\* A request that is under way belongs to a serving process.
LEMMA UnderWay ==
  ASSUME HandlerInv, NEW r \in Calls, ~At(r, "none") \/ r \in Waiting
  PROVE  process = "serving" /\ request[r] \in Requests
<1>1. request[r] # Idle
  BY DEF At, Waiting, Idle
<1>2. process = "serving"
  BY <1>1 DEF HandlerInv, ProcessInv
<1>3. request[r] \in Requests
  BY DEF HandlerInv, ServerTypeOK
<1> QED BY <1>2, <1>3

LEMMA NobodyWaits == ASSUME HandlerInv, process # "serving" PROVE Waiting = {}
<1>1. \A r \in Calls : request[r] = Idle
  BY Zenon DEF HandlerInv, ProcessInv
<1>2. Idle.client = "gone"
  BY DEF Idle
<1> QED BY <1>1, <1>2 DEF Waiting

\* The first call of the shutdown handler begins to drain a server, and is
\* done with a process that has none.
LEMMA ShutdownStops ==
  ASSUME HandlerInv, process # "down", NEW c \in {0, 1}, Shutdown(c)
  PROVE  /\ code' \in {0, 1} /\ (c = 1 => code' = 1) /\ (code = 1 /\ stop # "no" => code' = 1)
         /\ stop' \in {"draining", "drained", "redis closed", "closed"}
         /\ listening' \in BOOLEAN /\ (listening' => listening)
         /\ process # "serving" => ~listening'
         /\ stop # "no" => stop' = stop /\ (~listening' => ~listening \/ stop = "draining")
         /\ stop = "no" /\ process = "serving" => stop' = "draining"
<1> USE DEF HandlerInv, ServerTypeOK, Shutdown
<1>1. code' \in {0, 1} /\ (c = 1 => code' = 1) /\ (code = 1 /\ stop # "no" => code' = 1)
  OBVIOUS
<1>2. stop' \in {"draining", "drained", "redis closed", "closed"}
  OBVIOUS
<1>3. listening' \in BOOLEAN /\ (listening' => listening)
  OBVIOUS
<1>4. process # "serving" => ~listening'
  BY <1>3 DEF ProcessInv
<1>5. stop # "no" => stop' = stop /\ (~listening' => ~listening \/ stop = "draining")
  OBVIOUS
<1>6. stop = "no" /\ process = "serving" => stop' = "draining"
  OBVIOUS
<1> QED BY <1>1, <1>2, <1>3, <1>4, <1>5, <1>6

\* Steps of the process that leave its requests alone.
LEMMA ProcessSteps ==
  ASSUME HandlerInv,
         \/ Start \/ Connected \/ Bound \/ Signal \/ Killed
         \/ Drained \/ GraceOver \/ CloseRedis \/ DisconnectPrisma \/ Exit
  PROVE  HandlerInv'
<1> USE DEF HandlerInv
<1>0. code \in {0, 1} /\ escaped \in BOOLEAN
  BY DEF ServerTypeOK
<1>1. CASE Start
  <2>1. ServerTypeOK'
    BY <1>1 DEF Start, ServerTypeOK, Hooks, migrationVars
  <2>2. ProcessInv'
    BY <1>1 DEF Start, ProcessInv, Waiting, migrationVars, Idle
  <2>3. StagedHasHandler'
    BY <1>1 DEF Start, StagedHasHandler, At
  <2> QED BY <2>1, <2>2, <2>3
<1>2. CASE Connected
  <2>1. ServerTypeOK'
    BY <1>2 DEF Connected, bootKept, ServerTypeOK, migrationVars
  <2>2. ProcessInv'
    BY <1>2 DEF Connected, bootKept, ProcessInv, Waiting, migrationVars
  <2>3. StagedHasHandler'
    BY <1>2 DEF Connected, bootKept, StagedHasHandler, At
  <2> QED BY <2>1, <2>2, <2>3
<1>3. CASE Bound
  <2> USE DEF Bound, bootKept, migrationVars
  <2>1. \/ process' = "serving" /\ listening' = TRUE /\ UNCHANGED <<stop, code>>
        \/ process' = "unbound" /\ Shutdown(1)
    BY <1>3
  <2>2. CASE process' = "serving" /\ listening' = TRUE /\ UNCHANGED <<stop, code>>
    <3>1. ServerTypeOK'
      BY <1>3, <2>2 DEF ServerTypeOK
    <3>2. process = "binding" /\ Waiting' = Waiting
      BY <1>3 DEF Waiting
    <3>3. ProcessInv'
      BY <1>3, <2>2, <3>2, NobodyWaits DEF ProcessInv
    <3>4. StagedHasHandler'
      BY <1>3 DEF StagedHasHandler, At
    <3> QED BY <3>1, <3>3, <3>4
  <2>3. CASE process' = "unbound" /\ Shutdown(1)
    <3>1. process = "binding"
      BY <1>3
    <3>2. ServerTypeOK'
      BY <1>3, <2>3, <3>1, ShutdownStops DEF ServerTypeOK
    <3>3. Waiting' = {}
      BY <1>3, <3>1, NobodyWaits DEF Waiting
    <3>4. code' = 1 /\ stop' # "no" /\ listening' = FALSE
      BY <2>3, <3>1, ShutdownStops
    <3>6. staged' = {} /\ migrate' = "done" /\ \A r \in Calls : request'[r] = Idle
      BY <1>3, <3>1 DEF ProcessInv
    <3>7. ProcessInv'
      BY <2>3, <3>3, <3>4, <3>6 DEF ProcessInv
    <3>5. StagedHasHandler'
      BY <1>3 DEF StagedHasHandler, At
    <3> QED BY <3>2, <3>5, <3>7
  <2> QED BY <2>1, <2>2, <2>3
<1>4. CASE Signal
  <2>1. CASE Dies /\ code' = 1 /\ UNCHANGED escaped
    BY <2>1, <1>0, DeathInv
  <2>2. CASE ~(Dies /\ code' = 1 /\ UNCHANGED escaped)
    <3>1. /\ process # "down" /\ Shutdown(0)
          /\ handlers' = handlers \ {"SIGTERM"}
          /\ UNCHANGED <<vars, migrationVars, process, escaped, request, staged>>
      BY <1>4, <2>2 DEF Signal
    <3>2. ServerTypeOK'
      BY <3>1, ShutdownStops DEF ServerTypeOK
    <3>3. Waiting' = Waiting
      BY <3>1 DEF Waiting
    <3>4. process # "serving" => Waiting = {}
      BY NobodyWaits
    <3>5. /\ stop' # "no" /\ listening' \in BOOLEAN
          /\ process # "serving" => ~listening'
          /\ stop # "no" => stop' = stop /\ (~listening' => ~listening \/ stop = "draining")
          /\ stop = "no" /\ process = "serving" => stop' = "draining"
          /\ code = 1 /\ stop # "no" => code' = 1
      BY <3>1, ShutdownStops
    <3>6. stop' \in {"drained", "redis closed", "closed"} /\ ~listening' => Waiting' = {}
      BY <3>3, <3>4, <3>5 DEF ProcessInv
    <3>7. escaped' => code' = 1 /\ stop' # "no"
      BY <3>1, <3>5 DEF ProcessInv
    <3>8. process' # "serving" => /\ listening' = FALSE /\ staged' = {}
                                  /\ \A r \in Calls : request'[r] = Idle
      BY <3>1, <3>5 DEF ProcessInv
    <3>9. ProcessInv'
      BY <3>1, <3>6, <3>7, <3>8 DEF ProcessInv, migrationVars
    <3>10. StagedHasHandler'
      BY <3>1 DEF StagedHasHandler, At
    <3> QED BY <3>2, <3>9, <3>10
  <2> QED BY <2>1, <2>2
<1>5. CASE Killed
  BY <1>5, <1>0, DeathInv DEF Killed
<1>6. CASE Drained
  BY <1>6 DEF Drained, kept, migrationVars, ServerTypeOK, ProcessInv, StagedHasHandler, At, Waiting
<1>7. CASE GraceOver
  <2> USE DEF GraceOver, kept, migrationVars
  <2>1. request' \in [Calls -> Requests]
    BY <1>7 DEF ServerTypeOK, Requests
  <2>2. Waiting' = {}
    BY <1>7 DEF Waiting, ServerTypeOK
  <2>3. ServerTypeOK'
    BY <1>7, <2>1 DEF ServerTypeOK
  <2>4. process = "serving" \/ \A r \in Calls : request'[r] = Idle
    BY <1>7 DEF ProcessInv, Waiting, Idle
  <2>5. ProcessInv'
    BY <1>7, <2>2, <2>4 DEF ProcessInv
  <2>6. \A r \in Calls : request'[r].at = request[r].at
    BY <1>7 DEF ServerTypeOK, Requests
  <2>7. StagedHasHandler'
    BY <1>7, <2>6 DEF StagedHasHandler, At, ServerTypeOK
  <2> QED BY <2>3, <2>5, <2>7
<1>8. CASE CloseRedis
  BY <1>8 DEF CloseRedis, kept, migrationVars, ServerTypeOK, ProcessInv, StagedHasHandler, At, Waiting
<1>9. CASE DisconnectPrisma
  BY <1>9 DEF DisconnectPrisma, kept, migrationVars, ServerTypeOK, ProcessInv, StagedHasHandler, At, Waiting
<1>10. CASE Exit
  <2>1. escaped => code = 1
    BY DEF ProcessInv
  <2> QED BY <1>0, <1>10, <2>1, DeathInv DEF Exit
<1> QED
  BY <1>1, <1>2, <1>3, <1>4, <1>5, <1>6, <1>7, <1>8, <1>9, <1>10

\* What a request does that is still open to it.
LEMMA RequestSteps ==
  ASSUME HandlerInv, NEW r \in Calls,
         \/ \E k \in Kinds : Arrive(r, k)
         \/ Pass(r) \/ Parsed(r) \/ Call(r) \/ Returned(r) \/ Timeout(r) \/ Disconnect(r)
  PROVE  HandlerInv'
<1>1. CASE \E k \in Kinds : Arrive(r, k)
  <2>1. PICK k \in Kinds : Arrive(r, k)
    BY <1>1
  <2> DEFINE new ==
        [kind |-> k, at |-> "entered", calls |-> IF k = "read" THEN 2 ELSE 1, client |-> "waiting"]
  <2>2. new \in Requests
    BY DEF Requests, Stages
  <2>3. process = "serving" /\ listening
    BY <2>1 DEF Arrive, HandlerInv, ProcessInv
  <2>4. request' = [request EXCEPT ![r] = new] /\ staged' = staged /\ UNCHANGED unmoved
    BY <2>1 DEF Arrive
  <2> QED BY <2>2, <2>3, <2>4, Advance
<1>2. CASE Pass(r) \/ Parsed(r) \/ Call(r) \/ Returned(r)
  <2>1. ~At(r, "none")
    BY <1>2 DEF Pass, Parsed, Call, Returned, At
  <2>2. process = "serving" /\ request[r] \in Requests
    BY <2>1, UnderWay
  <2>3. PICK new \in Requests :
          /\ request' = [request EXCEPT ![r] = new]
          /\ new.at # "none" /\ new.client = request[r].client
    <3>1. CASE \E stage \in Stages \ {"none"} : Move(r, stage)
      <4>1. PICK stage \in Stages \ {"none"} : Move(r, stage)
        BY <3>1
      <4> DEFINE moved == [request[r] EXCEPT !.at = stage]
      <4>2. moved \in Requests /\ moved.at # "none" /\ moved.client = request[r].client
        BY <2>2 DEF Requests
      <4>3. request' = [request EXCEPT ![r] = moved]
        BY <4>1 DEF Move
      <4> QED BY <4>2, <4>3
    <3>2. CASE request' = [request EXCEPT ![r] = [@ EXCEPT !.at = "ready", !.calls = 1]]
      <4> DEFINE half == [request[r] EXCEPT !.at = "ready"]
                 moved == [half EXCEPT !.calls = 1]
      <4>1. half \in Requests /\ half.at = "ready" /\ half.client = request[r].client
        BY <2>2 DEF Requests, Stages
      <4>2. moved \in Requests /\ moved.at = "ready" /\ moved.client = half.client
        <5> HIDE DEF half
        <5>1. 1 \in 0..2
          OBVIOUS
        <5>2. moved \in Requests
          BY <4>1, <5>1 DEF Requests
        <5>3. moved.at = half.at /\ moved.client = half.client
          BY <4>1 DEF Requests
        <5> QED BY <4>1, <5>2, <5>3
      <4>3. request' = [request EXCEPT ![r] = moved]
        BY <3>2
      <4> QED BY <4>1, <4>2, <4>3
    <3> QED BY <1>2, <3>1, <3>2 DEF Pass, Parsed, Call, Returned, Stages
  <2>5. UNCHANGED unmoved /\ staged' \in {staged, staged \union {r}}
    BY <1>2 DEF Pass, Parsed, Call, Returned
  <2> QED BY <2>2, <2>3, <2>5, Advance DEF Waiting
<1>3. CASE Timeout(r) \/ Disconnect(r)
  <2>1. r \in Waiting
    BY <1>3 DEF Timeout, Disconnect
  <2>2. process = "serving" /\ request[r] \in Requests
    BY <2>1, UnderWay
  <2>3. PICK c \in {"answered", "gone"} : request' = [request EXCEPT ![r].client = c]
    BY <1>3 DEF Timeout, Disconnect
  <2> DEFINE new == [request[r] EXCEPT !.client = c]
  <2>4. request' = [request EXCEPT ![r] = new] /\ new \in Requests
        /\ new.at = request[r].at /\ new.client = c
    BY <2>2, <2>3 DEF Requests, HandlerInv, ServerTypeOK
  <2>5. UNCHANGED unmoved /\ staged' = staged
    BY <1>3 DEF Timeout, Disconnect
  <2>6. r \in staged' => new.at # "none"
    BY <2>4, <2>5 DEF HandlerInv, StagedHasHandler, At
  <2> QED BY <2>2, <2>3, <2>4, <2>5, <2>6, Advance
<1> QED BY <1>1, <1>2, <1>3

\* The handler ends: quietly, by an error that a hook catches, or by one that
\* ends the process.
LEMMA EndInv ==
  ASSUME HandlerInv, NEW r \in Calls, End(r)
  PROVE  HandlerInv'
<1>1. ~At(r, "none")
  BY DEF End, Ending, At
<1>2. process = "serving"
  BY <1>1, UnderWay
<1>3. Idle \in Requests
  BY DEF Idle, Requests, Stages
<1>4. CASE /\ Dispose(r, staged \ {r})
           /\ (\E h : Escapes(h)) \/ UNCHANGED <<vars, unmoved>>
  <2> USE DEF Dispose
  <2>1. \A s \in Calls : request'[s] = IF s = r THEN Idle ELSE request[s]
    BY <1>4 DEF HandlerInv, ServerTypeOK
  <2>2. StagedHasHandler'
    BY <1>4, <2>1 DEF HandlerInv, ServerTypeOK, StagedHasHandler, At
  <2>3. Waiting' \subseteq Waiting
    BY <2>1 DEF Waiting, Idle
  <2>4. request' \in [Calls -> Requests] /\ staged' \subseteq Calls
    BY <1>3, <1>4 DEF HandlerInv, ServerTypeOK
  <2>5. CASE UNCHANGED <<vars, unmoved>>
    <3>1. ServerTypeOK'
      BY <2>4, <2>5 DEF HandlerInv, ServerTypeOK, unmoved, processVars
    <3>2. ProcessInv'
      BY <1>2, <2>3, <2>5 DEF HandlerInv, ProcessInv, unmoved, processVars, migrationVars
    <3> QED BY <2>2, <3>1, <3>2 DEF HandlerInv
  <2>6. CASE \E h : Escapes(h)
    <3> USE DEF Escapes
    <3>1. /\ code' = 1 /\ stop' # "no" /\ listening' \in BOOLEAN
          /\ stop' \in {"draining", "drained", "redis closed", "closed"}
          /\ stop # "no" => stop' = stop /\ (~listening' => ~listening \/ stop = "draining")
          /\ stop = "no" => stop' = "draining"
      BY <1>2, <2>6, ShutdownStops
    <3>2. ServerTypeOK'
      BY <2>4, <2>6, <3>1 DEF HandlerInv, ServerTypeOK
    <3>3. stop' \in {"drained", "redis closed", "closed"} /\ ~listening' => Waiting' = {}
      BY <2>3, <3>1 DEF HandlerInv, ProcessInv
    <3>4. ProcessInv'
      BY <1>2, <2>6, <3>1, <3>3 DEF HandlerInv, ProcessInv, migrationVars
    <3> QED BY <2>2, <3>2, <3>4 DEF HandlerInv
  <2> QED BY <1>4, <2>5, <2>6
<1>5. CASE Dies /\ code' = 1 /\ escaped' = TRUE
  BY <1>5, DeathInv
<1> QED BY <1>4, <1>5 DEF End, Ends

LEMMA HandlerSteps == HandlerInv /\ [ServerNext]_allVars => HandlerInv'
<1> SUFFICES ASSUME HandlerInv, [ServerNext]_allVars PROVE HandlerInv'
  OBVIOUS
<1>1. CASE Migrates
  <2>1. UNCHANGED serverVars /\ (migrate = "done" => migrate' = "done")
    BY <1>1 DEF Migrates, MigrationNext, Run, Detect, Resolve, Deploy, ApplyScript,
                RecordFinished, Interrupted
  <2>2. ServerTypeOK' /\ StagedHasHandler'
    BY <2>1 DEF HandlerInv, serverVars, processVars, ServerTypeOK, StagedHasHandler, At
  <2>3. ProcessInv'
    BY <2>1 DEF HandlerInv, serverVars, processVars, ProcessInv, Waiting
  <2> QED BY <2>2, <2>3 DEF HandlerInv
<1>2. CASE Environment \/ UNCHANGED allVars
  <2>1. UNCHANGED <<serverVars, migrationVars>>
    BY <1>2 DEF Environment, allVars
  <2>2. ServerTypeOK' /\ StagedHasHandler'
    BY <2>1 DEF HandlerInv, serverVars, processVars, ServerTypeOK, StagedHasHandler, At
  <2>3. ProcessInv'
    BY <2>1 DEF HandlerInv, serverVars, processVars, migrationVars, ProcessInv, Waiting
  <2> QED BY <2>2, <2>3 DEF HandlerInv
<1>3. CASE Boots \/ Signal \/ Killed \/ Stops \/ GraceOver
  BY <1>3, ProcessSteps DEF Boots, Stops
<1>4. ASSUME NEW r \in Calls, (\E k \in Kinds : Arrive(r, k)) \/ Goes(r) \/ Timeout(r) \/ Disconnect(r)
      PROVE  HandlerInv'
  BY <1>4, RequestSteps, EndInv DEF Goes
<1> QED BY <1>1, <1>2, <1>3, <1>4 DEF ServerNext

\* Every step of the server is a step of the container or leaves it alone, and
\* a step of the breaker or the end of the process.
LEMMA StepsOfParts ==
  ASSUME ServerNext
  PROVE  [MigrationNext]_migrationVars /\ ([Next]_vars \/ Dies)
<1>1. CASE Migrates
  BY <1>1 DEF Migrates
<1>2. CASE Environment
  BY <1>2 DEF Environment, Next
<1>3. CASE Boots \/ Signal \/ Killed \/ Stops \/ GraceOver
  BY <1>3 DEF Boots, Start, Connected, Bound, bootKept, Signal, Killed, Stops, Drained, GraceOver,
              CloseRedis, DisconnectPrisma, Exit, kept, Dies
<1>4. ASSUME NEW r \in Calls, (\E k \in Kinds : Arrive(r, k)) \/ Goes(r) \/ Timeout(r) \/ Disconnect(r)
      PROVE  [MigrationNext]_migrationVars /\ ([Next]_vars \/ Dies)
  <2>1. CASE Call(r) \/ Returned(r)
    BY <2>1 DEF Call, Returned, unmoved, Next, Finish
  <2>2. CASE End(r)
    BY <2>2 DEF End, Ends, Dispose, Escapes, unmoved, Dies
  <2>3. CASE (\E k \in Kinds : Arrive(r, k)) \/ Pass(r) \/ Parsed(r) \/ Timeout(r) \/ Disconnect(r)
    BY <2>3 DEF Arrive, Pass, Parsed, Timeout, Disconnect, unmoved
  <2> QED BY <1>4, <2>1, <2>2, <2>3 DEF Goes
<1> QED BY <1>1, <1>2, <1>3, <1>4 DEF ServerNext

\* The memory of a new process is that of the first one.
LEMMA FreshBreaker ==
  ASSUME Inv, Dies
  PROVE  Inv'
<1> USE BreakerAssumption DEF Inv, Dies
<1>1. state' \in States /\ halfOpenInflight' \in BOOLEAN /\ up' \in BOOLEAN
  BY Zenon DEF States, TypeOK
<1>2. /\ failureCount' \in 0..Threshold /\ sinceFailure' \in 0..ResetTimeout
      /\ streak' \in 0..Threshold
  OBVIOUS
<1>3. call' \in [Calls -> {"idle", "plain", "probe"}] /\ exposed' \subseteq InFlight'
  OBVIOUS
<1>4. FlagMeansProbe' /\ ClosedBelowThreshold' /\ CountIsBacked'
  BY DEF FlagMeansProbe, ClosedBelowThreshold, CountIsBacked
<1> QED BY <1>1, <1>2, <1>3, <1>4 DEF TypeOK

WholeInv == RecordIsTrue /\ HandlerInv /\ Inv

LEMMA WholeStarts == ServerInit => WholeInv
BY MigrationStarts, ServerStarts, InitInv DEF ServerInit, WholeInv

LEMMA WholeSteps == WholeInv /\ [ServerNext]_allVars => WholeInv'
<1> SUFFICES ASSUME WholeInv, [ServerNext]_allVars PROVE WholeInv'
  OBVIOUS
<1>1. HandlerInv'
  BY HandlerSteps DEF WholeInv
<1>2. [MigrationNext]_migrationVars /\ ([Next]_vars \/ Dies)
  BY StepsOfParts DEF allVars
<1>3. RecordIsTrue'
  BY <1>2, MigrationSteps DEF WholeInv
<1>4. Inv'
  BY <1>2, StepInv, FreshBreaker DEF WholeInv
<1> QED BY <1>1, <1>3, <1>4 DEF WholeInv

-----------------------------------------------------------------------------
(* The theorems.                                                             *)

\* Whatever a client, a timeout, a signal or the shutdown does in between, uploads
\* staged under .incoming belong to a handler that has not ended and will remove them
\* (convert.ts cleanupFiles, createUploadCleanup).
THEOREM StagedIsHandled == ServerSpec => []StagedHasHandler
<1>1. WholeInv => StagedHasHandler
  BY DEF WholeInv, HandlerInv
<1> QED BY <1>1, WholeStarts, WholeSteps, PTL DEF ServerSpec

\* Once the port is closed, Redis and Prisma go only when no client waits: the drain, or
\* the deadline that cuts the connections, comes first, also with a second signal or an
\* error on the way (graceful_shutdown.ts).
THEOREM NothingCutsWaiting == ServerSpec => []ClosedAfterDrain
<1>1. WholeInv => ClosedAfterDrain
  BY DEF WholeInv, HandlerInv, ProcessInv, ClosedAfterDrain
<1> QED BY <1>1, WholeStarts, WholeSteps, PTL DEF ServerSpec

\* After an error escaped, the exit code is 1 in every order of signals and errors
\* (createShutdownHandler, index.ts).
THEOREM CrashIsReported == ServerSpec => []CrashReported
<1>1. WholeInv => CrashReported
  BY DEF WholeInv, HandlerInv, ProcessInv, CrashReported
<1> QED BY <1>1, WholeStarts, WholeSteps, PTL DEF ServerSpec

\* A backend that runs has every table and constraint of the schema, whatever the
\* database held and wherever runs of the migrate container were cut short
\* (migration_baseline.ts, docker-compose.yml).
THEOREM SchemaIsComplete == ServerSpec => []ServesComplete
<1>1. WholeInv => ServesComplete
  BY DEF WholeInv, RecordIsTrue, HandlerInv, ProcessInv, ServesComplete
<1> QED BY <1>1, WholeStarts, WholeSteps, PTL DEF ServerSpec

\* Tables that are complete are adopted: once such a run reaches `deploy` it ends well
\* unless it is cut short, so that an interrupted run is repaired by the next one
\* (migration_baseline.ts assessMigrationBaseline).
THEOREM TablesAdopted == ServerSpec => AdoptsItsTables
<1>1. WholeInv /\ [ServerNext]_allVars =>
        [(Complete(shape) /\ migrate = "deploying" /\ migrate' # migrate) =>
            migrate' \in {"done", "interrupted"}]_migrationVars
  <2> SUFFICES ASSUME WholeInv, [ServerNext]_allVars
               PROVE  [(Complete(shape) /\ migrate = "deploying" /\ migrate' # migrate) =>
                         migrate' \in {"done", "interrupted"}]_migrationVars
    OBVIOUS
  <2>1. [MigrationNext]_migrationVars
    BY StepsOfParts DEF allVars
  <2> QED BY <2>1, Adopts DEF WholeInv
<1> QED BY <1>1, WholeStarts, WholeSteps, PTL DEF ServerSpec, AdoptsItsTables

\* In a process that times requests out, loses clients, dies and starts again, the flag
\* that refuses probes stands for a call that is under way (circuit_breaker.ts).
THEOREM FlagInProcess == ServerSpec => []FlagMeansProbe
<1>1. WholeInv => FlagMeansProbe
  BY DEF WholeInv, Inv
<1> QED BY <1>1, WholeStarts, WholeSteps, PTL DEF ServerSpec

\* The circuit opens for failures of the service in a row, whatever the process and its
\* requests go through (isFailureCountable of conversionBreaker).
THEOREM OpensInProcess == ServerSpec => OpensOnOutageOnly
<1>1. WholeInv /\ [ServerNext]_allVars =>
        [state = "closed" /\ state' = "open" => streak' = Threshold]_vars
  <2> SUFFICES ASSUME WholeInv, [ServerNext]_allVars
               PROVE  [state = "closed" /\ state' = "open" => streak' = Threshold]_vars
    OBVIOUS
  <2>1. CASE [Next]_vars
    BY <2>1, StepOpens DEF WholeInv
  <2>2. CASE Dies
    BY <2>2 DEF Dies
  <2>3. CASE UNCHANGED allVars
    BY <2>3 DEF allVars, vars
  <2> QED BY <2>1, <2>2, <2>3, StepsOfParts
<1> QED BY <1>1, WholeStarts, WholeSteps, PTL DEF ServerSpec, OpensOnOutageOnly
=============================================================================
