--------------------------- MODULE BackendServer ---------------------------
(***************************************************************************)
(* The backend process (backend index.ts) from `docker compose up` to its  *)
(* exit, with the conversion requests it handles (routes/convert.ts) and   *)
(* what they share: the circuit breaker of CircuitBreaker, the ten-second  *)
(* timer of middleware/timeout.ts, the directory of staged uploads, and    *)
(* utils/graceful_shutdown.ts.                                             *)
(*                                                                         *)
(* A handler runs on when its client is answered by the timer or gone.     *)
(* Writing a second answer throws, also in the handler's catch, so that    *)
(* the error escapes to the process.                                       *)
(***************************************************************************)
EXTENDS CircuitBreaker, Migration

CONSTANTS
  Kinds,        \* of requests: upload (POST /), bulk, and read (status, report or result)
  EarlySignals  \* may a signal come before the process has its server?

ASSUME ServerAssumption ==
  Kinds \subseteq {"upload", "bulk", "read"} /\ EarlySignals \in BOOLEAN

VARIABLES
  process,    \* down, connecting (to Redis), binding (the port), unbound, serving
  listening,  \* is the port open to new requests?
  stop,       \* how far shutdown is
  code,       \* process.exitCode
  handlers,   \* process.once handlers that are still there
  escaped,    \* history: did an error escape in this life of the process?
  request,    \* the handler of each call: what for, how far, calls to go, its client
  staged      \* uploads under .incoming that this life of the process put there

processVars == <<process, listening, stop, code, handlers, escaped>>
serverVars == <<processVars, request, staged>>
allVars == <<vars, migrationVars, serverVars>>

Idle == [kind |-> "read", at |-> "none", calls |-> 0, client |-> "gone"]

\* A call of the handler succeeds, the last one ends it; a read checks the owner first.
Stages == {"none", "entered", "staging", "ready", "calling", "ended"}
Requests == [kind : Kinds \union {"read"}, at : Stages, calls : 0..2,
             client : {"waiting", "answered", "gone"}]

At(r, stage) == request[r].at = stage
Waiting == {r \in Calls : request[r].client = "waiting"}
Hooks == {"SIGTERM", "rejection", "exception"}

ServerTypeOK ==
  /\ process \in {"down", "connecting", "binding", "unbound", "serving"}
  /\ listening \in BOOLEAN /\ escaped \in BOOLEAN
  /\ stop \in {"no", "draining", "drained", "redis closed", "closed"}
  /\ code \in {0, 1} /\ handlers \subseteq Hooks
  /\ request \in [Calls -> Requests] /\ staged \subseteq Calls

(* -------------------------------- the end ------------------------------- *)

(* The process is gone with all it had in memory; what is staged stays on  *)
(* the disk, where no handler will remove it.                              *)
Dies ==
  /\ process' = "down" /\ listening' = FALSE /\ stop' = "no"
  /\ handlers' = {}
  /\ request' = [r \in Calls |-> Idle]
  /\ staged' = {}
  /\ state' = "closed" /\ failureCount' = 0 /\ halfOpenInflight' = FALSE
  /\ sinceFailure' = ResetTimeout
  /\ call' = [c \in Calls |-> "idle"] /\ exposed' = {} /\ streak' = 0
  /\ UNCHANGED <<up, migrationVars>>

\* Fault: only the first call of the shutdown handler sets the exit code.
FirstCodeStays(c) ==
  /\ code' = IF stop = "no" THEN c ELSE code
  /\ stop' = IF stop # "no" THEN stop ELSE IF process = "serving" THEN "draining" ELSE "drained"
  /\ listening' = (listening /\ stop' # "draining")

\* Fault: the drain waits for the requests, and more keep coming.
ShutdownStaysOpen(c) ==
  /\ code' = IF stop = "no" \/ c # 0 THEN c ELSE code
  /\ stop' = IF stop # "no" THEN stop ELSE IF process = "serving" THEN "draining" ELSE "drained"
  /\ UNCHANGED listening

(* createShutdownHandler: the first call begins to drain, if there is a    *)
(* server yet; every other call only makes the exit code worse.            *)
Shutdown(c) ==
  /\ code' = IF stop = "no" \/ c # 0 THEN c ELSE code
  /\ stop' = IF stop # "no" THEN stop ELSE IF process = "serving" THEN "draining" ELSE "drained"
  /\ listening' = (listening /\ stop' # "draining")

(* process.once: a second signal meets no handler and ends the process.     *)
Signal ==
  /\ process = "serving" \/ (EarlySignals /\ process # "down")
  /\ IF "SIGTERM" \in handlers
     THEN /\ handlers' = handlers \ {"SIGTERM"}
          /\ Shutdown(0)
          /\ UNCHANGED <<vars, migrationVars, process, escaped, request, staged>>
     ELSE Dies /\ code' = 1 /\ UNCHANGED escaped

Killed == process # "down" /\ Dies /\ code' = 1 /\ UNCHANGED escaped

kept == <<vars, migrationVars, process, code, handlers, escaped>>

\* drainServer: server.close calls back when no connection is left.
Drained ==
  /\ stop = "draining" /\ Waiting = {}
  /\ stop' = "drained"
  /\ UNCHANGED <<kept, listening, request, staged>>

\* Fault: the deadline goes on to Redis and Prisma and leaves the connections.
GraceOverCutsNothing ==
  /\ stop = "draining"
  /\ stop' = "drained"
  /\ UNCHANGED <<kept, listening, request, staged>>

\* Connections that outlast the grace period are cut.
GraceOver ==
  /\ stop = "draining"
  /\ stop' = "drained"
  /\ request' = [r \in Calls |-> IF r \in Waiting THEN [request[r] EXCEPT !.client = "gone"]
                                 ELSE request[r]]
  /\ UNCHANGED <<kept, listening, staged>>

\* quit, or disconnect where quit fails or takes too long.
CloseRedis ==
  /\ stop = "drained"
  /\ stop' = "redis closed"
  /\ UNCHANGED <<kept, listening, request, staged>>

DisconnectPrisma ==
  /\ stop = "redis closed"
  /\ stop' = "closed"
  /\ UNCHANGED <<kept, listening, request, staged>>

\* Nothing calls process.exit: the event loop runs empty.
Exit ==
  /\ stop = "closed" /\ process \in {"serving", "unbound"} /\ ~listening
  /\ \A r \in Calls : At(r, "none")
  /\ Dies
  /\ UNCHANGED <<code, escaped>>

(* ------------------------------- the start ------------------------------ *)

\* depends_on: migrate has completed successfully.
Start ==
  /\ process = "down" /\ migrate = "done"
  /\ process' = "connecting"
  /\ handlers' = Hooks /\ code' = 0 /\ escaped' = FALSE
  /\ UNCHANGED <<vars, migrationVars, listening, stop, request, staged>>

bootKept == <<vars, migrationVars, handlers, escaped, request, staged>>

\* initialize connects, or gives up after its retries.
Connected ==
  /\ process = "connecting"
  /\ process' = "binding"
  /\ UNCHANGED <<bootKept, listening, stop, code>>

\* listenForReady; a failure shuts the process down.
Bound ==
  /\ process = "binding"
  /\ \/ process' = "serving" /\ listening' = TRUE /\ UNCHANGED <<stop, code>>
     \/ process' = "unbound" /\ Shutdown(1)
  /\ UNCHANGED bootKept

(* ------------------------------ the requests ---------------------------- *)

Move(r, stage) == request' = [request EXCEPT ![r].at = stage]
unmoved == <<migrationVars, processVars>>

Arrive(r, k) ==
  /\ listening /\ At(r, "none")
  /\ request' = [request EXCEPT ![r] =
       [kind |-> k, at |-> "entered", calls |-> IF k = "read" THEN 2 ELSE 1, client |-> "waiting"]]
  /\ UNCHANGED <<vars, unmoved, staged>>

(* userAuthMiddleware, requireAuth and the upload limiter let the request  *)
(* pass: the limiter counts in Redis, refuses while it cannot, and counts  *)
(* in memory once the connection is given up.  It writes headers, which a  *)
(* client that has its answer does not take.                               *)
Pass(r) ==
  /\ At(r, "entered")
  /\ IF request[r].kind = "read"
     THEN Move(r, "ready") /\ UNCHANGED staged
     ELSE /\ request[r].client # "answered"
          /\ Move(r, "staging")
          /\ staged' = staged \union {r}
  /\ UNCHANGED <<vars, unmoved>>

\* multer has the files, they are PDFs, and getVisionConfig never throws.
Parsed(r) ==
  /\ At(r, "staging") /\ request[r].client # "gone"
  /\ Move(r, "ready")
  /\ UNCHANGED <<vars, unmoved, staged>>

\* A call to the conversion service, through the breaker.
Call(r) ==
  /\ At(r, "ready") /\ Execute(r)
  /\ Move(r, "calling")
  /\ UNCHANGED <<unmoved, staged>>

(* The call ends.  The owner's check of a read is followed by its own      *)
(* call, unless the job is unknown or someone else's.                      *)
Returned(r) ==
  /\ At(r, "calling")
  /\ \/ /\ Succeed(r)
        /\ \/ Move(r, "ended")
           \/ /\ request[r].calls = 2
              /\ request' = [request EXCEPT ![r] = [@ EXCEPT !.at = "ready", !.calls = 1]]
     \/ (ClientError(r) \/ ServerFailure(r)) /\ Move(r, "ended")
  /\ UNCHANGED <<unmoved, staged>>

\* The handler has nothing to wait for: it was refused, or its calls ended.
Ending(r) ==
  \/ At(r, "entered") \/ At(r, "staging") \/ At(r, "ended")
  \/ At(r, "ready") /\ state # "closed" /\ ~MayProbe

Late(r) == request[r].client = "answered"

(* A rejection that meets no handler becomes an exception.  While files    *)
(* are staged it may be multer that ends the request, outside the promise  *)
(* of the handler.                                                         *)
Hooked(r) ==
  IF "rejection" \notin handlers THEN {"exception"}
  ELSE {"rejection"} \union (IF At(r, "staging") THEN {"exception"} ELSE {})

Escapes(h) ==
  /\ escaped' = TRUE
  /\ handlers' = handlers \ {h}
  /\ Shutdown(1)
  /\ UNCHANGED <<vars, migrationVars, process>>

Dispose(r, files) == request' = [request EXCEPT ![r] = Idle] /\ staged' = files

Ends(r, files) ==
  \/ ~Late(r) /\ Dispose(r, files) /\ UNCHANGED <<vars, unmoved>>
  \/ Late(r) /\ \E h \in Hooked(r) :
       \/ h \in handlers /\ Dispose(r, files) /\ Escapes(h)
       \/ h \notin handlers /\ Dies /\ code' = 1 /\ escaped' = TRUE

\* Fault: a call that the breaker refuses skips the removal.
EndUnlessRefused(r) == Ending(r) /\ Ends(r, IF At(r, "ready") THEN staged ELSE staged \ {r})

\* What was staged is removed, and the client gets its answer.
End(r) == Ending(r) /\ Ends(r, staged \ {r})

\* requestTimeout: 408.  Only the path of single uploads is exempt.
Timeout(r) ==
  /\ r \in Waiting /\ request[r].kind # "upload"
  /\ request' = [request EXCEPT ![r].client = "answered"]
  /\ UNCHANGED <<vars, unmoved, staged>>

Disconnect(r) ==
  /\ r \in Waiting
  /\ request' = [request EXCEPT ![r].client = "gone"]
  /\ UNCHANGED <<vars, unmoved, staged>>

----------------------------------------------------------------------------
ServerInit ==
  /\ Init /\ MigrationInit
  /\ process = "down" /\ listening = FALSE /\ stop = "no" /\ code = 0
  /\ handlers = {} /\ escaped = FALSE
  /\ request = [r \in Calls |-> Idle] /\ staged = {}

Environment == (Tick \/ Outage) /\ UNCHANGED <<migrationVars, serverVars>>

Migrates == MigrationNext /\ UNCHANGED <<vars, serverVars>>

Boots == Start \/ Connected \/ Bound

Goes(r) == Pass(r) \/ Parsed(r) \/ Call(r) \/ Returned(r) \/ End(r)

Stops == Drained \/ CloseRedis \/ DisconnectPrisma \/ Exit

ServerNext ==
  \/ Migrates \/ Environment \/ Boots
  \/ Signal \/ Killed \/ Stops \/ GraceOver
  \/ \E r \in Calls : \/ \E k \in Kinds : Arrive(r, k)
                      \/ Goes(r) \/ Timeout(r) \/ Disconnect(r)

(* Every call and query ends, by its timeout at the latest, and Node ends  *)
(* a request that takes too long to arrive.                                *)
ServerFairness ==
  /\ WF_allVars(Environment /\ Tick)
  /\ WF_allVars(Connected \/ Bound) /\ WF_allVars(Stops) /\ WF_allVars(GraceOver)
  /\ \A r \in Calls : WF_allVars(Goes(r))

ServerSpec == ServerInit /\ [][ServerNext]_allVars
FairServerSpec == ServerSpec /\ ServerFairness

----------------------------------------------------------------------------
(* "Partially staged files never survive a rejection": what is staged      *)
(* belongs to a handler that will still remove it, whichever way the       *)
(* request ends.                                                           *)
StagedHasHandler == \A r \in staged : ~At(r, "none")

(* "Once the client sees the status, .incoming is already clean", and a    *)
(* bulk upload is to keep the same contract as a single one.               *)
CleanBeforeAnswer == \A r \in staged : request[r].client # "answered"

(* Redis and Prisma are closed under no client that still waits, unless    *)
(* the process was told to stop before it had a server.                    *)
ClosedAfterDrain == (stop \in {"redis closed", "closed"} /\ ~listening) => Waiting = {}

(* An error that escaped is not reported as a clean exit, whatever signals *)
(* came before or after it.                                                *)
CrashReported == escaped => code = 1

(* A server that begins to stop ends, however slow its clients are and     *)
(* whatever escapes meanwhile.                                             *)
StopEnds == (stop = "draining") ~> (process = "down")

(* While the conversion service and the process stay up and requests come  *)
(* as far as their call, the circuit does not stay open, and no probe      *)
(* blocks the others for good.                                             *)
CircuitRecovers ==
  (<>[](up /\ process = "serving" /\ stop = "no") /\ []<>(\E r \in Calls : At(r, "ready")))
     => (<>[](state # "open") /\ []<>(~halfOpenInflight))

(* A backend that serves has the tables and constraints it relies on.      *)
ServesComplete == process # "down" => Complete(shape)
=============================================================================
