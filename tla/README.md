# DocSystem: specifications, checks and proofs

DocSystem turns PDF files into DOCX. A Next.js frontend talks to an Express
backend through its own proxy route; the backend authenticates users and calls a
Python conversion service; that service admits uploads, charges a daily quota and
queues jobs in Redis; one worker process converts them. Postgres holds accounts,
password-reset tokens and the users' encrypted Gemini keys.

This directory holds TLA+ modules of the parts whose correctness depends on the
order in which things happen, TLC configurations that check them on small
instances, and TLAPS proofs of what holds for every instance. `PROJECT.json` maps
each definition to the lines it was translated from.

## 1. The system

| Component | State it keeps | Operations | What is hard |
|---|---|---|---|
| Job queue (`conversion-service/job_store.py`, `worker.py`) | Redis: queue, processing list, job records; one worker | enqueue, dequeue, finish, requeue, reclaim, process_job | worker crash or Redis loss between any two calls; a payload delivered twice; API and worker on the same records |
| Admission and dispatch (`admission.py`, `main.py`) | uploads on a shared volume, `_LOCAL_JOBS`, retry tasks | admit, dispatch to the queue or in-process, status, result, report, bulk | loss of Redis in the middle of a dispatch; restart of the API with jobs under way |
| Quota and refunds (`quota.py`, `refund_journal.py`) | daily counter, refund markers, journal files | charge, refund once, save / load / delete journal | refund retried by two processes; lost replies; expiry of counter and marker; memory fallback |
| Artifact retention (`artifact_cleanup.py`) | DOCX and media files | mark complete, delete, expire | file and record lifetimes drift apart |
| Conversion pipeline (`pipeline.py`, `triage/`, `vision/`, `structuring/`, `assembly/`, `render/`, `fidelity.py`) | none across jobs | triage pages, vision batches, classify, stitch, render, status of the report | every page accounted for over failing batches; which status wins |
| Metrics (`metrics.py`) | counters, last outcomes | inc, observe, alerts | ring of outcomes shared by threads |
| Conversion client (`backend/src/services/conversion_service_client.ts`, `utils/circuit_breaker.ts`) | breaker state per backend process | submit, poll, download through the breaker | calls that outlive the state they were admitted in |
| Backend process (`backend/src/index.ts`, `routes/convert.ts`, `middleware/timeout.ts`, `middleware/ratelimit.ts`, `utils/redis.ts`, `utils/graceful_shutdown.ts`, `services/readiness_service.ts`) | the listening server, its requests, staged uploads under `.incoming`, handlers of signals and errors, the exit code | start, submit, bulk, read, time out, drain, close, exit | handlers that run on after their client was answered; signals, errors and the deadline in any order |
| Accounts (`routes/auth.ts`, `middleware/user_auth.ts`, `services/password_reset_service.ts`, `scripts/*`) | users, session versions, reset tokens | register, login, verify, request reset, reset, operator reset, bootstrap | logins, resets and requests interleaving on one account |
| LLM settings (`routes/llm-settings.ts`, `services/llm_config_service.ts`, `frontend/components/settings/*`) | one encrypted key per user; the dialog, its form, `dirtyRef` | read, save, test, delete, close, discard | read-modify-write without a lock; answers to forms that are gone |
| Convert page (`app/(app)/convert/page.tsx`, `components/convert/*`) | list of jobs, polling timer, the dialog's files | poll, submit, preview | late responses, duplicate file names, unmount |
| Session pages and proxy (`components/auth/*`, `proxy.ts`, `app/api/*`, `lib/server/backend.ts`) | session cookie of the browser, state of a tab, Turnstile token | navigate, refresh, sign in, sign up, sign out, redirect | one cookie under several tabs; refreshes out of order; two judges of who is signed in |
| Schema baseline (`services/migration_baseline.ts`, `scripts/detect_migration_baseline.ts`, the `migrate` container) | the tables, Prisma's record of its migration | detect, resolve, deploy | a container that dies between two of them |
| Operations (`ops/`, `docker-compose*.yml`), evaluation (`conversion-service/eval`) | none | scripts | outside the running system |

The API and the worker share Redis and the volume and never call each other. The
backend reaches the conversion API by HTTP only, the frontend reaches the backend
by HTTP only.

### What makes each part correct

* **Jobs**: a queued job is never lost; it ends in one terminal state; uploads stay
  as long as a payload needs them; a completed job has its DOCX.
* **Quota**: the counter is the number of charges not refunded; a failed job is
  refunded exactly once, whichever process does it.
* **Pipeline**: each page and zone reaches the document or is reported as degraded;
  a failed conversion is reported as failed.
* **Breaker**: it opens only for the service's own failures, it never gets stuck,
  and one probe at a time goes through when half-open.
* **Accounts**: a session is good only for the password in force; one reset token
  wins; a used or superseded token never works.
* **Session, settings**: a tab comes to rest whatever other tabs do; a refused session
  is shown; the dialog knows of text the user typed and has not saved.
* **Convert page**: no late response on the wrong job, every admitted file shown.
* **Process**: what a request staged is removed by it; a stop drains before it closes
  and ends; an error is not reported as success; the schema is whole before it starts.

## 2. Plan

Order of work, the most important behaviour first. What is done is marked.

1. `ConversionQueue`: jobs, queue, quota accounting, refund journal, both processes;
   `QuotaLedger`, what a user is promised about the quota, which it implements. **Done.**
2. `CircuitBreaker`, `PasswordReset`: the two concurrent parts of the backend. **Done.**
3. `JobList`, `UploadDialog` and their composition `ConvertPage`. **Done.**
4. `Quota`: the Redis transactions under concurrency, expiry and fallback. **Done.**
5. `Pipeline`, `Stitcher`, `Hierarchy`: one conversion, from its pages to its verdict.
   **Done.**
6. `Session` and `Settings`: a tab, its cookie and its account; the settings dialog
   on top of it. **Done.**
7. `BackendServer`: the process with its requests, the breaker and the container that
   migrates its database (`Migration`). **Done.** `Document`: Hierarchy and Stitcher as
   one pass over a document. **Done.**
8. `Retention`: age-based deletion and record expiry beside the file actions of
   `ConversionQueue`. `StatusRoutes`: what the API answers about a job after it lost
   Redis.
9. `Table` and `Ledger`: the quality gate of `structuring/tables.py`, the comparison of
   `fidelity.py` and the rules of `rule_engine.py` against reference definitions.
10. Proofs: every safety invariant and action property of the runs has its theorem. Still
   worth having: the modules of items 8 and 9 with theirs.

New components share runs with the ones they interact with, so that a run stays one
question about the system.

### Modules

| Module | Models | Proofs | Run |
|---|---|---|---|
| `ConversionQueue` | job queue, dispatch, refunds, worker | `ConversionQueueProofs` | `conversion_jobs`, `success_refunded` |
| `QuotaLedger` | what the quota promises | in the above | property of `conversion_jobs` |
| `Quota` | quota transactions on Redis | `QuotaProofs` | `quota` |
| `Pipeline` | `convert_pdf` | `PipelineProofs` | `pipeline` |
| `Stitcher` | assembly of the blocks | in `DocumentProofs` | |
| `Hierarchy` | numbering and lists of points | in `DocumentProofs` | |
| `Document` | both, one after the other | `DocumentProofs` | `document` |
| `CircuitBreaker` | calls of the backend to the service | `BackendProofs` | |
| `Migration` | the container that migrates the database | `BackendProofs` | |
| `BackendServer` | the process, with the two above | `BackendProofs` | `backend`, `late_uploads` |
| `PasswordReset` | reset links, sessions of an account | `PasswordResetProofs` | `sessions` |
| `JobList`, `UploadDialog` | list and dialog of the page | in the next | |
| `ConvertPage` | both together | `ConvertPageProofs` | `convert_page`, `duplicate_names` |
| `Session` | a tab, the cookie, the account | `SettingsProofs` | |
| `Settings` | the dialog of the Gemini key, in such a tab | `SettingsProofs` | `workspace`, `forward` |

The `MC*` modules hold the model values, symmetries and bounded input sets of the runs.
In the modules, a definition whose comment begins with "Fault:" or whose name says what
it drops (`SkipReclaim`, `ChargeExecUnwatched`, ...) is a deliberately wrong version of
the definition after it. `PROJECT.json` names it under "mutants": put in the place of
the right one it must make the property fail, which shows that the property depends on
that detail of the code. Nothing else uses these definitions.

## 3. ConversionQueue

One action is one call to Redis with the local statements around it. A crash, or a
step of the other process, may fall between any two of them.

| TLA+ | Code |
|---|---|
| `queue`, `processing` | the two Redis lists; `LPUSH` appends at the end, index 1 is popped next |
| `status`, `refundPending` | fields of the job record |
| `refunded`, `quota` | refund markers and the day's counter |
| `sources`, `results`, `journal` | files on the shared volume |
| `api[j]`, `local[j]`, `usingRedis`, `retries`, `resumed`, `cleanup` | the API: the request of job j, `_LOCAL_JOBS`, `STORE.using_redis`, `_PENDING_REFUNDS`, journal files read but not yet scheduled, whether the cleanup loop still runs |
| `pc`, `entry`, `refundPath`, `scan` | the worker: next call, payload in hand, branch taken, journal files read but not yet pushed |
| `charged`, `refunds` | history: which jobs were charged, how often refunded |
| `doubled`, `unfiled` | history: jobs with a payload too many, because an `LPUSH` took effect although its caller saw it fail; jobs whose refund failed in the API and could not be written to the journal either |

API actions: `Admit`, `Refuse`, `DispatchSave`, `DispatchEnqueue`,
`DispatchLocal`, `DispatchError`, `LocalCompletes`, `LocalFails`, `RetryRefund`,
`ResumeRead`, `ResumeSchedule`, `StatusReadFails`, `ApiRestart`. Worker actions
follow `run_worker` and `process_job` call by call, from `WorkerStart` to
`DeleteSource`; `WorkerCrash` is a crash, or the exit of the strict worker when a
call to Redis fails.

Faults of Redis calls the API survives are outcomes of the calling action. With
`LostReplies` a command may have run although its caller got an exception;
`_redis_call` then runs it a second time.

Abstractions: one user and one UTC day, hence one counter; no expiry of records,
files, counter or marker; the API's `QuotaService` keeps its client (its memory
fallback is left to a module `Quota`) and Redis is up whenever the API restarts;
`quotaRefunded`, progress, reports and metrics are not state; `completed` stands
for `completed_with_warnings` too; corrupt payloads are left out. A journal write may fail
in either process. In the worker the record and the replaced payload still carry the
refund. In the API `_schedule_job_refund_retry` writes the file before it notes the refund
for a retry, so a write that fails leaves neither (`RefundOrSchedule`, `unfiled`); in the
scan of `_resume_pending_refunds` it ends the scan and the cleanup loop, and the files wait
for the next start (`ResumeSchedule`).

### Runs

Bounds: two jobs make the interleavings of two payloads, of a duplicate payload and
of the API with the worker; two failed calls allow a failed refund whose retry or whose
journal write fails too, and a lost reply after which the retry fails; one exit of each
kind, of either process, puts a restart between any two calls. A refusal needs no third
job, since `Refuse` may happen to any.

| Run | Question | Result |
|---|---|---|
| `conversion_jobs` | Do charges, refunds, payloads and files agree, and does everything that was queued or journalled end? `NoLostJob`, `NoRefundForgotten`, `SourceKept`, `ResultPresent`, `ImplementsLedger`, `QueuedSettles`, `JournalDrains` | hold (582,273 states) |
| `success_refunded` | "successful jobs never refund it" | violated |

Replies of Redis may be lost in `conversion_jobs`, so `JournalDrains` covers the marker
that was set by an attempt whose reply was lost. `NoRefundForgotten` exempts the refunds
that could not be written down (`unfiled`). `SourceKept` and `ResultPresent` exempt the jobs with a payload
too many (`doubled`): such a payload is delivered again after the upload was deleted, and
the second delivery fails a job that had completed. The violation is one restart: the
worker stops after it refunded a job and before it removed the payload, and its successor
converts the job again, this time with success. The runs disable TLC's deadlock check:
with nothing to do the worker polls an empty queue, which is a stuttering step.

`ImplementsLedger` is the refinement of `QuotaLedger`: `account[j]` is free, charged or
refunded after the history of job j, `used` is the counter. Every step of the two
processes is then one charge, one refund, or nothing a user can see.

Fairness (`FairSpec`): the worker is restarted by Compose and its loop never stops,
so it is weakly fair; asyncio runs every ready task, so dispatches, in-process jobs,
retry tasks and the resume loop are weakly fair per job, the loop as long as it runs. Nobody has to submit, and
nothing has to fail or to stop failing: the bounds on faults and crashes make them
finite, without which no job need ever end.

### Proofs

`ConversionQueueProofs` proves for any finite set of jobs, any limit and any number
of faults and crashes:

* `TypeCorrect`: `TypeOK` always holds. What `LREM` leaves of the processing list is
  only known because the list never holds more than the payload in hand, so the
  inductive invariant `TypeInv` carries `InFlightIsHeld` and the fact that the worker
  has a payload while it works.
* `InFlightHeld`: that part on its own.
* `QuotaIsConserved`: `QuotaConserved` always holds. A refund takes exactly one off
  only if the job was charged and its marker is new, so `AccountInv` follows every
  place a refund can start from (payloads in both lists and in hand, journal files,
  retry tasks, resumed files, in-process jobs) and says that each names a charged job,
  and that the counter is the number of charged jobs without a marker. The floor at
  zero in the code is then never what stops a decrement.

* `LedgerImplemented`: the refinement, `Spec => ImplementsLedger`. Each action leaves
  the ledger alone, or charges one free account below the limit, or refunds one charged
  account; that a refund never meets a counter of zero comes from `AccountInv`.

The durability theorems of the same module build on them, with the set of payloads on both lists as its view of
the queue:

* `JobIsNeverLost`: `NoLostJob` always holds. `DurableInv` adds what each place in
  `process_job` knows when it takes a payload off the lists (`StagesDecided`: before
  `finish_processing` the record is completed or the refund made; a full payload goes
  only after its record is decided), that a pending refund belongs to a decided record
  (so the refund-only branch never drops an unconverted job), and that neither process
  knows of a job before its dispatch has queued it or started it here (`FreshUnknown`),
  so that the API's save of a record does not race the worker's.
* `RefundIsNeverForgotten`: `NoRefundForgotten` always holds: a failure the API decided is
  refunded, on file, or one whose file could not be written. A journal file is removed
  in three places, each after the marker was set; for `DropJournal` that is a fact about
  two earlier calls, and part of `StagesDecided`.
* `UploadIsKept` and `ResultIsPresent`: `SourceKept` and `ResultPresent` always hold.
  `FilesInv` says that a full payload of a job that is not in `doubled` is on the lists
  once (`FullOnce`) and never while the job runs in the API (`OneRunner`).

All assume `ConstantsAssumption` and nothing else. The two liveness properties are
model-checked.

## 4. Quota

`ConversionQueue` takes a charge or a refund as one step. `Quota` opens it: WATCH and
GET are one action, EXEC another, and EXEC runs nothing when a watched key was written
in between (`call[c].at = "dirty"`; then `Retry`). Threads of the API and the worker
refund the same job at once; the counter of a day and the marker of a refund expire; a
failed charge drops the API's client (`ChargeFails`), after which it counts in its own
memory (`ChargeInMemory`, `RefundInMemory`) until `ApiRestart`.

| TLA+ | Code (`quota.py`) |
|---|---|
| `counter[d]`, `marker[j]` | the key of a user's day with its expiry; the marker of a refund |
| `memory`, `memMarker` | `_memory`, `_memory_refunds` of the API |
| `call[c]` | the transaction of a caller: key, value read, whether a watched key changed |
| `home`, `day`, `taken` | history: which counter holds a charge, of which day, refunds made in Redis |

Run `quota` (541,592 states): `CounterExact` (which includes that every counter will
expire), `LimitHolds`, `RefundedOnce`. Two jobs over a limit of one are two admissions competing for one slot
with up to four refunds; the clock spans two days of two ticks each and the start of a third; two
faults and a restart let a charge fall back and come back. `CounterExact` and
`LimitHolds` are stated while no call has failed. After a fault they are not true of the
code: a charge may run although its caller counts in memory, and the worker's refund of
a job charged in the API's memory takes one off the Redis counter (see 11).
`RefundedOnce` needs a marker that lives as long as the day (`MarkerTtl >= DayLength`),
which `CONVERSION_JOB_TTL_S` and the day have by default (`config.py:75`).

`QuotaProofs` proves, for any jobs, callers, limit, lengths of the day and of a marker,
faults and restarts:

* `TypeCorrect` and `CountersExpire` (`Lasting`, `Bounded`): faults or not, a counter above
  zero will expire and not before its day is over, and it never exceeds the limit.
* `SlotReturnedOnce`, `CounterIsExact`, `LimitIsHeld`: `RefundedOnce`, `CounterExact` and
  `LimitHolds`, under `MarkersLast == MarkerTtl >= DayLength`.

The argument has three layers. A transaction that is still clean when it executes has
read what is there (`Fresh`): that is what WATCH gives, and why a charge is below the
limit and a refund without its marker at the moment they write. The lifetimes come next:
a counter outlives its day (`Lasting`), and a marker set on the day of the charge lasts
until that day ends (`Marked`, the part that needs `MarkersLast`). Then, while no call has
failed, each step that moves the counter of today moves the set of jobs that hold a slot
with it (`Exact`). `CounterExact` is not inductive by itself, since it speaks of the
present day only: `Lasting` says that the counter of a day to come is zero, which is what
midnight finds.

## 5. Conversion pipeline

`Pipeline` is one run of `convert_pdf`: open, walk over the pages, transcription of the
scanned ones in batches with a bounded number of calls at a time, assembly, verdict. A
line of a text page is one `<<page, role>>` and weighs one unit; which lines a page has
(`Layouts`), what Gemini answers, whether a divergence passes the threshold of the
ledger and whether the average confidence is low are choices of the environment.
`degraded`, `warned` and `report` are those of `ConversionReport`.

Run `pipeline` (402,168 states): four pages, text pages of six layouts (body text, running
header with page number, signatures with, without and reduced to the label of the
recipients, a table), in batches of two with two calls at a time,
so that a batch may be complete, partial, invalid or empty while the other raises, and
ratios fall on both sides of each threshold.

* `NothingDropped`: each scanned page is transcribed, or degraded once and named
  (`ScannedAccounted`); text is left out only as a page number, as margin text that another
  page repeats, as the label over a list of recipients, for which the renderer writes
  its own, or as the signature zone of a page before the last one with such a zone
  (`TextIntact`).
* `HonestStatus`: plain success means no degraded page, no rejected table, no drift,
  enough coverage: no branch undoes the doubt of one before it. It says nothing of
  `failed`, which `pipeline.py:483` may overwrite with `completed_with_warnings` (section 11).
* `Concludes`: the conversion ends if Gemini answers, and no call is under way once the
  batch stage is left, by success or by an exception. Weak fairness of the worker's
  thread, and of the provider; the second is an assumption on the service, since the
  code sets no timeout on a call.

`PipelineProofs` proves for any number of pages, any size of batches, any number of calls
at a time and any thresholds: `TypeCorrect`, `NothingIsDropped` (`NothingDropped`),
`StatusIsHonest` (`HonestStatus`) and `CallsAreJoined`, the safety half of `Concludes`.
The inductive invariant says where every line is at every moment. Until the vision stage
is over, each line read is among the blocks or the signatures and no block comes from a
transcription (`LinesHeld`, `Untranscribed`), so the assembly is the only place where
text can go (`TextKept`), and `LeftOut` names what it may take. For scanned pages the list ascends (`InOrder`), hence the
batches cut from it share no page and cover it (`BatchesPartition`), and a page is either
returned by its batch or missing from it: `CollectAccounts` adds the two up to
`ScannedAccounted`. `VerdictHonest` follows the branches that assign the status one after
another. The thresholds need no relation to each other. That the conversion ends
(`Concludes`) is model-checked.

Not modelled: the overlap of tables with zones, the validator's rules, the text itself.

`Hierarchy` is stage 4 of the classifier: the counters for article, clause and point,
and the lists of consecutive points. Letters are numbers. `Stitcher` is `assemble`:
sorting, running headers, cut paragraphs, split tables, section breaks. Each stage is a
loop, and a step is one turn of it: the next block of `stream` goes to the end of `out`,
or into the last block there (`Absorb`), or nowhere; what a stage put out is what the
next works on (`NextStage`). `Sort` states what Python's stable sort returns, the one
order by page and place in the list. `Document` puts them in the order of `convert_pdf`: one classifier
walks over all pages, then the blocks it made enter the stream, among the tables, breaks
and transcriptions that the other stages add; the classifier is not asked again.

Run `document` (1,441,490 states) structures every document of up to five lines with
numbers up to three (a violation of the numbering needs a parent, two children and a
reset, at most four lines), and assembles every stream of up to three blocks over twelve
shapes and three pages (a header or a merge relates two neighbours, a wrong merge three)
that has at least the blocks the classifier made:

* `EveryLineOnce`: each block goes on where the one before it ended, over page breaks,
  and the last, or the points still waiting, end with the last line.
* `Numbering`: kept articles, clauses and points count up from one inside their chapter,
  article and clause.
* `OnlyMarginsLost`: what disappears is a page number in a margin, words that stand in
  the same margin of another page, or a section break that repeats the one before it
  with nothing kept in between.
* `ReadingOrder`: what is left reads in page order and, inside a page, in the order of
  extraction, also inside joined blocks; a table has parts on two pages at most.

Not modelled: cropping and anchors of images, confidence.

`DocumentProofs` proves all four for documents of any length, numbers of any size and any
stream of any shapes: `NumberingHolds`, `LinesAreKept`, `OnlyMarginsAreLost`,
`ReadsInOrder`, and `TypeCorrect`. The inductive invariant has a part for each half:

* `Numbering` speaks of lines, and the next line is judged by counters. `CountersKnow`
  connects them: a counter above zero is the number of the last line kept at its level,
  with nothing kept above it since. `EveryLineOnce` is inductive once the variables have
  their types; the two ways a block comes about, a block of one line (`TilesAppend`) and
  a list that grows (`TilesGrow`), are lemmas about sequences.
* For the assembly the invariant speaks of `Whole`, what the stage put out followed by
  what it has yet to see, so that every step either leaves it, drops one block
  (`DropKeeps`) or folds one into its neighbour (`FuseKeeps`). `Good` says that it is in
  order, that breaks are untouched blocks of the input, and that a table is on its own
  page, or on two and without a box, which is what keeps a third page out. `Explained`
  says why each block it no longer carries is gone; a dropped break that was itself the
  reason for an earlier one passes the reason on (`DroppedBreak`). `MarginsKnown` ties
  the set of repeated margins to two blocks of the input.

## 6. Circuit breaker

`CircuitBreaker` is `utils/circuit_breaker.ts` under its callers in
`conversion_service_client.ts`. `execute` is synchronous up to the call (`AdmitClosed`,
`AdmitProbe`), the rest runs when the call ends (`Succeed`, `ClientError`,
`ServerFailure`), with whatever state the breaker has by then. `sinceFailure` is the age
of `lastFailureTime`, `up` and `exposed` say which calls may fail.

The module has no run of its own: its calls are those of the requests of `BackendServer`
(section 7), and its properties are checked there.

* `FlagMeansProbe`: the flag `halfOpenInflight` stands for a probe under way, however
  late calls end.
* `OpensOnOutageOnly`: it opens only after `Threshold` failures of the service with no
  success in between.

`BackendProofs` proves `FlagIsNeverStale`, `ClosedHasAllowance` and
`OpensForOutages` for any calls, threshold and timeout. The invariant adds
`CountIsBacked`: in the closed state the count never exceeds the failures since the last
success.

## 7. The backend process and its database

`BackendServer` is one life after another of the backend container: `docker compose up`
waits for the `migrate` container (`Start`), the process connects to Redis, binds its
port, serves, and ends by a signal, an error or a kill (`Dies`); everything in memory,
the breaker included, is then that of a new process.

| TLA+ | Code |
|---|---|
| `process`, `listening` | how far `index.ts` is; `server.close` stops listening |
| `stop`, `code` | how far `createShutdownHandler` is; `process.exitCode` |
| `handlers` | the `process.once` handlers still there: SIGTERM, unhandledRejection, uncaughtException |
| `request[r]` | a handler of `routes/convert.ts`: what for, how far, calls to go, and what its client sees: waiting, answered by the timer, gone |
| `staged` | its files under `.incoming` |
| `Signal`, `Shutdown`, `Drained`, `GraceOver`, `CloseRedis`, `DisconnectPrisma`, `Exit` | `graceful_shutdown.ts` and the hooks of `index.ts`, one action per await |
| `Arrive`, `Pass`, `Parsed`, `Call`, `Returned`, `End` | middleware, multer, the call through the breaker, its answer, the answer of the handler |
| `Timeout`, `Disconnect` | `requestTimeout`; a client that goes |

A handler does not stop when its client is answered by the timer. Writing the second
answer throws (`Late`), in the `catch` of the handler too, and the rejection reaches the
process: `Escapes` takes the hook that hears it and begins the shutdown, and without a
hook the process ends at once. What multer refuses is answered outside the promise of the
handler, so there it is an exception (`Hooked`).

`Migration` is the container: `Detect` (the baseline detector), `Resolve`, `Deploy`,
`ApplyScript`, `RecordFinished`, cut short between any two (`Interrupted`) and run again
by the next `docker compose up` (`Run`). The database is the product's tables with what
may be wrong about them, whether others have tables there, and Prisma's record. Prisma
is modelled from its documented behaviour and how the shell line uses it, and is marked
external.

Run `backend` (387,614 states): two requests of each of the three kinds, a threshold of
two and a reset timeout of one tick, so that both calls can fail, end late or be the
probe, and one may be answered twice while the other waits; eleven databases: empty with
and without tables of others, complete, half created, and complete but for one flaw of
each of seven kinds.

* `StagedHasHandler`: what is staged belongs to a handler that has not ended, and that
  will remove it, however its request ends.
* `ClosedAfterDrain`: once the port is closed, Redis and Prisma go only when no client
  waits.
* `CrashReported`: an error that escaped is not reported as a clean exit, whatever
  signals come before or after.
* `ServesComplete`, `AdoptsItsTables`: a backend that runs has the whole schema; a run
  that finds the tables complete ends well unless cut short, also after one that died
  between the script and its record.
* `StopEnds`: a server that begins to drain ends.
* `CircuitRecovers`: while the service and the process stay up and requests come as far
  as their call, the circuit does not stay open and the flag is cleared again and again.
* `FlagMeansProbe`, `OpensOnOutageOnly` of section 6, over restarts.

Fairness: timers fire (axios bounds every call by 10 s or 300 s, the shutdown by its
grace period, time passes for the breaker), Node runs callbacks that are due, and ends
requests that take too long to arrive. Nobody has to send a request or a signal, and the
container need not be started again. `EarlySignals = FALSE` leaves signals before the
server exists out of this run, for its size and because `StopEnds` speaks of a server
that drains; the theorems hold with them.

Run `late_uploads` is the violation of `CleanBeforeAnswer` ("once the client sees the
status, `.incoming` is already clean"): the ten-second timer exempts the path of single
uploads only, so a bulk upload is answered 408 while its files are staged.

`BackendProofs` proves for any requests, threshold, timeout and databases, with and
without early signals: `StagedIsHandled`, `NothingCutsWaiting`, `CrashIsReported`,
`SchemaIsComplete`, `TablesAdopted`, `FlagInProcess`, `OpensInProcess`. The invariant
`WholeInv` has a part for each module. `RecordIsTrue`: the record is written only when
the tables are complete, and what is being created has no flaws. `ProcessInv`: only a
serving process has requests, it began on a migrated database, what is drained stays
drained (the second call of the shutdown handler cannot undo it), and an error that
escaped has begun the shutdown and set the code. `Inv` of the breaker:
`StepsOfParts` shows that each step is one of the breaker's or the end of the process,
and `FreshBreaker` that the end leaves the breaker as it begins. `StopEnds` and
`CircuitRecovers` are model-checked.

Not modelled: the counts of the rate limiters (a limiter passes or refuses), readiness
probes, the content of answers.

## 8. Accounts

`PasswordReset` is one account: the `User` row, its reset links, `requestPasswordReset`,
`resetPassword`, `resetOperatorPassword`, the login and the session check. Every await
is a point where others run. The two resets are transactions at READ COMMITTED: an
UPDATE locks the rows it matches one by one (`SweepBegins`, `SweepRow`), waits for those
another transaction holds and looks at them again; writes show at `Commit`. Deadlocks
are resolved by aborting a member (`DeadlockAbort`), and any transaction may fail at any
point (`Stop`). The time a link is held against is read before the transaction
(`SubmitReset`), so a link may expire while its claim waits for a lock and still win.

Run `sessions` (102,786 states): a request for a link, two resets, an operator's reset and a login, so
that one link is used twice at once, or a link and the operator, with a login that began
before and ends after: `LinkWinsOnce`, `VoidedNeverWins`, `SessionMatchesPassword`,
`ResetsEnd`. Fairness: statements return and PostgreSQL resolves deadlocks; nothing makes
a user act.

`PasswordResetProofs` proves `TypeCorrect`, `SessionsFollowPassword`, `LinkIsSpent` and
`VoidedLinksStayVoid` for any number of requests, resets, operators and logins. The
argument for links: a link is locked by whoever claimed it, a locked link is open, the
winner marks it used while it holds the lock, and used links are never claimed.
For sessions: `sessionVersion` grows with every change of the password, so a login that
saw the present version saw the present password. `ResetsEnd` is model-checked.

Registration is in `Session` (section 10). Not modelled: mail transport, the signature
and claims of tokens.

## 9. The page /convert

`JobList` is `app/(app)/convert/page.tsx`: one interval timer, polls that read the
status of each unfinished job one after another, a patch of the list at the end. An
action is the code between two awaits. A status is how far the job has come.
`UploadDialog` is `ConvertUploadDialog.tsx` with what the service does to a submission:
a list of files, a single or a bulk submission, an answer naming files, an answer that
never comes. `ConvertPage` composes them: an answer with new jobs is one step of both
(`UploadEnds`), the page may be left while an upload is under way.

Run `convert_page` (196,236 states): two files submitted at most twice, hence four jobs,
two activations of the poll (enough for an overlap), one failed read. The files may share
a name, and one of the two names is one that a bulk upload returns altered (`Altered`), as
`multer` does with every Vietnamese name.

* `ActiveIsPolled`, `NeverOlder`: jobs added during a poll are polled, rows never go back.
* `RowsAreJobs`: the rows are the jobs of the answers that arrived, but for those of a
  bulk answer under an altered name (`Tracked`); each row shows the file its job
  converts, or a namesake submitted with it.
* `OnlyNamesakesRemain`: a file whose job the user was told of stays in the dialog only
  beside another file of its name.
* `EveryUploadShown`: a tracked job is finally shown as finished, unless the page is
  left. Fairness: the interval fires, requests are answered, jobs end on the server
  (`QueuedSettles`); nothing is assumed of the user.

Run `duplicate_names` is the violation of `OnlyFailedRemain`, which is the comment at
`ConvertUploadDialog.tsx:106` ("only failed files remain for retry"): two files of one
name are submitted together, one is refused as scanned, and the filter by name (`:109`)
leaves the admitted one beside it, to be converted and charged again.

The status of a job on the server only advances here. A reclaimed payload may set a
finished record back to `processing` (section 11), but the page does not read the status of
a finished job again. Left out: loading of reports and previews, the dialog's checks of a
file's type and size. With two files the limit on the number of files is not reached: a
third makes the run longer than it is worth; the proofs cover any number.

`ConvertPageProofs` proves the safety of the page for any files, submissions, polls and
failures, in three parts:

* The list on its own. `PollInv` makes `ActiveIsPolled`, `OnePoll` and `NeverOlder`
  inductive: only the poll that holds `pollInFlightRef` has collected anything, and what
  it collected lies between what the row shows and what the server has.
* The page implements it (`PageImplementsList`, `PageSpec => Spec`): an answer of the
  dialog is `HandleSubmitted` or nothing, every other step of the dialog leaves the list
  alone. `ActiveRowsArePolled`, `PollsDoNotOverlap` and `RowsNeverAge` follow for the page.
* The dialog. `NamesakesRemain` is `OnlyNamesakesRemain`: the invariant `Beside` adds
  that no list holds a file twice and that what is under way is still listed. An answer is matched by name, so what is kept for a retry has
  the name of a refused file, which is in the list too. `RowsFollowJobs` is
  `RowsAreJobs`: `Corresponds` carries it over the answers, with the file that
  `submitted.find` picks for a name.

Neither has a hypothesis about names. The lemmas the dialog rests on are `RankBijection` and `FilteredList`: a list cut
down to some places holds their members in order, one each. `Filtered` is written with
ranks for this reason, since the provers know nothing of `SelectSeq`. `EveryUploadShown`
is model-checked.

## 10. A tab: session and settings

`Session` is one tab, the cookie of its browser and the account behind it. A token is
the session version it was issued for, so `Accepted(token)` is the check of
`user_auth.ts`. What reaches the tab from outside comes through the cookie (`OtherTab`)
or the account (`Elsewhere`: a registration of the name, a reset by link).

| TLA+ | Code |
|---|---|
| `status`, `reads` | state of `AuthProvider`; its `refresh` calls under way, which it does not put in sequence |
| `page` | where the tab is; `Arrive` is `proxy.ts`, `Redirect` is `RequireSession` |
| `form`, `challenge` | the submission of `AuthForm`; the token of `TurnstileWidget` |
| `LoginChecked`, `RegisterChecked`, `RegisterCreates`, `SignedIn`, `MeChecked`, `LoggedOut` | routes under `app/api/session` with the backend's `routes/auth.ts` behind them |

`Settings` adds the dialog of the Gemini key to such a tab: `LLMSettingsDialog` with its
`dirtyRef` and its question, `LLMProviderForm`, and the calls of its buttons, which read
the row, wait for DNS and write, and go on when their form, dialog or page is gone.

| TLA+ | Code |
|---|---|
| `open`, `confirm`, `dirty` | the dialog, `confirmDiscard`, `dirtyRef` |
| `editor` | the form: stage, key typed, unsaved edits, baseline loaded, stored key, busy button |
| `calls`, `row` | `saveLLMSettings` and `testLLMSettings` under way; the user's row |

Run `workspace` (568,131 states): a tab on which the user acts up to five times (open, type, save, close,
reopen, sign out is five), one call that fails, two calls at a time, two versions of the
account, so that a session can be refused and renewed.

* `GuardKnowsEdits`, `EditsKept`: text typed and not saved is known to the dialog, and
  goes only after the question, with the page, or by the answer of a save. That answer
  may be one to an earlier form, in which case the text does go unasked (section 11):
  `EditsKept` allows it, since the code does it.
* `TabSettles`: left alone, the tab comes to rest; proxy and `RequireSession`, which
  look at different things, do not send it back and forth.
* `RefusalShown`: after a save refused for its session the tab does not go on as if
  signed in.

Fairness: every call is answered or fails (the backend answers 408 after ten seconds, a
connection that ends fails the fetch) and React runs its effects; nothing is assumed of
the user, whose acts are bounded. `TargetResolves` and `Https` are TRUE: the first is
what run `forward` is about, the second matters for signing out (section 11).

Run `forward` is the violation of `CallsReachBackend`. `frontend/lib/server/backend.ts:27`
builds its target from escaped placeholders, so it is the literal text
`${backendUrl()}${path}`: at this commit no request of the frontend reaches the backend.
The other runs are about the evidently meant target.

`SettingsProofs` proves `EditsAreKnown` and `EditsGoAsked` for any keys and bounds, and either value of `TargetResolves` and `Https`. `GuardKnowsEdits`
becomes inductive (`EditsInv`) once it says which forms can hold edits: those that are
shown, and a form that exists has an open dialog. `TabSettles` and `RefusalShown` are
model-checked.

That a name is registered once is the work of the unique indexes of `schema.prisma`; the
model takes it from there (`RegisterCreates`) and no property restates it. Not modelled: the
pages for a forgotten and a reset password, checks of the origin, two
submissions of one tab at once.

## 11. Where code and words part

Four disagreements are runs: `success_refunded` (section 3), `late_uploads` (section 7),
`duplicate_names` (section 9) and `forward` (section 10). The others were met while modelling and are described by the models, or
exempted by name in what is checked:

| The words, or what one would expect | The code |
|---|---|
| `CONTEXT.md:7`: a job's lifecycle ends in `completed`, `completed_with_warnings` or `failed` | `worker.py:105` sets a finished record back to `processing` when a reclaimed payload is delivered again |
| `password_reset_service.test.ts:60`: "honors the 60-second cooldown" | `password_reset_service.ts:115` checks and creates in separate statements: two requests at once both send |
| `page.tsx:167`: the shared timer is cleaned up on unmount | `page.tsx:195` starts it again when an upload ends after the unmount |
| `:97` lists results by file name | `multer` reads names as latin1 (`convert.ts:186`), so a Vietnamese name does not come back as sent and `:91` skips its job, which has no row; a refused file of such a name drops out of the list for retry (`:109`) |
| `:53`: at most `MAX_FILES` per conversion | `:71` is memoised with no dependencies: files dropped are counted against the empty list of the first render |
| `CUTOVER_CHECKLIST.md:47`: "per-file errors surfaced" | `:113` calls `reset()`, which clears them, unless the vision link is shown |
| `main.py:206`: "Keep a failed local/dispatch refund live until the exact charge clears" | `:226` writes the journal file first, outside any `try`: when that fails too, neither file nor task knows of the refund. In the scan of the cleanup loop the same error ends the loop until the next start |
| `quota.py:126-127`: 'a Redis-backed charge must never be "refunded" into an unrelated in-memory counter' | after the fallback of `:65`, the API's refund of a Redis charge goes to its memory; and the worker's refund of a memory charge to Redis |
| `main.py:106`: "Bounded growth" of `_LOCAL_JOBS` | `:117` may evict the entry it has just set; jobs that are not terminal are never evicted |
| `config.py:53` defines a timeout for Gemini | nothing reads it; `gemini_contract.py:196` builds the client without one |
| `pipeline.py:425`: "Empty output on a non-empty text layer is a hard failure" | with few degraded pages, `:483` sets `completed_with_warnings` over `failed` |
| `fidelity.py:23`: no ledger for jobs with any scanned page | `pipeline.py:432` computes it whenever there is a text page, and a transcription then counts as divergence |
| `fidelity.py:3`: "every extracted character lands verbatim in the DOCX" | page numbers and repeated margins are stripped (`stitcher.py:109`); `pipeline.py:405` drops the signature zones of all pages but the last that has one, which may be a bare label; the label of the recipients is consumed (`admin_zones.py:169-175`) and the renderer writes its standard one, whatever the page said |
| `pipeline.py:105`: degrade, do not drop "survives a bad batch" | a call that raises anything ends the whole conversion through `gather` (`gemini_contract.py:304`) |
| `stitcher.py:134`: a paragraph cut by a page break is joined | `:141` compares neighbours in the stream, so a table or image between them keeps them apart |
| `classifier.py:322`: "never silently mislabel" | after a demoted article the clauses that follow count on under the article before it (`:299`) |
| `backend/src/utils/redis.ts:9`: the local limiter is "used only when startup cannot reach Redis" | `:63` also switches to it after four failed reconnections, for good |
| `circuit_breaker.ts:10`: half-open probes "only one at a time" | a call admitted when the circuit was closed may end during a later half-open phase: it clears the flag of the probe under way (`:53`), and a second one is let through |
| `convert.ts:176`: the bulk route has the same contract as the single one | the timer answers it first (`index.ts:59-65`); the handler's own answer then throws, in its catch too, and the rejection shuts the backend down with code 1 |
| `index.ts:122-132`: signals are handled gracefully | a signal before there is a server skips the drain and closes Redis and Prisma; the port is then opened (`:111`), and the process listens without ending |
| `SHUTDOWN_GRACE_MS` is 30 s by default | Compose sets no `stop_grace_period`, so the container is killed after 10 s |
| `convert.ts:120` ff.: staged files are removed with the request | what a killed process had staged under `.incoming` is never removed |
| `process.once` for errors (`index.ts:134`, `:138`) | the second rejection is an exception, and the third error ends the process at once, without drain |
| `docker-compose.yml:108` ff.: an interrupted migration is repaired by the next run | not when it died after Prisma noted that it began and before the script committed: every later run fails (P3009) |
| `2026-08-28-hard-remediation.md:16` (plans): "Allow unrelated legacy tables" | the detector says fresh, and `deploy` refuses a database that is not empty (P3005) |
| `ratelimit.ts:52`: fails closed when Redis is down | while it reconnects; after that the fallback counts from zero again, for good |
| `LLMProviderForm.tsx:72`: leave blank to keep the saved key | `llm-settings.ts:97` reads the key, awaits DNS and writes it back: a key saved meanwhile by another tab is undone |
| `LLMSettingsDialog.tsx:50`: a save closes its dialog | `onSaved` is the dialog's, so the late save of an earlier form closes the one open now, edits included, and leaves `confirmDiscard` set |
| fields are disabled while `busy` | a test that ends while a save is under way enables them, and the save's answer drops what is typed meanwhile |
| the dialog knows of changes by `dirtyRef` | a load that is refused leaves it set though nothing was typed |
| `AuthForm.tsx:106`: "Vui lòng thử lại" (try again) after a failed call | the catch keeps a Turnstile token that was already spent, and Cloudflare refuses it |
| `logout/route.ts:13`: the cookie is cleared | as `Secure` unless in development, which a browser on the local HTTP stack (`docker-compose.yml:177`) does not take; login follows `SESSION_COOKIE_SECURE` instead |
| `AuthProvider.tsx:26`: the status is that of the cookie | refreshes are not in sequence: an older answer may overwrite a newer one, until the next refresh |
| `RequireSession.tsx:20-28`: sends a signed-in user on from the login page | it wraps the pages under `app/(app)` only, which are never `/login` |
| settings of a user | a call carries the cookie of the moment it is sent: after another tab signed in as someone else, a form saves to that account |

## 12. What is proved, what is checked, what is left out

Proved for every value of the constants, under the named assumptions of the modules and
nothing else: the theorems of sections 3 to 10. Those of the quota state one hypothesis of
their own, that markers last a day (section 4). Checked by TLC on the instances
above: every property of every run. With TLC alone stay the liveness properties and
whatever speaks of `ENABLED` (the prover handles neither under fairness). Every other
property of a passing run is the statement of a theorem. No model computes with a
recursive definition in a module that is proved about: loops are steps, sorted orders and
rearrangements are stated by what they satisfy.

Type invariants: each module defines one. They are proved for `ConversionQueue`, `Quota`,
`Pipeline`, `Document`, `PasswordReset`, `JobList` and `UploadDialog`, and as part of the inductive invariants for
`CircuitBreaker`, `BackendServer` and `Migration`, as are `QuotaConserved` and
`InFlightIsHeld` of `ConversionQueue`; the runs leave these to the proofs.

Of the hazards in `PROJECT.json`, a few carry a note and no property: the code does not
guard against them, and the note says what happens instead.

Left out, with reasons, under "components" of `PROJECT.json`: the local registry of the
in-process mode, metrics, rendering and rules, the landing page, operations and
evaluation, and inside the modelled parts what their notes name.
