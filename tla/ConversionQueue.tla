-------------------------- MODULE ConversionQueue --------------------------
(***************************************************************************)
(* The life of an admitted conversion job: the API process charges the     *)
(* daily quota and dispatches the job (main.py), Redis holds the queue,    *)
(* the processing list, the job records, the counter and the refund        *)
(* markers (job_store.py, quota.py), one worker process consumes the queue *)
(* (worker.py), and the shared volume holds uploads, DOCX results and the  *)
(* refund journal (refund_journal.py).                                     *)
(*                                                                         *)
(* One action is one call to Redis with the local statements around it, so *)
(* a crash or a step of the other process may fall between any two calls.  *)
(* The worker's store is strict: a failed call raises, the process exits   *)
(* without its cleanup and Compose restarts it.  For Redis and the volume  *)
(* that is a crash just before or just after the call, so WorkerCrash      *)
(* stands for both.  The calls whose failure is survived have their own    *)
(* fault outcomes: the worker's refund and every call of the API.          *)
(*                                                                         *)
(* All jobs belong to one user and one UTC day, hence one quota counter.   *)
(* Not here: the expiry of records, files, counter and marker after a day, *)
(* and a QuotaService that has lost its Redis client (module Quota).       *)
(***************************************************************************)
EXTENDS Naturals, Sequences, FiniteSets, SequencesExt

CONSTANTS
  Jobs,         \* the conversions a user submits
  DailyLimit,   \* QuotaService.limit
  NoEntry,      \* the worker holds no payload
  LostReplies,  \* may Redis execute a command whose caller gets an exception?
  MaxFaults,    \* bound: failed calls and disk errors in a behaviour
  MaxCrashes    \* bound: process exits in a behaviour

Entries == [job : Jobs, refundOnly : BOOLEAN]

ASSUME ConstantsAssumption ==
  /\ IsFiniteSet(Jobs)
  /\ DailyLimit \in Nat
  /\ NoEntry \notin Entries
  /\ LostReplies \in BOOLEAN
  /\ MaxFaults \in Nat
  /\ MaxCrashes \in Nat

VARIABLES
  \* Redis
  queue,          \* conversion_queue; LPUSH appends, index 1 is popped next
  processing,     \* the processing list, in the same orientation
  status,         \* status field of each job record, "none" when absent
  refundPending,  \* jobs whose record has quotaRefundPending
  refunded,       \* jobs whose refund marker is set
  quota,          \* the daily counter
  \* shared volume
  sources,        \* jobs whose uploaded PDF is on disk
  results,        \* jobs whose DOCX is on disk
  journal,        \* jobs with a pending-refund file
  \* API process
  api,            \* where the request that submitted the job stands
  local,          \* status in _LOCAL_JOBS, "none" when absent
  usingRedis,     \* STORE.using_redis
  retries,        \* _PENDING_REFUNDS, each with a live retry task
  resumed,        \* journal files _resume_pending_refunds has read, not yet scheduled
  cleanup,        \* _artifact_cleanup_loop is running
  \* worker process
  pc,             \* the next call of the worker
  entry,          \* the payload it works on
  refundPath,     \* process_job took its refund-only branch
  scan,           \* journal files _enqueue_journal_refunds has read, not yet pushed
  \* bookkeeping of the model
  charged,        \* jobs whose admission incremented the counter
  refunds,        \* number of refund transactions that took effect, per job
  doubled,        \* jobs with a payload too many: an LPUSH whose caller saw it fail
  unfiled,        \* jobs whose failed refund the API could not write to the journal
  faults,
  crashes

redisVars  == <<queue, processing, status, refundPending>>
quotaVars  == <<refunded, quota, refunds>>
apiVars    == <<api, local, usingRedis, retries, resumed, cleanup, doubled, unfiled>>
workerVars == <<pc, entry, refundPath, scan>>
vars == <<queue, processing, status, refundPending, refunded, quota,
          sources, results, journal,
          api, local, usingRedis, retries, resumed, cleanup,
          pc, entry, refundPath, scan,
          charged, refunds, doubled, unfiled, faults, crashes>>

Statuses   == {"none", "queued", "processing", "completed", "failed"}
Terminal   == {"completed", "failed"}
ApiStages  == {"new", "admitted", "saved", "queued", "local", "rejected", "lost"}
LocalStats == {"none", "active", "completed", "failed"}
WorkerPcs  == {"down", "reclaim", "journal", "idle", "load", "begin", "convert",
               "recordCompleted", "recordFailed", "deleteArtifacts", "refund",
               "recordRefund", "dropJournal", "finish", "markPending", "requeue", "deleteSource"}

-----------------------------------------------------------------------------
(* Payloads and lists. *)

Full(j)       == [job |-> j, refundOnly |-> FALSE]
RefundOnly(j) == [job |-> j, refundOnly |-> TRUE]

\* finish_refund_processing: the payloads of other jobs stay, in order.  Written
\* without SelectSeq, whose recursion a proof could not expand.
OtherJobs(list, j) == {i \in 1..Len(list) : list[i].job # j}
LRemJob(list, j) ==
  LET Keep == OtherJobs(list, j)
  IN  [n \in 1..Cardinality(Keep) |->
         list[CHOOSE i \in Keep : Cardinality({k \in Keep : k <= i}) = n]]

HasFullEntry(j) == Full(j) \in ToSet(queue) \union ToSet(processing)
HasEntry(j)     == HasFullEntry(j) \/ RefundOnly(j) \in ToSet(queue) \union ToSet(processing)

-----------------------------------------------------------------------------
(* QuotaService on Redis: WATCH/MULTI makes each a single transaction. *)

ChargeQuota(j) ==
  /\ quota < DailyLimit
  /\ quota' = quota + 1
  /\ charged' = charged \union {j}

\* Fault: a plain DECR that ignores the marker and the floor.
RefundByDecr(j) ==
  /\ refunded' = refunded \union {j}
  /\ quota' = quota - 1
  /\ refunds' = [refunds EXCEPT ![j] = @ + 1]

\* Fault: "already refunded" counts as a failure that must be retried.
RefundOnlyIfUnmarked(j) == j \notin refunded /\ RefundByDecr(j)

RefundChargeOnce(j) ==
  IF j \in refunded
  THEN UNCHANGED quotaVars
  ELSE /\ refunded' = refunded \union {j}
       /\ quota' = IF quota > 0 THEN quota - 1 ELSE quota
       /\ refunds' = [refunds EXCEPT ![j] = @ + 1]

Fault == faults < MaxFaults /\ faults' = faults + 1

\* A refund that raises: nothing happened, or it happened and the reply was lost.
RefundRaises(j) ==
  \/ UNCHANGED quotaVars
  \/ LostReplies /\ RefundChargeOnce(j)

-----------------------------------------------------------------------------
(* The API process.  Its handlers run on one event loop, so a dispatch (no   *)
(* await between its calls) and a resume scan exclude each other.            *)

EventLoopFree == resumed = {} /\ \A j \in Jobs : api[j] # "saved"

\* admit_upload, on a worker thread: the upload is on disk, then the charge.
Admit(j) ==
  /\ api[j] = "new"
  /\ ChargeQuota(j)
  /\ sources' = sources \union {j}
  /\ api' = [api EXCEPT ![j] = "admitted"]
  /\ UNCHANGED <<redisVars, refunded, refunds, results, journal, local, usingRedis, retries,
                 resumed, cleanup, doubled, unfiled, workerVars, faults, crashes>>

\* The upload is refused: not a readable PDF, a password, scanned pages without a key,
\* or no slot left today.  Nothing was charged and the file is deleted again.
Refuse(j) ==
  /\ api[j] = "new"
  /\ api' = [api EXCEPT ![j] = "rejected"]
  /\ UNCHANGED <<redisVars, quotaVars, sources, results, journal, local, usingRedis, retries,
                 resumed, cleanup, doubled, unfiled, workerVars, charged, faults, crashes>>

\* STORE.save.  When both attempts fail the store is in memory mode for good;
\* the record may be in Redis all the same.
DispatchSave(j) ==
  /\ EventLoopFree
  /\ api[j] = "admitted" /\ usingRedis
  /\ api' = [api EXCEPT ![j] = "saved"]
  /\ \/ /\ status' = [status EXCEPT ![j] = "queued"]
        /\ UNCHANGED <<usingRedis, faults>>
     \/ /\ Fault
        /\ usingRedis' = FALSE
        /\ \/ UNCHANGED status
           \/ LostReplies /\ status' = [status EXCEPT ![j] = "queued"]
  /\ UNCHANGED <<queue, processing, refundPending, quotaVars, sources, results, journal,
                 local, retries, resumed, cleanup, doubled, unfiled, workerVars, charged, crashes>>

PushTwice(j) == Append(Append(queue, Full(j)), Full(j))

\* STORE.enqueue.  _redis_call retries a failed LPUSH once on a new connection,
\* so a lost reply leaves a second payload; when the retry fails as well, up to
\* two payloads are queued although enqueue raises and the job also runs locally.
DispatchEnqueue(j) ==
  /\ api[j] = "saved" /\ usingRedis
  /\ \/ /\ queue' = Append(queue, Full(j))
        /\ api' = [api EXCEPT ![j] = "queued"]
        /\ UNCHANGED <<local, usingRedis, doubled, faults>>
     \/ /\ LostReplies /\ Fault
        /\ queue' = PushTwice(j)
        /\ doubled' = doubled \union {j}
        /\ api' = [api EXCEPT ![j] = "queued"]
        /\ UNCHANGED <<local, usingRedis>>
     \/ /\ Fault
        /\ \/ UNCHANGED <<queue, doubled>>
           \/ /\ LostReplies
              /\ queue' \in {Append(queue, Full(j)), PushTwice(j)}
              /\ doubled' = doubled \union {j}
        /\ usingRedis' = FALSE
        /\ local' = [local EXCEPT ![j] = "active"]
        /\ api' = [api EXCEPT ![j] = "local"]
  /\ UNCHANGED <<processing, status, refundPending, quotaVars, sources, results, journal,
                 retries, resumed, cleanup, unfiled, workerVars, charged, crashes>>

\* The store is in memory mode: the job runs in this process.
DispatchLocal(j) ==
  /\ ~usingRedis
  /\ \/ api[j] = "saved"
     \/ api[j] = "admitted" /\ EventLoopFree
  /\ api' = [api EXCEPT ![j] = "local"]
  /\ local' = [local EXCEPT ![j] = "active"]
  /\ UNCHANGED <<redisVars, quotaVars, sources, results, journal, usingRedis, retries,
                 resumed, cleanup, doubled, unfiled, workerVars, charged, faults, crashes>>

\* _attempt_job_refund; when it raises, _schedule_job_refund_retry, which writes the
\* journal file before anything else: when that fails too, neither the file nor
\* _PENDING_REFUNDS has the refund.  A refund that succeeds deletes the files in cleared.
RefundOrSchedule(j, cleared) ==
  \/ /\ RefundChargeOnce(j)
     /\ journal' = journal \ cleared
     /\ UNCHANGED <<retries, unfiled, faults>>
  \/ /\ Fault /\ RefundRaises(j)
     /\ \/ /\ journal' = journal \union {j}
           /\ retries' = retries \union {j}
           /\ UNCHANGED unfiled
        \/ /\ unfiled' = unfiled \union {j}
           /\ UNCHANGED <<journal, retries>>

\* _dispatch_job cannot prepare its directories: refund, drop the upload, 500.  The
\* OSError of an unwritten journal file leaves before the upload is dropped.  When its
\* STORE.delete fails, the store also goes to memory mode, as in StatusReadFails.
DispatchError(j) ==
  /\ EventLoopFree
  /\ api[j] = "admitted"
  /\ RefundOrSchedule(j, {})
  /\ sources' = IF j \in unfiled' THEN sources ELSE sources \ {j}
  /\ api' = [api EXCEPT ![j] = "rejected"]
  /\ UNCHANGED <<redisVars, results, local, usingRedis, resumed, cleanup, doubled,
                 workerVars, charged, crashes>>

\* _run_job_in_process up to its end: the conversion needs the upload.
LocalCompletes(j) ==
  /\ EventLoopFree
  /\ local[j] = "active" /\ j \in sources
  /\ local' = [local EXCEPT ![j] = "completed"]
  /\ results' = results \union {j}
  /\ sources' = sources \ {j}
  /\ UNCHANGED <<redisVars, quotaVars, journal, api, usingRedis, retries, resumed, cleanup,
                 doubled, unfiled, workerVars, charged, faults, crashes>>

\* The upload goes whatever the refund does (finally).  An OSError of a failed report's
\* refund is caught once and the refund tried again, with the same possible outcomes.
LocalFails(j) ==
  /\ EventLoopFree
  /\ local[j] = "active"
  /\ local' = [local EXCEPT ![j] = "failed"]
  /\ results' = results \ {j}
  /\ RefundOrSchedule(j, {j})
  /\ sources' = sources \ {j}
  /\ UNCHANGED <<redisVars, api, usingRedis, resumed, cleanup, doubled, workerVars, charged,
                 crashes>>

\* Fault: the retry task forgets the refund before the attempt has succeeded.
RetryRefundForgets(j) ==
  /\ EventLoopFree
  /\ j \in retries
  /\ retries' = retries \ {j}
  /\ journal' = journal \ {j}
  /\ \/ RefundChargeOnce(j) /\ UNCHANGED faults
     \/ Fault /\ RefundRaises(j)
  /\ UNCHANGED <<redisVars, sources, results, api, local, usingRedis, resumed, cleanup,
                 doubled, unfiled, workerVars, charged, crashes>>

\* One round of _retry_job_refund: on an exception the task sleeps and goes on.
RetryRefund(j) ==
  /\ EventLoopFree
  /\ j \in retries
  /\ \/ /\ RefundChargeOnce(j)
        /\ retries' = retries \ {j}
        /\ journal' = journal \ {j}
        /\ UNCHANGED faults
     \/ Fault /\ RefundRaises(j) /\ UNCHANGED <<retries, journal>>
  /\ UNCHANGED <<redisVars, sources, results, api, local, usingRedis, resumed, cleanup,
                 doubled, unfiled, workerVars, charged, crashes>>

\* _resume_pending_refunds reads every journal file first (startup, then every
\* FILE_CLEANUP_INTERVAL_S by the cleanup loop) ...
ResumeRead ==
  /\ EventLoopFree /\ cleanup
  /\ journal \ retries # {}
  /\ resumed' = journal \ retries
  /\ UNCHANGED <<redisVars, quotaVars, sources, results, journal, api, local, usingRedis,
                 retries, cleanup, doubled, unfiled, workerVars, charged, faults, crashes>>

\* ... then schedules each, which writes the file again.  A write that fails ends the
\* scan and, as nothing catches it, the loop (at startup the process: ApiRestart).
ResumeSchedule(j) ==
  /\ j \in resumed
  /\ \/ /\ resumed' = resumed \ {j}
        /\ journal' = journal \union {j}
        /\ retries' = retries \union {j}
        /\ UNCHANGED <<cleanup, faults>>
     \/ /\ Fault
        /\ resumed' = {}
        /\ cleanup' = FALSE
        /\ UNCHANGED <<journal, retries>>
  /\ UNCHANGED <<redisVars, quotaVars, sources, results, api, local, usingRedis, doubled,
                 unfiled, workerVars, charged, crashes>>

\* A status read whose two attempts fail also puts the store in memory mode.
StatusReadFails ==
  /\ EventLoopFree /\ usingRedis
  /\ Fault
  /\ usingRedis' = FALSE
  /\ UNCHANGED <<redisVars, quotaVars, sources, results, journal, api, local, retries,
                 resumed, cleanup, doubled, unfiled, workerVars, charged, crashes>>

\* The API process dies and Compose starts it again: requests and in-process jobs
\* under way are gone, and with them _LOCAL_JOBS and the retry tasks.
ApiRestart ==
  /\ crashes < MaxCrashes /\ crashes' = crashes + 1
  /\ api' = [j \in Jobs |-> IF api[j] \in {"admitted", "saved"} \/ local[j] = "active"
                            THEN "lost" ELSE api[j]]
  /\ local' = [j \in Jobs |-> "none"]
  /\ usingRedis' = TRUE
  /\ retries' = {} /\ resumed' = {} /\ cleanup' = TRUE
  /\ UNCHANGED <<redisVars, quotaVars, sources, results, journal, doubled, unfiled,
                 workerVars, charged, faults>>

-----------------------------------------------------------------------------
(* The worker process: run_worker, and process_job for one payload.         *)

Goto(from, to) == pc = from /\ pc' = to

job == entry.job

\* Compose starts the worker; JobStore connects.
WorkerStart ==
  /\ Goto("down", "reclaim")
  /\ UNCHANGED <<redisVars, quotaVars, sources, results, journal, apiVars, entry,
                 refundPath, scan, charged, faults, crashes>>

\* Fault: startup does not reclaim.
SkipReclaim ==
  /\ Goto("reclaim", "journal")
  /\ scan' = journal
  /\ UNCHANGED <<redisVars, quotaVars, sources, results, journal, apiVars, entry,
                 refundPath, charged, faults, crashes>>

\* One RPOPLPUSH of reclaim_processing; the list empty, startup goes on to the
\* journal.
ReclaimProcessing ==
  /\ pc = "reclaim"
  /\ \/ /\ processing # <<>>
        /\ queue' = Append(queue, Head(processing))
        /\ processing' = Tail(processing)
        /\ UNCHANGED <<pc, scan>>
     \/ /\ processing = <<>>
        /\ pc' = "journal" /\ scan' = journal
        /\ UNCHANGED <<queue, processing>>
  /\ UNCHANGED <<status, refundPending, quotaVars, sources, results, journal, apiVars,
                 entry, refundPath, charged, faults, crashes>>

\* _enqueue_journal_refunds: one LPUSH per file read, in no particular order.
EnqueueJournalRefund ==
  /\ pc = "journal"
  /\ \/ \E j \in scan : /\ queue' = Append(queue, RefundOnly(j))
                        /\ scan' = scan \ {j}
                        /\ pc' = pc
     \/ scan = {} /\ pc' = "idle" /\ UNCHANGED <<queue, scan>>
  /\ UNCHANGED <<processing, status, refundPending, quotaVars, sources, results, journal,
                 apiVars, entry, refundPath, charged, faults, crashes>>

\* Fault: BRPOP, the payload is only in the worker's memory.
DequeueByPop ==
  /\ Goto("idle", "load")
  /\ queue # <<>>
  /\ entry' = Head(queue)
  /\ queue' = Tail(queue)
  /\ UNCHANGED <<processing, status, refundPending, quotaVars, sources, results, journal,
                 apiVars, refundPath, scan, charged, faults, crashes>>

\* BRPOPLPUSH.
Dequeue ==
  /\ Goto("idle", "load")
  /\ queue # <<>>
  /\ entry' = Head(queue)
  /\ queue' = Tail(queue)
  /\ processing' = Append(processing, Head(queue))
  /\ UNCHANGED <<status, refundPending, quotaVars, sources, results, journal, apiVars,
                 refundPath, scan, charged, faults, crashes>>

\* BRPOPLPUSH times out on an empty queue: look at the journal again.
PollTimeout ==
  /\ Goto("idle", "journal")
  /\ queue = <<>> /\ journal # {}
  /\ scan' = journal
  /\ UNCHANGED <<redisVars, quotaVars, sources, results, journal, apiVars, entry,
                 refundPath, charged, faults, crashes>>

\* STORE.load: only quotaRefundPending of the prior record is looked at, neither
\* its status nor the refund marker.
LoadPriorState ==
  /\ pc = "load"
  /\ refundPath' = (entry.refundOnly \/ job \in refundPending)
  /\ pc' = IF refundPath' THEN "refund" ELSE "begin"
  /\ UNCHANGED <<redisVars, quotaVars, sources, results, journal, apiVars, entry, scan,
                 charged, faults, crashes>>

BeginProcessing ==
  /\ Goto("begin", "convert")
  /\ status' = [status EXCEPT ![job] = "processing"]
  /\ UNCHANGED <<queue, processing, refundPending, quotaVars, sources, results, journal,
                 apiVars, entry, refundPath, scan, charged, faults, crashes>>

\* convert_pdf reports anything but "failed"; the DOCX is on disk.
ConvertSucceeds ==
  /\ Goto("convert", "recordCompleted")
  /\ job \in sources
  /\ results' = results \union {job}
  /\ UNCHANGED <<redisVars, quotaVars, sources, journal, apiVars, entry, refundPath, scan,
                 charged, faults, crashes>>

\* Fault: a report with status "failed" takes the success branch.
FailedReportCompletes ==
  /\ Goto("convert", "recordCompleted")
  /\ UNCHANGED <<redisVars, quotaVars, sources, results, journal, apiVars, entry,
                 refundPath, scan, charged, faults, crashes>>

\* It reports "failed" or raises, as it must when the upload is gone.
ConvertFails ==
  /\ Goto("convert", "recordFailed")
  /\ UNCHANGED <<redisVars, quotaVars, sources, results, journal, apiVars, entry,
                 refundPath, scan, charged, faults, crashes>>

RecordCompleted ==
  /\ Goto("recordCompleted", "finish")
  /\ status' = [status EXCEPT ![job] = "completed"]
  /\ UNCHANGED <<queue, processing, refundPending, quotaVars, sources, results, journal,
                 apiVars, entry, refundPath, scan, charged, faults, crashes>>

RecordFailed ==
  /\ Goto("recordFailed", "deleteArtifacts")
  /\ status' = [status EXCEPT ![job] = "failed"]
  /\ UNCHANGED <<queue, processing, refundPending, quotaVars, sources, results, journal,
                 apiVars, entry, refundPath, scan, charged, faults, crashes>>

DeleteArtifacts ==
  /\ Goto("deleteArtifacts", "refund")
  /\ results' = results \ {job}
  /\ UNCHANGED <<redisVars, quotaVars, sources, journal, apiVars, entry, refundPath, scan,
                 charged, faults, crashes>>

\* The transaction of _refund_once; its exception is caught, and the refund goes to
\* the journal unless the disk fails too.
RefundOnce ==
  /\ pc = "refund"
  /\ \/ /\ RefundChargeOnce(job)
        /\ pc' = "recordRefund"
        /\ UNCHANGED <<journal, faults>>
     \/ /\ Fault /\ RefundRaises(job)
        /\ journal' \in {journal, journal \union {job}}
        /\ pc' = IF refundPath THEN "requeue" ELSE "markPending"
  /\ UNCHANGED <<redisVars, sources, results, apiVars, entry, refundPath, scan, charged,
                 crashes>>

\* The rest of _refund_once: the record (quotaRefunded, which is also written, is
\* read by nobody in queue mode), then the journal file.
RecordRefund ==
  /\ Goto("recordRefund", "dropJournal")
  /\ refundPending' = refundPending \ {job}
  /\ UNCHANGED <<queue, processing, status, quotaVars, sources, results, journal, apiVars,
                 entry, refundPath, scan, charged, faults, crashes>>

DropJournal ==
  /\ Goto("dropJournal", "finish")
  /\ journal' = journal \ {job}
  /\ UNCHANGED <<redisVars, quotaVars, sources, results, apiVars, entry, refundPath, scan,
                 charged, faults, crashes>>

\* finish_refund_processing on the refund-only branch, else finish_processing.
FinishProcessing ==
  /\ Goto("finish", "deleteSource")
  /\ processing' = IF refundPath THEN LRemJob(processing, job)
                                 ELSE RemoveFirst(processing, entry)
  /\ UNCHANGED <<queue, status, refundPending, quotaVars, sources, results, journal,
                 apiVars, entry, refundPath, scan, charged, faults, crashes>>

MarkRefundPending ==
  /\ Goto("markPending", "requeue")
  /\ refundPending' = refundPending \union {job}
  /\ UNCHANGED <<queue, processing, status, quotaVars, sources, results, journal, apiVars,
                 entry, refundPath, scan, charged, faults, crashes>>

\* requeue_processing: MULTI, so the payload and its replacement swap at once.
RequeueProcessing ==
  /\ Goto("requeue", "deleteSource")
  /\ processing' = RemoveFirst(processing, entry)
  /\ queue' = Append(queue, RefundOnly(job))
  /\ UNCHANGED <<status, refundPending, quotaVars, sources, results, journal, apiVars,
                 entry, refundPath, scan, charged, faults, crashes>>

\* A refund-only payload names no upload.
DeleteSource ==
  /\ Goto("deleteSource", "idle")
  /\ sources' = IF entry.refundOnly THEN sources ELSE sources \ {job}
  /\ entry' = NoEntry
  /\ UNCHANGED <<redisVars, quotaVars, results, journal, apiVars, refundPath, scan,
                 charged, faults, crashes>>

\* Fault: the cleanup of process_job also runs when Redis was lost.
ExitDeletesSource ==
  /\ pc # "down"
  /\ crashes < MaxCrashes /\ crashes' = crashes + 1
  /\ pc' = "down"
  /\ sources' = IF entry = NoEntry THEN sources ELSE sources \ {job}
  /\ entry' = NoEntry
  /\ scan' = {}
  /\ refundPath' = FALSE
  /\ UNCHANGED <<redisVars, quotaVars, results, journal, apiVars, charged, faults>>

\* A crash, or worker_main's exit on RedisUnavailableError.
WorkerCrash ==
  /\ pc # "down"
  /\ crashes < MaxCrashes /\ crashes' = crashes + 1
  /\ pc' = "down"
  /\ entry' = NoEntry
  /\ scan' = {}
  /\ refundPath' = FALSE
  /\ UNCHANGED <<redisVars, quotaVars, sources, results, journal, apiVars, charged, faults>>

-----------------------------------------------------------------------------
Init ==
  /\ queue = <<>> /\ processing = <<>>
  /\ status = [j \in Jobs |-> "none"]
  /\ refundPending = {} /\ refunded = {} /\ quota = 0
  /\ sources = {} /\ results = {} /\ journal = {}
  /\ api = [j \in Jobs |-> "new"]
  /\ local = [j \in Jobs |-> "none"]
  /\ usingRedis = TRUE
  /\ retries = {} /\ resumed = {} /\ cleanup = TRUE
  /\ pc = "down" /\ entry = NoEntry /\ refundPath = FALSE /\ scan = {}
  /\ charged = {} /\ refunds = [j \in Jobs |-> 0] /\ doubled = {} /\ unfiled = {}
  /\ faults = 0 /\ crashes = 0

ApiDispatch(j) ==
  \/ DispatchSave(j) \/ DispatchEnqueue(j) \/ DispatchLocal(j) \/ DispatchError(j)

ApiTask(j) ==
  \/ LocalCompletes(j) \/ LocalFails(j) \/ RetryRefund(j) \/ ResumeSchedule(j)

Worker ==
  \/ WorkerStart \/ ReclaimProcessing \/ EnqueueJournalRefund
  \/ Dequeue \/ PollTimeout \/ LoadPriorState
  \/ BeginProcessing \/ ConvertSucceeds \/ ConvertFails
  \/ RecordCompleted \/ RecordFailed \/ DeleteArtifacts
  \/ RefundOnce \/ RecordRefund \/ DropJournal \/ FinishProcessing
  \/ MarkRefundPending \/ RequeueProcessing \/ DeleteSource

Next ==
  \/ \E j \in Jobs : Admit(j) \/ Refuse(j) \/ ApiDispatch(j) \/ ApiTask(j)
  \/ ResumeRead \/ StatusReadFails \/ ApiRestart
  \/ Worker \/ WorkerCrash

Spec == Init /\ [][Next]_vars

\* Compose restarts the worker, whose loop never stops by itself; asyncio runs every
\* ready task.  Users need not submit, and nothing has to fail.
FairSpec ==
  /\ Spec
  /\ WF_vars(Worker)
  /\ WF_vars(ResumeRead)
  /\ \A j \in Jobs : WF_vars(ApiDispatch(j)) /\ WF_vars(ApiTask(j))

-----------------------------------------------------------------------------
(* Properties *)

RedisTypeOK ==
  /\ queue \in Seq(Entries) /\ processing \in Seq(Entries)
  /\ status \in [Jobs -> Statuses]
  /\ refundPending \subseteq Jobs

QuotaTypeOK ==
  /\ quota \in Nat
  /\ refunded \subseteq Jobs /\ charged \subseteq Jobs
  /\ refunds \in [Jobs -> Nat]

VolumeTypeOK == sources \subseteq Jobs /\ results \subseteq Jobs /\ journal \subseteq Jobs

ApiTypeOK ==
  /\ api \in [Jobs -> ApiStages] /\ local \in [Jobs -> LocalStats]
  /\ usingRedis \in BOOLEAN /\ cleanup \in BOOLEAN
  /\ retries \subseteq Jobs /\ resumed \subseteq Jobs
  /\ doubled \subseteq Jobs /\ unfiled \subseteq Jobs

WorkerTypeOK ==
  /\ pc \in WorkerPcs /\ entry \in Entries \union {NoEntry}
  /\ refundPath \in BOOLEAN /\ scan \subseteq Jobs

TypeOK ==
  /\ RedisTypeOK /\ QuotaTypeOK /\ VolumeTypeOK /\ ApiTypeOK /\ WorkerTypeOK
  /\ faults \in Nat /\ crashes \in Nat

\* The counter is exactly the number of charges that were not given back: over
\* duplicates, lost replies, journal replays by both processes and restarts, a
\* charge is refunded at most once and only if it was made (quota.py
\* refund_charge_once, worker.py _refund_once, main.py _attempt_job_refund).
QuotaConserved ==
  /\ \A j \in Jobs : refunds[j] <= 1
  /\ {j \in Jobs : refunds[j] > 0} \subseteq charged
  /\ quota = Cardinality({j \in charged : refunds[j] = 0})

\* A job whose dispatch answered "queue" is never dropped: until its record is
\* completed, or failed with the refund made, a payload for it is in the queue or
\* the processing list; and while the record says queued or processing it is the
\* full payload (worker.py's durability contract: dequeue, requeue, reclaim).
NoLostJob ==
  \A j \in Jobs : api[j] = "queued" =>
    /\ \/ HasEntry(j)
       \/ status[j] = "completed"
       \/ status[j] = "failed" /\ j \in refunded
    /\ status[j] \notin Terminal => HasFullEntry(j)

\* One payload at a time is in flight: whatever lies in the processing list is what
\* the worker holds or what a dead worker left for reclaim, so no payload is
\* stranded there while the worker serves others.
InFlightIsHeld ==
  /\ Len(processing) <= 1
  /\ pc \in {"journal", "idle", "deleteSource"} => processing = <<>>
  /\ pc \notin {"down", "reclaim", "journal", "idle", "deleteSource"} => processing = <<entry>>

\* A failure decided by the API (dispatch error, failed in-process job) is refunded
\* or has its journal file, whichever process picks it up and whenever either dies: the
\* one way to forget it is that the refund failed and the write of its file failed too.
NoRefundForgotten ==
  \A j \in charged : api[j] = "rejected" \/ local[j] = "failed" =>
    j \in refunded \union journal \union unfiled

\* As long as a full payload is in either list its upload is on disk: process_job
\* deletes the source only after the payload has left the processing list.  Not for a
\* job with a payload too many, whose second payload outlives the upload.
SourceKept == \A j \in Jobs \ doubled : HasFullEntry(j) => j \in sources

\* What GET /convert/{id} answers (_find_job: the local registry, then the store).
View(j) == IF local[j] # "none" THEN local[j]
           ELSE IF usingRedis THEN status[j] ELSE "none"

\* A job shown as completed has its DOCX, also while the worker converts it again
\* after a restart.  Not for a job with a payload too many, which runs twice.
ResultPresent == \A j \in Jobs \ doubled : View(j) = "completed" => j \in results

Settled(j) == status[j] \in Terminal /\ ~HasEntry(j) /\ (status[j] = "failed" => j \in refunded)

\* Every job dispatched to the queue reaches a terminal record with no payload left,
\* refunded if it failed, whatever the worker went through.
QueuedSettles == \A j \in Jobs : api[j] = "queued" ~> Settled(j)

\* Every journalled refund is eventually made and its file removed, also when the
\* marker was set by an attempt whose reply was lost.
JournalDrains == \A j \in Jobs : j \in journal ~> (j \notin journal /\ j \in refunded)

\* The ledger this module implements.
account == [j \in Jobs |-> IF j \notin charged THEN "free"
                          ELSE IF refunds[j] = 0 THEN "charged" ELSE "refunded"]

Ledger == INSTANCE QuotaLedger WITH Limit <- DailyLimit, used <- quota

\* Every step of the two processes, faults and restarts included, is one charge, one
\* refund or neither, as a user would keep the account (QuotaLedger).
ImplementsLedger == Ledger!Spec

\* docs/superpowers/specs/2026-08-21-full-project-review-remediation-design.md:
\* "successful jobs never refund it".
SuccessNeverRefunded == \A j \in Jobs : status[j] = "completed" => refunds[j] = 0

=============================================================================
