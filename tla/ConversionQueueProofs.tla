----------------------- MODULE ConversionQueueProofs -----------------------
(***************************************************************************)
(* Proofs about ConversionQueue, for every set of jobs, every limit and    *)
(* every bound on faults and crashes.                                      *)
(***************************************************************************)
EXTENDS ConversionQueue, FiniteSetTheorems, TLAPS

-----------------------------------------------------------------------------
(* Lists of payloads. *)

\* LREM on a list of one payload, its own.
LEMMA RemoveOnly ==
  ASSUME NEW e
  PROVE  RemoveFirst(<<e>>, e) = <<>>
<1>1. {i \in 1..Len(<<e>>) : <<e>>[i] = e} = {1}
  OBVIOUS
<1>2. SelectInSeq(<<e>>, LAMBDA v : v = e) = 1
  BY <1>1 DEF SelectInSeq, Min
<1>3. RemoveAt(<<e>>, 1) = <<>>
  BY DEF RemoveAt
<1> QED
  BY <1>2, <1>3 DEF RemoveFirst

\* finish_refund_processing on a list of one payload of the job.
LEMMA RemoveJobOnly ==
  ASSUME NEW e \in Entries
  PROVE  LRemJob(<<e>>, e.job) = <<>>
<1>1. OtherJobs(<<e>>, e.job) = {}
  BY DEF OtherJobs
<1>2. Cardinality(OtherJobs(<<e>>, e.job)) = 0
  BY <1>1, FS_EmptySet
<1> QED
  BY <1>2 DEF LRemJob

-----------------------------------------------------------------------------
(* Type correctness, together with what the worker holds: the list that LREM *)
(* is applied to is known only through InFlightIsHeld.                       *)

Working == WorkerPcs \ {"down", "reclaim", "journal", "idle"}

TypeInv ==
  /\ TypeOK
  /\ InFlightIsHeld
  /\ pc \in Working => entry \in Entries

LEMMA InitTypeInv == Init => TypeInv
<1> SUFFICES ASSUME Init PROVE TypeInv
  OBVIOUS
<1>1. queue \in Seq(Entries) /\ processing \in Seq(Entries)
  BY DEF Init
<1>2. /\ status \in [Jobs -> Statuses]
      /\ api \in [Jobs -> ApiStages]
      /\ local \in [Jobs -> LocalStats]
      /\ refunds \in [Jobs -> Nat]
  BY DEF Init, Statuses, ApiStages, LocalStats
<1>3. /\ quota \in Nat /\ faults \in Nat /\ crashes \in Nat
      /\ usingRedis \in BOOLEAN /\ cleanup \in BOOLEAN /\ refundPath \in BOOLEAN
      /\ pc \in WorkerPcs
  BY DEF Init, WorkerPcs
<1>4. TypeOK
  BY <1>1, <1>2, <1>3
  DEF Init, TypeOK, RedisTypeOK, QuotaTypeOK, VolumeTypeOK, ApiTypeOK, WorkerTypeOK
<1>5. InFlightIsHeld
  BY DEF Init, InFlightIsHeld
<1> QED
  BY <1>4, <1>5 DEF Init, TypeInv, Working

\* The steps that need more than the definitions.

LEMMA RefundTypes ==
  ASSUME TypeInv, NEW j \in Jobs, RefundChargeOnce(j) \/ UNCHANGED quotaVars
  PROVE  refunded' \subseteq Jobs /\ quota' \in Nat /\ refunds' \in [Jobs -> Nat]
BY DEF TypeInv, TypeOK, QuotaTypeOK, RefundChargeOnce, quotaVars

LEMMA RefundRaisesIs ==
  ASSUME NEW j \in Jobs, RefundRaises(j)
  PROVE  RefundChargeOnce(j) \/ UNCHANGED quotaVars
BY DEF RefundRaises

LEMMA SaveTypeInv ==
  ASSUME TypeInv, NEW j \in Jobs, DispatchSave(j)
  PROVE  TypeInv'
<1> USE DEF TypeInv, TypeOK
<1>1. RedisTypeOK' /\ InFlightIsHeld'
  BY DEF RedisTypeOK, InFlightIsHeld, Statuses, DispatchSave, workerVars
<1>2. QuotaTypeOK' /\ VolumeTypeOK' /\ crashes' \in Nat
  BY DEF QuotaTypeOK, VolumeTypeOK, DispatchSave, quotaVars
<1>3. faults' \in Nat
  <2>1. faults' = faults \/ faults' = faults + 1
    BY Zenon DEF DispatchSave, Fault
  <2> QED BY <2>1
<1>4. usingRedis' \in BOOLEAN
  <2>1. usingRedis' = usingRedis \/ usingRedis' = FALSE
    BY DEF DispatchSave
  <2>2. usingRedis \in BOOLEAN
    BY DEF ApiTypeOK
  <2> QED BY <2>1, <2>2
<1>5. api' \in [Jobs -> ApiStages]
  BY DEF ApiTypeOK, ApiStages, DispatchSave
<1>6. ApiTypeOK'
  BY <1>4, <1>5 DEF ApiTypeOK, DispatchSave
<1>7. WorkerTypeOK' /\ (pc \in Working => entry \in Entries)'
  BY DEF WorkerTypeOK, DispatchSave, workerVars
<1> QED BY <1>1, <1>2, <1>3, <1>6, <1>7

LEMMA EnqueueTypeInv ==
  ASSUME TypeInv, NEW j \in Jobs, DispatchEnqueue(j)
  PROVE  TypeInv'
<1> USE DEF TypeInv, TypeOK
<1>1. Full(j) \in Entries
  BY DEF Full, Entries
<1>2. queue' \in Seq(Entries)
  <2>1. /\ Append(queue, Full(j)) \in Seq(Entries)
        /\ PushTwice(j) \in Seq(Entries)
        /\ queue \in Seq(Entries)
    BY <1>1 DEF RedisTypeOK, PushTwice
  <2>2. queue' \in {queue, Append(queue, Full(j)), PushTwice(j)}
    BY DEF DispatchEnqueue
  <2> QED BY <2>1, <2>2
<1>3. RedisTypeOK' /\ InFlightIsHeld'
  BY <1>2 DEF RedisTypeOK, InFlightIsHeld, DispatchEnqueue, workerVars
<1>4. QuotaTypeOK' /\ VolumeTypeOK' /\ crashes' \in Nat
  BY DEF QuotaTypeOK, VolumeTypeOK, DispatchEnqueue, quotaVars
<1>5. faults' \in Nat
  <2>1. faults' = faults \/ faults' = faults + 1
    BY Zenon DEF DispatchEnqueue, Fault
  <2> QED BY <2>1
<1>6. usingRedis' \in BOOLEAN
  <2>1. usingRedis' = usingRedis \/ usingRedis' = FALSE
    BY DEF DispatchEnqueue
  <2>2. usingRedis \in BOOLEAN
    BY DEF ApiTypeOK
  <2> QED BY <2>1, <2>2
<1>7. api' \in [Jobs -> ApiStages] /\ local' \in [Jobs -> LocalStats]
  BY DEF ApiTypeOK, ApiStages, LocalStats, DispatchEnqueue
<1>8. ApiTypeOK'
  BY <1>6, <1>7 DEF ApiTypeOK, DispatchEnqueue
<1>9. WorkerTypeOK' /\ (pc \in Working => entry \in Entries)'
  BY DEF WorkerTypeOK, DispatchEnqueue, workerVars
<1> QED BY <1>3, <1>4, <1>5, <1>8, <1>9

LEMMA DispatchErrorTypeInv ==
  ASSUME TypeInv, NEW j \in Jobs, DispatchError(j)
  PROVE  TypeInv'
<1> USE DEF TypeInv, TypeOK
<1>1. QuotaTypeOK'
  BY RefundTypes, RefundRaisesIs DEF QuotaTypeOK, DispatchError, RefundOrSchedule
<1>2. VolumeTypeOK' /\ ApiTypeOK' /\ faults' \in Nat /\ crashes' \in Nat
  BY DEF VolumeTypeOK, ApiTypeOK, ApiStages, DispatchError, RefundOrSchedule, Fault
<1>3. RedisTypeOK' /\ WorkerTypeOK' /\ InFlightIsHeld' /\ (pc \in Working => entry \in Entries)'
  BY DEF RedisTypeOK, WorkerTypeOK, InFlightIsHeld, DispatchError, redisVars, workerVars
<1> QED BY <1>1, <1>2, <1>3

LEMMA LocalFailsTypeInv ==
  ASSUME TypeInv, NEW j \in Jobs, LocalFails(j)
  PROVE  TypeInv'
<1> USE DEF TypeInv, TypeOK
<1>1. QuotaTypeOK'
  BY RefundTypes, RefundRaisesIs DEF QuotaTypeOK, LocalFails, RefundOrSchedule
<1>2. VolumeTypeOK' /\ ApiTypeOK' /\ faults' \in Nat /\ crashes' \in Nat
  BY DEF VolumeTypeOK, ApiTypeOK, LocalStats, LocalFails, RefundOrSchedule, Fault
<1>3. RedisTypeOK' /\ WorkerTypeOK' /\ InFlightIsHeld' /\ (pc \in Working => entry \in Entries)'
  BY DEF RedisTypeOK, WorkerTypeOK, InFlightIsHeld, LocalFails, redisVars, workerVars
<1> QED BY <1>1, <1>2, <1>3

LEMMA RetryTypeInv ==
  ASSUME TypeInv, NEW j \in Jobs, RetryRefund(j)
  PROVE  TypeInv'
<1> USE DEF TypeInv, TypeOK
<1>1. QuotaTypeOK'
  BY RefundTypes, RefundRaisesIs DEF QuotaTypeOK, RetryRefund
<1>2. VolumeTypeOK' /\ ApiTypeOK' /\ faults' \in Nat /\ crashes' \in Nat
  BY DEF VolumeTypeOK, ApiTypeOK, RetryRefund, Fault
<1>3. RedisTypeOK' /\ WorkerTypeOK' /\ InFlightIsHeld' /\ (pc \in Working => entry \in Entries)'
  BY DEF RedisTypeOK, WorkerTypeOK, InFlightIsHeld, RetryRefund, redisVars, workerVars
<1> QED BY <1>1, <1>2, <1>3

LEMMA StatusReadTypeInv ==
  ASSUME TypeInv, StatusReadFails
  PROVE  TypeInv'
<1> USE DEF TypeInv, TypeOK
<1>1. VolumeTypeOK' /\ QuotaTypeOK' /\ faults' \in Nat /\ crashes' \in Nat
  BY DEF VolumeTypeOK, QuotaTypeOK, StatusReadFails, Fault, quotaVars
<1>2. ApiTypeOK'
  BY DEF ApiTypeOK, StatusReadFails
<1>3. RedisTypeOK' /\ WorkerTypeOK' /\ InFlightIsHeld' /\ (pc \in Working => entry \in Entries)'
  BY DEF RedisTypeOK, WorkerTypeOK, InFlightIsHeld, StatusReadFails, redisVars, workerVars
<1> QED BY <1>1, <1>2, <1>3

LEMMA ResumeTypeInv ==
  ASSUME TypeInv, NEW j \in Jobs, ResumeSchedule(j)
  PROVE  TypeInv'
<1> USE DEF TypeInv, TypeOK
<1>1. QuotaTypeOK' /\ crashes' \in Nat
  BY DEF QuotaTypeOK, ResumeSchedule, quotaVars
<1>2. VolumeTypeOK' /\ faults' \in Nat
  BY DEF VolumeTypeOK, ResumeSchedule, Fault
<1>3. ApiTypeOK'
  BY DEF ApiTypeOK, ResumeSchedule
<1>4. RedisTypeOK' /\ WorkerTypeOK' /\ InFlightIsHeld' /\ (pc \in Working => entry \in Entries)'
  BY DEF RedisTypeOK, WorkerTypeOK, InFlightIsHeld, ResumeSchedule, redisVars, workerVars
<1> QED BY <1>1, <1>2, <1>3, <1>4

LEMMA ReclaimTypeInv ==
  ASSUME TypeInv, ReclaimProcessing
  PROVE  TypeInv'
<1> USE DEF TypeInv, TypeOK
<1>1. processing # <<>> => Head(processing) \in Entries /\ Tail(processing) = <<>>
  BY DEF RedisTypeOK, InFlightIsHeld
<1>2. RedisTypeOK'
  <2>1. CASE processing = <<>>
    BY <2>1 DEF RedisTypeOK, ReclaimProcessing
  <2>2. CASE processing # <<>>
    <3>1. queue' = Append(queue, Head(processing)) /\ processing' = <<>>
      BY <1>1, <2>2 DEF ReclaimProcessing
    <3>2. queue' \in Seq(Entries) /\ processing' \in Seq(Entries)
      BY <1>1, <2>2, <3>1 DEF RedisTypeOK
    <3>3. status' = status /\ refundPending' = refundPending
      BY DEF ReclaimProcessing
    <3> QED BY <3>2, <3>3 DEF RedisTypeOK
  <2> QED BY <2>1, <2>2
<1>3. processing' = <<>> /\ pc' \in {"reclaim", "journal"}
  BY <1>1 DEF ReclaimProcessing
<1>4. InFlightIsHeld' /\ (pc \in Working => entry \in Entries)'
  BY <1>3 DEF InFlightIsHeld, Working
<1>5. QuotaTypeOK' /\ VolumeTypeOK' /\ ApiTypeOK' /\ faults' \in Nat /\ crashes' \in Nat
  BY DEF QuotaTypeOK, VolumeTypeOK, ApiTypeOK, ReclaimProcessing, quotaVars, apiVars
<1>6. WorkerTypeOK'
  BY <1>3 DEF WorkerTypeOK, WorkerPcs, VolumeTypeOK, ReclaimProcessing
<1> QED BY <1>2, <1>4, <1>5, <1>6

LEMMA JournalTypeInv ==
  ASSUME TypeInv, EnqueueJournalRefund
  PROVE  TypeInv'
<1> USE DEF TypeInv, TypeOK
<1>1. \A j \in scan : RefundOnly(j) \in Entries
  BY DEF WorkerTypeOK, RefundOnly, Entries
<1>2. RedisTypeOK'
  BY <1>1 DEF RedisTypeOK, EnqueueJournalRefund
<1>3. processing' = <<>> /\ pc' \in {"journal", "idle"}
  BY DEF InFlightIsHeld, EnqueueJournalRefund
<1>4. InFlightIsHeld' /\ (pc \in Working => entry \in Entries)'
  BY <1>3 DEF InFlightIsHeld, Working
<1>5. QuotaTypeOK' /\ VolumeTypeOK' /\ ApiTypeOK' /\ faults' \in Nat /\ crashes' \in Nat
  BY DEF QuotaTypeOK, VolumeTypeOK, ApiTypeOK, EnqueueJournalRefund, quotaVars, apiVars
<1>6. WorkerTypeOK'
  BY <1>3 DEF WorkerTypeOK, WorkerPcs, EnqueueJournalRefund
<1> QED BY <1>2, <1>4, <1>5, <1>6

LEMMA DequeueTypeInv ==
  ASSUME TypeInv, Dequeue
  PROVE  TypeInv'
<1> USE DEF TypeInv, TypeOK
<1>1. Head(queue) \in Entries /\ Tail(queue) \in Seq(Entries)
  BY DEF RedisTypeOK, Dequeue
<1>2. processing' = <<entry'>> /\ pc' = "load" /\ entry' \in Entries
  BY <1>1 DEF InFlightIsHeld, Dequeue, Goto
<1>3. RedisTypeOK'
  BY <1>1, <1>2 DEF RedisTypeOK, Dequeue
<1>4. WorkerTypeOK'
  BY <1>1, <1>2 DEF WorkerTypeOK, WorkerPcs, Dequeue
<1>5. QuotaTypeOK' /\ VolumeTypeOK' /\ ApiTypeOK' /\ faults' \in Nat /\ crashes' \in Nat
  BY DEF QuotaTypeOK, VolumeTypeOK, ApiTypeOK, Dequeue, quotaVars, apiVars
<1>6. InFlightIsHeld'
  BY <1>2 DEF InFlightIsHeld
<1> QED BY <1>2, <1>3, <1>4, <1>5, <1>6

LEMMA RefundTypeInv ==
  ASSUME TypeInv, RefundOnce
  PROVE  TypeInv'
<1> USE DEF TypeInv, TypeOK
<1>1. entry \in Entries /\ job \in Jobs /\ processing = <<entry>>
  BY DEF InFlightIsHeld, Working, WorkerPcs, RefundOnce, job, Entries
<1>2. QuotaTypeOK'
  BY <1>1, RefundTypes, RefundRaisesIs DEF QuotaTypeOK, RefundOnce
<1>3. VolumeTypeOK' /\ ApiTypeOK' /\ faults' \in Nat /\ crashes' \in Nat
  BY <1>1 DEF VolumeTypeOK, ApiTypeOK, RefundOnce, Fault, apiVars
<1>4. /\ pc' \in {"recordRefund", "requeue", "markPending"}
      /\ processing' = <<entry>> /\ entry' = entry
  BY <1>1 DEF RefundOnce, redisVars
<1>5. RedisTypeOK'
  BY DEF RedisTypeOK, RefundOnce, redisVars
<1>6. WorkerTypeOK'
  BY <1>4 DEF WorkerTypeOK, WorkerPcs, RefundOnce
<1>7. InFlightIsHeld' /\ (pc \in Working => entry \in Entries)'
  BY <1>1, <1>4 DEF InFlightIsHeld
<1> QED BY <1>2, <1>3, <1>5, <1>6, <1>7

LEMMA FinishTypeInv ==
  ASSUME TypeInv, FinishProcessing
  PROVE  TypeInv'
<1> USE DEF TypeInv, TypeOK
<1>1. entry \in Entries /\ processing = <<entry>>
  BY DEF InFlightIsHeld, Working, WorkerPcs, FinishProcessing, Goto
<1>2. processing' = <<>> /\ pc' = "deleteSource" /\ entry' = entry
  BY <1>1, RemoveOnly, RemoveJobOnly DEF FinishProcessing, job, Goto
<1>3. RedisTypeOK'
  <2>1. processing' \in Seq(Entries)
    BY <1>2
  <2> QED BY <2>1 DEF RedisTypeOK, FinishProcessing
<1>6. InFlightIsHeld'
  BY <1>2 DEF InFlightIsHeld
<1>4. QuotaTypeOK' /\ VolumeTypeOK' /\ ApiTypeOK' /\ faults' \in Nat /\ crashes' \in Nat
  BY DEF QuotaTypeOK, VolumeTypeOK, ApiTypeOK, FinishProcessing, quotaVars, apiVars
<1>5. WorkerTypeOK'
  BY <1>2 DEF WorkerTypeOK, WorkerPcs, FinishProcessing
<1> QED BY <1>1, <1>2, <1>3, <1>4, <1>5, <1>6

LEMMA RequeueTypeInv ==
  ASSUME TypeInv, RequeueProcessing
  PROVE  TypeInv'
<1> USE DEF TypeInv, TypeOK
<1>1. entry \in Entries /\ processing = <<entry>>
  BY DEF InFlightIsHeld, Working, WorkerPcs, RequeueProcessing, Goto
<1>2. processing' = <<>> /\ pc' = "deleteSource" /\ entry' = entry
  BY <1>1, RemoveOnly DEF RequeueProcessing, Goto
<1>3. RefundOnly(job) \in Entries
  BY <1>1 DEF RefundOnly, job, Entries
<1>4. RedisTypeOK' /\ InFlightIsHeld'
  BY <1>2, <1>3 DEF RedisTypeOK, InFlightIsHeld, RequeueProcessing
<1>5. QuotaTypeOK' /\ VolumeTypeOK' /\ ApiTypeOK' /\ faults' \in Nat /\ crashes' \in Nat
  BY DEF QuotaTypeOK, VolumeTypeOK, ApiTypeOK, RequeueProcessing, quotaVars, apiVars
<1>6. WorkerTypeOK'
  BY <1>2 DEF WorkerTypeOK, WorkerPcs, RequeueProcessing
<1> QED BY <1>1, <1>2, <1>4, <1>5, <1>6

LEMMA CrashTypeInv ==
  ASSUME TypeInv, WorkerCrash
  PROVE  TypeInv'
<1> USE DEF TypeInv, TypeOK
<1>1. RedisTypeOK' /\ QuotaTypeOK' /\ VolumeTypeOK' /\ ApiTypeOK'
  BY DEF RedisTypeOK, QuotaTypeOK, VolumeTypeOK, ApiTypeOK, WorkerCrash, redisVars, quotaVars, apiVars
<1>2. faults' \in Nat /\ crashes' \in Nat
  BY DEF WorkerCrash
<1>3. pc' = "down" /\ processing' = processing
  BY DEF WorkerCrash, redisVars
<1>4. WorkerTypeOK'
  BY <1>3 DEF WorkerTypeOK, WorkerPcs, WorkerCrash
<1>5. InFlightIsHeld' /\ (pc \in Working => entry \in Entries)'
  BY <1>3 DEF InFlightIsHeld, Working
<1> QED BY <1>1, <1>2, <1>4, <1>5

LEMMA StepTypeInv == TypeInv /\ [Next]_vars => TypeInv'
<1> SUFFICES ASSUME TypeInv, [Next]_vars PROVE TypeInv'
  OBVIOUS
<1> USE DEF TypeInv, TypeOK, RedisTypeOK, QuotaTypeOK, VolumeTypeOK, ApiTypeOK, WorkerTypeOK,
        InFlightIsHeld, Working, WorkerPcs, redisVars, quotaVars, apiVars, workerVars
<1>1. ASSUME NEW j \in Jobs, Admit(j) PROVE TypeInv'
  BY <1>1 DEF Admit, ChargeQuota, ApiStages
<1>2. ASSUME NEW j \in Jobs, Refuse(j) PROVE TypeInv'
  BY <1>2 DEF Refuse, ApiStages
<1>3. ASSUME NEW j \in Jobs, DispatchSave(j) PROVE TypeInv'
  BY <1>3, SaveTypeInv
<1>4. ASSUME NEW j \in Jobs, DispatchEnqueue(j) PROVE TypeInv'
  BY <1>4, EnqueueTypeInv
<1>5. ASSUME NEW j \in Jobs, DispatchLocal(j) PROVE TypeInv'
  BY <1>5 DEF DispatchLocal, ApiStages, LocalStats
<1>6. ASSUME NEW j \in Jobs, DispatchError(j) PROVE TypeInv'
  BY <1>6, DispatchErrorTypeInv
<1>7. ASSUME NEW j \in Jobs, LocalCompletes(j) PROVE TypeInv'
  BY <1>7 DEF LocalCompletes, LocalStats
<1>8. ASSUME NEW j \in Jobs, LocalFails(j) PROVE TypeInv'
  BY <1>8, LocalFailsTypeInv
<1>9. ASSUME NEW j \in Jobs, RetryRefund(j) PROVE TypeInv'
  BY <1>9, RetryTypeInv
<1>10. ASSUME NEW j \in Jobs, ResumeSchedule(j) PROVE TypeInv'
  BY <1>10, ResumeTypeInv
<1>11. CASE ResumeRead
  BY <1>11 DEF ResumeRead
<1>12. CASE StatusReadFails
  BY <1>12, StatusReadTypeInv
<1>13. CASE ApiRestart
  BY <1>13 DEF ApiRestart, ApiStages, LocalStats
<1>14. CASE WorkerStart
  BY <1>14 DEF WorkerStart, Goto, job, Entries
<1>15. CASE ReclaimProcessing
  BY <1>15, ReclaimTypeInv
<1>16. CASE EnqueueJournalRefund
  BY <1>16, JournalTypeInv
<1>17. CASE Dequeue
  BY <1>17, DequeueTypeInv
<1>18. CASE PollTimeout
  BY <1>18 DEF PollTimeout, Goto, job, Entries
<1>19. CASE LoadPriorState
  BY <1>19 DEF LoadPriorState, job
<1>20. CASE BeginProcessing
  BY <1>20 DEF BeginProcessing, Goto, job, Entries, Statuses
<1>21. CASE ConvertSucceeds
  BY <1>21 DEF ConvertSucceeds, Goto, job, Entries
<1>22. CASE ConvertFails
  BY <1>22 DEF ConvertFails, Goto, job, Entries
<1>23. CASE RecordCompleted
  BY <1>23 DEF RecordCompleted, Goto, job, Entries, Statuses
<1>24. CASE RecordFailed
  BY <1>24 DEF RecordFailed, Goto, job, Entries, Statuses
<1>25. CASE DeleteArtifacts
  BY <1>25 DEF DeleteArtifacts, Goto, job, Entries
<1>26. CASE RefundOnce
  BY <1>26, RefundTypeInv
<1>27. CASE RecordRefund
  BY <1>27 DEF RecordRefund, Goto, job, Entries
<1>28. CASE DropJournal
  BY <1>28 DEF DropJournal, Goto, job, Entries
<1>29. CASE FinishProcessing
  BY <1>29, FinishTypeInv
<1>30. CASE MarkRefundPending
  BY <1>30 DEF MarkRefundPending, Goto, job, Entries
<1>31. CASE RequeueProcessing
  BY <1>31, RequeueTypeInv
<1>32. CASE DeleteSource
  BY <1>32 DEF DeleteSource, Goto, job, Entries
<1>33. CASE WorkerCrash
  BY <1>33, CrashTypeInv
<1>34. CASE UNCHANGED vars
  BY <1>34 DEF vars
<1> QED
  BY <1>1, <1>2, <1>3, <1>4, <1>5, <1>6, <1>7, <1>8, <1>9, <1>10, <1>11, <1>12,
     <1>13, <1>14, <1>15, <1>16, <1>17, <1>18, <1>19, <1>20, <1>21, <1>22, <1>23,
     <1>24, <1>25, <1>26, <1>27, <1>28, <1>29, <1>30, <1>31, <1>32, <1>33, <1>34
  DEF Next, ApiDispatch, ApiTask, Worker

\* Every variable keeps its type, whatever the number of jobs, faults and restarts
\* (all of main.py's dispatch, job_store.py and worker.py).
THEOREM TypeCorrect == Spec => []TypeOK
<1>1. TypeInv => TypeOK
  BY DEF TypeInv
<1> QED
  BY <1>1, InitTypeInv, StepTypeInv, PTL DEF Spec

\* The worker never serves one payload while another is stranded in the processing
\* list (job_store.py dequeue, finish_processing, requeue_processing,
\* reclaim_processing).
THEOREM InFlightHeld == Spec => []InFlightIsHeld
<1>1. TypeInv => InFlightIsHeld
  BY DEF TypeInv
<1> QED
  BY <1>1, InitTypeInv, StepTypeInv, PTL DEF Spec

-----------------------------------------------------------------------------
(* The counter.  A refund is exact only if the job was charged, so the        *)
(* invariant follows every place a job can be refunded from.                  *)

AllIn(list, C) == \A i \in 1..Len(list) : list[i].job \in C

PayloadsCharged ==
  /\ AllIn(queue, charged)
  /\ AllIn(processing, charged)
  /\ entry # NoEntry => job \in charged

FilesCharged ==
  /\ journal \subseteq charged /\ retries \subseteq charged
  /\ resumed \subseteq charged /\ scan \subseteq charged

StagesCharged ==
  \A j \in Jobs :
    /\ j \in charged => api[j] # "new"
    /\ api[j] \notin {"new", "rejected"} => j \in charged
    /\ local[j] # "none" => j \in charged

CounterExact ==
  /\ refunded \subseteq charged
  /\ refunds = [j \in Jobs |-> IF j \in refunded THEN 1 ELSE 0]
  /\ quota = Cardinality(charged \ refunded)

AccountInv == PayloadsCharged /\ FilesCharged /\ StagesCharged /\ CounterExact

LEMMA InitAccountInv == Init => AccountInv
<1> SUFFICES ASSUME Init PROVE AccountInv
  OBVIOUS
<1>1. PayloadsCharged /\ FilesCharged /\ StagesCharged
  BY DEF Init, PayloadsCharged, AllIn, FilesCharged, StagesCharged
<1>2. charged \ refunded = {}
  BY DEF Init
<1>3. CounterExact
  BY <1>2, FS_EmptySet DEF Init, CounterExact
<1> QED
  BY <1>1, <1>3 DEF AccountInv

\* The first refund of a charged job takes exactly one off, and the floor of the
\* transaction is never what stops it; a later one takes nothing.
LEMMA RefundKeepsCount ==
  ASSUME TypeInv, CounterExact, charged' = charged, NEW j \in charged,
         RefundChargeOnce(j) \/ UNCHANGED quotaVars
  PROVE  CounterExact'
<1>1. CASE UNCHANGED quotaVars
  BY <1>1 DEF CounterExact, quotaVars
<1>2. CASE RefundChargeOnce(j) /\ j \in refunded
  BY <1>2 DEF RefundChargeOnce, CounterExact, quotaVars
<1>3. CASE RefundChargeOnce(j) /\ j \notin refunded
  <2>1. charged \subseteq Jobs /\ refunds \in [Jobs -> Nat]
    BY DEF TypeInv, TypeOK, QuotaTypeOK
  <2>2. IsFiniteSet(charged \ refunded)
    BY <2>1, ConstantsAssumption, FS_Subset
  <2>3. /\ IsFiniteSet((charged \ refunded) \ {j})
        /\ Cardinality((charged \ refunded) \ {j}) = Cardinality(charged \ refunded) - 1
    BY <1>3, <2>2, FS_RemoveElement
  <2>4. Cardinality((charged \ refunded) \ {j}) \in Nat
    BY <2>3, FS_CardinalityType
  <2>5. Cardinality(charged \ refunded) \in Nat
    BY <2>2, FS_CardinalityType
  <2>6. quota > 0
    BY <2>3, <2>4, <2>5 DEF CounterExact
  <2>7. refunded' = refunded \union {j} /\ quota' = quota - 1 /\ refunds' = [refunds EXCEPT ![j] = @ + 1]
    BY <1>3, <2>6 DEF RefundChargeOnce
  <2>8. charged' \ refunded' = (charged \ refunded) \ {j}
    BY <2>7
  <2>9. quota' = Cardinality(charged' \ refunded')
    BY <2>3, <2>7, <2>8 DEF CounterExact
  <2>10. refunds' = [k \in Jobs |-> IF k \in refunded' THEN 1 ELSE 0]
    BY <1>3, <2>1, <2>7 DEF CounterExact
  <2>11. refunded' \subseteq charged'
    BY <2>7 DEF CounterExact
  <2> QED
    BY <2>9, <2>10, <2>11 DEF CounterExact
<1> QED
  BY <1>1, <1>2, <1>3

\* admit_upload charges a job for the first time.
LEMMA AdmitKeepsCount ==
  ASSUME TypeInv, AccountInv, NEW j \in Jobs, Admit(j)
  PROVE  CounterExact'
<1>1. j \notin charged /\ charged \subseteq Jobs
  BY DEF AccountInv, StagesCharged, Admit, TypeInv, TypeOK, QuotaTypeOK
<1>2. j \notin refunded
  BY <1>1 DEF AccountInv, CounterExact
<1>3. IsFiniteSet(charged \ refunded)
  BY <1>1, ConstantsAssumption, FS_Subset
<1>4. Cardinality((charged \ refunded) \union {j}) = Cardinality(charged \ refunded) + 1
  BY <1>1, <1>3, FS_AddElement
<1>5. /\ charged' = charged \union {j} /\ quota' = quota + 1
      /\ refunded' = refunded /\ refunds' = refunds
  BY DEF Admit, ChargeQuota
<1>6. charged' \ refunded' = (charged \ refunded) \union {j}
  BY <1>2, <1>5
<1> QED
  BY <1>4, <1>5, <1>6 DEF AccountInv, CounterExact

LEMMA AppendAllIn ==
  ASSUME NEW C, NEW list \in Seq(Entries), AllIn(list, C), NEW e \in Entries, e.job \in C
  PROVE  AllIn(Append(list, e), C)
BY DEF AllIn

LEMMA TailAllIn ==
  ASSUME NEW C, NEW list \in Seq(Entries), AllIn(list, C), list # <<>>
  PROVE  AllIn(Tail(list), C) /\ Head(list).job \in C
BY DEF AllIn

LEMMA PayloadFacts ==
  ASSUME NEW j \in Jobs
  PROVE  /\ Full(j) \in Entries /\ Full(j).job = j
         /\ RefundOnly(j) \in Entries /\ RefundOnly(j).job = j
BY DEF Full, RefundOnly, Entries

\* Where the quota is not touched.
LEMMA CountKept ==
  ASSUME CounterExact, UNCHANGED <<refunded, quota, refunds, charged>>
  PROVE  CounterExact'
BY DEF CounterExact

\* What most worker steps leave of the accounting state.
LEMMA WorkerKeepsAccount ==
  ASSUME AccountInv, UNCHANGED <<queue, charged, quotaVars, apiVars>>,
         processing' = processing \/ processing' = <<>>,
         entry' = entry \/ entry' = NoEntry,
         journal' \subseteq journal, scan' \subseteq scan \union journal
  PROVE  AccountInv'
<1> USE DEF AccountInv
<1>1. UNCHANGED <<queue, charged, refunded, quota, refunds, api, local, retries, resumed>>
  BY DEF quotaVars, apiVars
<1>2. AllIn(processing, charged)'
  BY <1>1 DEF PayloadsCharged, AllIn
<1>3. PayloadsCharged'
  BY <1>1, <1>2 DEF PayloadsCharged, AllIn, job
<1>4. FilesCharged' /\ StagesCharged'
  BY <1>1 DEF FilesCharged, StagesCharged
<1> QED
  BY <1>1, <1>3, <1>4, CountKept

\* What the API's steps leave of the worker's.
LEMMA ApiKeepsPayloads ==
  ASSUME AccountInv, UNCHANGED <<queue, processing, entry>>, charged \subseteq charged'
  PROVE  PayloadsCharged'
BY DEF AccountInv, PayloadsCharged, AllIn, job

LEMMA ApiStepAccountInv ==
  ASSUME TypeInv, AccountInv, NEW j \in Jobs,
         Admit(j) \/ Refuse(j) \/ DispatchSave(j) \/ DispatchLocal(j) \/ LocalCompletes(j)
  PROVE  AccountInv'
<1> USE DEF AccountInv
<1>1. UNCHANGED <<queue, processing, entry, journal, retries, resumed, scan>>
      /\ charged \subseteq charged'
  BY DEF Admit, ChargeQuota, Refuse, DispatchSave, DispatchLocal, LocalCompletes,
         redisVars, workerVars
<1>2. PayloadsCharged'
  BY <1>1, ApiKeepsPayloads
<1>3. FilesCharged'
  BY <1>1 DEF FilesCharged
<1>4. StagesCharged'
  BY DEF StagesCharged, Admit, ChargeQuota, Refuse, DispatchSave, DispatchLocal,
         LocalCompletes, TypeInv, TypeOK, ApiTypeOK
<1>5. CounterExact'
  <2>1. CASE Admit(j)
    BY <2>1, AdmitKeepsCount
  <2>2. CASE ~Admit(j)
    <3>1. UNCHANGED <<refunded, quota, refunds, charged>>
      BY <2>2 DEF Refuse, DispatchSave, DispatchLocal, LocalCompletes, quotaVars
    <3> QED BY <3>1, CountKept
  <2> QED BY <2>1, <2>2
<1> QED BY <1>2, <1>3, <1>4, <1>5

LEMMA EnqueueAccountInv ==
  ASSUME TypeInv, AccountInv, NEW j \in Jobs, DispatchEnqueue(j)
  PROVE  AccountInv'
<1> USE DEF AccountInv
<1>1. j \in charged
  BY DEF StagesCharged, DispatchEnqueue
<1>2. UNCHANGED <<processing, entry, journal, retries, resumed, scan, charged,
                  refunded, quota, refunds>>
  BY DEF DispatchEnqueue, quotaVars, workerVars
<1>3. AllIn(Append(queue, Full(j)), charged) /\ Append(queue, Full(j)) \in Seq(Entries)
  BY <1>1, PayloadFacts, AppendAllIn DEF PayloadsCharged, TypeInv, TypeOK, RedisTypeOK
<1>4. AllIn(PushTwice(j), charged)
  BY <1>1, <1>3, PayloadFacts, AppendAllIn DEF PushTwice
<1>5. queue' = queue \/ queue' = Append(queue, Full(j)) \/ queue' = PushTwice(j)
  BY DEF DispatchEnqueue
<1>6. AllIn(queue', charged)
  BY <1>3, <1>4, <1>5 DEF PayloadsCharged
<1>7. PayloadsCharged'
  BY <1>2, <1>6 DEF PayloadsCharged, job, AllIn
<1>8. FilesCharged'
  BY <1>2 DEF FilesCharged
<1>9. /\ api' \in {[api EXCEPT ![j] = "queued"], [api EXCEPT ![j] = "local"]}
      /\ local' \in {local, [local EXCEPT ![j] = "active"]}
  BY DEF DispatchEnqueue
<1>10. StagesCharged'
  BY <1>1, <1>2, <1>9 DEF StagesCharged, TypeInv, TypeOK, ApiTypeOK
<1> QED BY <1>2, <1>7, <1>8, <1>10, CountKept

\* The refunds of the API process.
LEMMA ApiRefundAccountInv ==
  ASSUME TypeInv, AccountInv, NEW j \in Jobs,
         DispatchError(j) \/ LocalFails(j) \/ RetryRefund(j)
  PROVE  AccountInv'
<1> USE DEF AccountInv
<1>1. j \in charged
  BY DEF StagesCharged, FilesCharged, DispatchError, LocalFails, RetryRefund
<1>2. UNCHANGED <<queue, processing, entry, resumed, scan, charged>>
  BY DEF DispatchError, LocalFails, RetryRefund, redisVars, workerVars
<1>3. /\ journal' \subseteq journal \union {j}
      /\ retries' \subseteq retries \union {j}
      /\ RefundChargeOnce(j) \/ UNCHANGED quotaVars
  BY RefundRaisesIs DEF DispatchError, LocalFails, RetryRefund, RefundOrSchedule
<1>4. PayloadsCharged'
  BY <1>2, ApiKeepsPayloads
<1>5. FilesCharged'
  BY <1>1, <1>2, <1>3 DEF FilesCharged
<1>6. StagesCharged'
  BY <1>1, <1>2 DEF StagesCharged, DispatchError, LocalFails, RetryRefund,
         TypeInv, TypeOK, ApiTypeOK
<1>7. CounterExact'
  BY <1>1, <1>2, <1>3, RefundKeepsCount
<1> QED BY <1>4, <1>5, <1>6, <1>7

LEMMA ApiTaskAccountInv ==
  ASSUME TypeInv, AccountInv,
         \/ \E j \in Jobs : ResumeSchedule(j)
         \/ ResumeRead \/ StatusReadFails \/ ApiRestart
  PROVE  AccountInv'
<1> USE DEF AccountInv
<1>1. UNCHANGED <<queue, processing, entry, scan, charged, refunded, quota, refunds>>
  BY DEF ResumeSchedule, ResumeRead, StatusReadFails, ApiRestart, redisVars, quotaVars,
         workerVars
<1>2. PayloadsCharged'
  BY <1>1, ApiKeepsPayloads
<1>3. FilesCharged'
  BY <1>1 DEF FilesCharged, ResumeSchedule, ResumeRead, StatusReadFails, ApiRestart
<1>4. StagesCharged'
  BY <1>1 DEF StagesCharged, ResumeSchedule, ResumeRead, StatusReadFails, ApiRestart
<1> QED BY <1>1, <1>2, <1>3, <1>4, CountKept

\* The steps of the worker that move a payload.
LEMMA ReclaimAccountInv ==
  ASSUME TypeInv, AccountInv, ReclaimProcessing
  PROVE  AccountInv'
<1> USE DEF AccountInv
<1>1. CASE processing = <<>>
  BY <1>1, WorkerKeepsAccount DEF ReclaimProcessing
<1>2. CASE processing # <<>>
  <2>1. processing \in Seq(Entries) /\ queue \in Seq(Entries) /\ Len(processing) <= 1
    BY DEF TypeInv, TypeOK, RedisTypeOK, InFlightIsHeld
  <2>2. /\ Head(processing) \in Entries
        /\ Head(processing).job \in charged
    <3>1. Head(processing) \in Entries
      BY <1>2, <2>1
    <3>2. Head(processing).job \in charged
      BY <1>2, <2>1, TailAllIn DEF PayloadsCharged
    <3> QED BY <3>1, <3>2
  <2>3. queue' = Append(queue, Head(processing)) /\ processing' = <<>>
    BY <1>2, <2>1 DEF ReclaimProcessing
  <2>4. AllIn(queue', charged)
    BY <2>1, <2>2, <2>3, AppendAllIn DEF PayloadsCharged
  <2>5. UNCHANGED <<entry, journal, scan, charged, quotaVars, apiVars>>
    BY <1>2 DEF ReclaimProcessing
  <2>6. PayloadsCharged'
    BY <2>3, <2>4, <2>5 DEF PayloadsCharged, AllIn, job
  <2>7. FilesCharged' /\ StagesCharged'
    BY <2>5 DEF FilesCharged, StagesCharged, apiVars
  <2> QED BY <2>5, <2>6, <2>7, CountKept DEF quotaVars
<1> QED BY <1>1, <1>2

LEMMA JournalAccountInv ==
  ASSUME TypeInv, AccountInv, EnqueueJournalRefund
  PROVE  AccountInv'
<1> USE DEF AccountInv
<1>1. CASE scan = {} /\ pc' = "idle" /\ UNCHANGED <<queue, scan>>
  BY <1>1, WorkerKeepsAccount DEF EnqueueJournalRefund
<1>2. ASSUME NEW j \in scan, queue' = Append(queue, RefundOnly(j)), scan' = scan \ {j}
      PROVE AccountInv'
  <2>1. j \in Jobs /\ j \in charged /\ queue \in Seq(Entries)
    BY DEF TypeInv, TypeOK, WorkerTypeOK, RedisTypeOK, FilesCharged
  <2>2. AllIn(queue', charged)
    BY <1>2, <2>1, PayloadFacts, AppendAllIn DEF PayloadsCharged
  <2>3. UNCHANGED <<processing, entry, journal, charged, quotaVars, apiVars>>
    BY DEF EnqueueJournalRefund
  <2>4. PayloadsCharged'
    BY <2>2, <2>3 DEF PayloadsCharged, AllIn, job
  <2>5. FilesCharged' /\ StagesCharged'
    BY <1>2, <2>3 DEF FilesCharged, StagesCharged, apiVars
  <2> QED BY <2>3, <2>4, <2>5, CountKept DEF quotaVars
<1> QED BY <1>1, <1>2 DEF EnqueueJournalRefund

LEMMA DequeueAccountInv ==
  ASSUME TypeInv, AccountInv, Dequeue
  PROVE  AccountInv'
<1> USE DEF AccountInv
<1>1. queue \in Seq(Entries) /\ queue # <<>> /\ processing = <<>>
  BY DEF TypeInv, TypeOK, RedisTypeOK, InFlightIsHeld, Dequeue, Goto
<1>2. Head(queue).job \in charged /\ AllIn(Tail(queue), charged)
  BY <1>1, TailAllIn DEF PayloadsCharged
<1>3. entry' = Head(queue) /\ queue' = Tail(queue) /\ processing' = <<Head(queue)>>
  BY <1>1 DEF Dequeue
<1>4. UNCHANGED <<journal, scan, charged, quotaVars, apiVars>>
  BY DEF Dequeue
<1>5. PayloadsCharged'
  BY <1>2, <1>3, <1>4 DEF PayloadsCharged, AllIn, job
<1>6. FilesCharged' /\ StagesCharged'
  BY <1>4 DEF FilesCharged, StagesCharged, apiVars
<1> QED BY <1>4, <1>5, <1>6, CountKept DEF quotaVars

LEMMA WorkingEntry ==
  ASSUME TypeInv, AccountInv, pc \in Working
  PROVE  entry \in Entries /\ job \in Jobs /\ job \in charged
BY ConstantsAssumption DEF TypeInv, AccountInv, PayloadsCharged, Entries, job

LEMMA RefundAccountInv ==
  ASSUME TypeInv, AccountInv, RefundOnce
  PROVE  AccountInv'
<1> USE DEF AccountInv
<1>1. job \in Jobs /\ job \in charged
  BY WorkingEntry DEF RefundOnce, Working, WorkerPcs
<1>2. UNCHANGED <<queue, processing, entry, scan, charged, api, local, retries, resumed>>
  BY DEF RefundOnce, redisVars, apiVars
<1>3. /\ journal' \subseteq journal \union {job}
      /\ RefundChargeOnce(job) \/ UNCHANGED quotaVars
  BY <1>1, RefundRaisesIs DEF RefundOnce
<1>4. PayloadsCharged' /\ FilesCharged' /\ StagesCharged'
  BY <1>1, <1>2, <1>3 DEF PayloadsCharged, AllIn, job, FilesCharged, StagesCharged
<1>5. CounterExact'
  BY <1>1, <1>2, <1>3, RefundKeepsCount
<1> QED BY <1>4, <1>5

LEMMA RequeueAccountInv ==
  ASSUME TypeInv, AccountInv, TypeInv', RequeueProcessing
  PROVE  AccountInv'
<1> USE DEF AccountInv
<1>1. job \in Jobs /\ job \in charged
  BY WorkingEntry DEF RequeueProcessing, Goto, Working, WorkerPcs
<1>2. AllIn(queue', charged)
  BY <1>1, PayloadFacts, AppendAllIn
  DEF PayloadsCharged, RequeueProcessing, TypeInv, TypeOK, RedisTypeOK
<1>3. processing' = <<>>
  BY DEF RequeueProcessing, Goto, TypeInv, InFlightIsHeld
<1>4. UNCHANGED <<entry, journal, scan, charged, quotaVars, apiVars>>
  BY DEF RequeueProcessing
<1>5. PayloadsCharged' /\ FilesCharged' /\ StagesCharged'
  BY <1>2, <1>3, <1>4 DEF PayloadsCharged, AllIn, job, FilesCharged, StagesCharged, apiVars
<1> QED BY <1>4, <1>5, CountKept DEF quotaVars

LEMMA WorkerAccountInv ==
  ASSUME TypeInv, AccountInv, TypeInv', Worker \/ WorkerCrash
  PROVE  AccountInv'
<1>1. CASE ReclaimProcessing
  BY <1>1, ReclaimAccountInv
<1>2. CASE EnqueueJournalRefund
  BY <1>2, JournalAccountInv
<1>3. CASE Dequeue
  BY <1>3, DequeueAccountInv
<1>4. CASE RefundOnce
  BY <1>4, RefundAccountInv
<1>5. CASE RequeueProcessing
  BY <1>5, RequeueAccountInv
<1>6. CASE FinishProcessing
  <2>1. processing' = <<>>
    BY <1>6 DEF FinishProcessing, Goto, TypeInv, InFlightIsHeld
  <2> QED BY <1>6, <2>1, WorkerKeepsAccount DEF FinishProcessing
<1>7. CASE \/ WorkerStart \/ PollTimeout \/ LoadPriorState \/ BeginProcessing
           \/ ConvertSucceeds \/ ConvertFails \/ RecordCompleted \/ RecordFailed
           \/ DeleteArtifacts \/ RecordRefund \/ DropJournal \/ MarkRefundPending
           \/ DeleteSource \/ WorkerCrash
  <2>1. /\ UNCHANGED <<queue, processing, charged, quotaVars, apiVars>>
        /\ entry' = entry \/ entry' = NoEntry
        /\ journal' \subseteq journal /\ scan' \subseteq scan \union journal
    BY <1>7 DEF WorkerStart, PollTimeout, LoadPriorState, BeginProcessing, ConvertSucceeds,
           ConvertFails, RecordCompleted, RecordFailed, DeleteArtifacts, RecordRefund,
           DropJournal, MarkRefundPending, DeleteSource, WorkerCrash, redisVars
  <2> QED BY <2>1, WorkerKeepsAccount
<1> QED
  BY <1>1, <1>2, <1>3, <1>4, <1>5, <1>6, <1>7 DEF Worker

LEMMA StepAccountInv == TypeInv /\ AccountInv /\ [Next]_vars => AccountInv'
<1> SUFFICES ASSUME TypeInv, AccountInv, [Next]_vars PROVE AccountInv'
  OBVIOUS
<1>1. TypeInv'
  BY StepTypeInv
<1>2. ASSUME NEW j \in Jobs, Admit(j) \/ Refuse(j) \/ ApiDispatch(j) \/ ApiTask(j)
      PROVE AccountInv'
  BY <1>2, ApiStepAccountInv, EnqueueAccountInv, ApiRefundAccountInv, ApiTaskAccountInv
  DEF ApiDispatch, ApiTask
<1>3. CASE ResumeRead \/ StatusReadFails \/ ApiRestart
  BY <1>3, ApiTaskAccountInv
<1>4. CASE Worker \/ WorkerCrash
  BY <1>1, <1>4, WorkerAccountInv
<1>5. CASE UNCHANGED vars
  <2>1. UNCHANGED <<queue, processing, entry, journal, scan, charged, quotaVars, apiVars>>
    BY <1>5 DEF vars, quotaVars, apiVars
  <2> QED BY <2>1, WorkerKeepsAccount
<1> QED
  BY <1>2, <1>3, <1>4, <1>5 DEF Next

LEMMA AccountImpliesConserved == TypeInv /\ AccountInv => QuotaConserved
<1> SUFFICES ASSUME TypeInv, AccountInv PROVE QuotaConserved
  OBVIOUS
<1>1. charged \subseteq Jobs
  BY DEF TypeInv, TypeOK, QuotaTypeOK
<1>2. \A j \in Jobs : refunds[j] = IF j \in refunded THEN 1 ELSE 0
  BY DEF AccountInv, CounterExact
<1>3. {j \in charged : refunds[j] = 0} = charged \ refunded
  BY <1>1, <1>2
<1> QED
  BY <1>1, <1>2, <1>3 DEF AccountInv, CounterExact, QuotaConserved

\* Whatever fails, restarts, is lost, duplicated or replayed, a charge is given back at
\* most once and only if it was made, so the counter is the number of charges kept
\* (quota.py charge and refund_charge_once; _refund_once, _attempt_job_refund,
\* _retry_job_refund and the journal replay of both processes).
THEOREM QuotaIsConserved == Spec => []QuotaConserved
<1>1. Init => TypeInv /\ AccountInv
  BY InitTypeInv, InitAccountInv
<1>2. TypeInv /\ AccountInv /\ [Next]_vars => (TypeInv /\ AccountInv)'
  BY StepTypeInv, StepAccountInv
<1> QED
  BY <1>1, <1>2, AccountImpliesConserved, PTL DEF Spec

-----------------------------------------------------------------------------
(* The refinement: a step that touches the counter is the charge of a new job or   *)
(* the first refund of a charged one.                                              *)

LEMMA AccountTypes ==
  ASSUME TypeInv, AccountInv
  PROVE  /\ charged \subseteq Jobs
         /\ \A j \in Jobs : account[j] = IF j \notin charged THEN "free"
                                        ELSE IF j \in refunded THEN "refunded" ELSE "charged"
<1>1. charged \subseteq Jobs
  BY DEF TypeInv, TypeOK, QuotaTypeOK
<1>2. \A j \in Jobs : refunds[j] = IF j \in refunded THEN 1 ELSE 0
  BY DEF AccountInv, CounterExact
<1> QED BY <1>1, <1>2 DEF account

LEMMA ChargeRefines ==
  ASSUME TypeInv, AccountInv, AccountInv', TypeInv', NEW j \in Jobs, Admit(j)
  PROVE  Ledger!Charge(j)
<1>1. j \notin charged /\ charged' = charged \union {j} /\ refunded' = refunded
  BY DEF AccountInv, StagesCharged, Admit, ChargeQuota
<1>2. j \notin refunded
  BY <1>1 DEF AccountInv, CounterExact
<1>3. refunds' = refunds /\ refunds[j] = 0
  BY <1>2 DEF AccountInv, CounterExact, Admit
<1>4. account[j] = "free"
  BY <1>1 DEF account
<1>5. account' = [account EXCEPT ![j] = "charged"]
  BY <1>1, <1>3 DEF account
<1> QED BY <1>4, <1>5 DEF Ledger!Charge, Admit, ChargeQuota

LEMMA RefundRefines ==
  ASSUME TypeInv, AccountInv, NEW j \in charged, charged' = charged, RefundChargeOnce(j)
  PROVE  Ledger!Refund(j) \/ (account' = account /\ quota' = quota)
<1>0. j \in Jobs
  BY DEF TypeInv, TypeOK, QuotaTypeOK
<1>1. CASE j \in refunded
  BY <1>1 DEF RefundChargeOnce, quotaVars, account
<1>2. CASE j \notin refunded
  <2>1. refunds = [k \in Jobs |-> IF k \in refunded THEN 1 ELSE 0]
    BY DEF AccountInv, CounterExact
  <2>2. refunds' = [refunds EXCEPT ![j] = 1]
    BY <1>0, <1>2, <2>1 DEF RefundChargeOnce
  <2>3. account[j] = "charged"
    BY <1>0, <1>2, <2>1 DEF account
  <2>4. account' = [account EXCEPT ![j] = "refunded"]
    <3>1. \A k \in Jobs : (k # j => refunds'[k] = refunds[k]) /\ refunds'[j] = 1
      BY <1>0, <2>1, <2>2
    <3>2. \A k \in Jobs : k # j => account'[k] = account[k]
      BY <3>1 DEF account
    <3>3. account'[j] = "refunded"
      BY <1>0, <3>1 DEF account
    <3>4. account' = [k \in Jobs |-> account'[k]] /\ account = [k \in Jobs |-> account[k]]
      BY DEF account
    <3> QED BY <1>0, <3>2, <3>3, <3>4
  <2>5. quota > 0
    <3>1. IsFiniteSet(charged \ refunded) /\ j \in charged \ refunded
      BY <1>2, ConstantsAssumption, FS_Subset DEF TypeInv, TypeOK, QuotaTypeOK
    <3>2. Cardinality(charged \ refunded) # 0 /\ Cardinality(charged \ refunded) \in Nat
      BY <3>1, FS_EmptySet, FS_CardinalityType
    <3> QED BY <3>2 DEF AccountInv, CounterExact
  <2> QED BY <1>2, <2>3, <2>4, <2>5 DEF Ledger!Refund, RefundChargeOnce
<1> QED BY <1>1, <1>2

\* The steps that leave the counter alone, and those that may refund.
LEMMA StepCharges ==
  ASSUME TypeInv, AccountInv, [Next]_vars
  PROVE  \/ \E j \in Jobs : Admit(j)
         \/ UNCHANGED <<charged, quotaVars>>
         \/ \E j \in charged : charged' = charged /\ RefundChargeOnce(j)
<1>1. ASSUME NEW j \in Jobs, Refuse(j) \/ ApiDispatch(j) \/ ApiTask(j)
      PROVE  charged' = charged /\ (UNCHANGED quotaVars \/ (j \in charged /\ RefundChargeOnce(j)))
  <2>1. CASE DispatchError(j) \/ LocalFails(j) \/ RetryRefund(j)
    <3>1. j \in charged /\ charged' = charged
      BY <2>1 DEF AccountInv, StagesCharged, FilesCharged, DispatchError, LocalFails, RetryRefund
    <3>2. RefundChargeOnce(j) \/ UNCHANGED quotaVars
      BY <2>1, RefundRaisesIs DEF DispatchError, LocalFails, RetryRefund, RefundOrSchedule
    <3> QED BY <3>1, <3>2
  <2>2. CASE ~(DispatchError(j) \/ LocalFails(j) \/ RetryRefund(j))
    BY <1>1, <2>2 DEF Refuse, ApiDispatch, ApiTask, DispatchSave, DispatchEnqueue,
       DispatchLocal, LocalCompletes, ResumeSchedule
  <2> QED BY <2>1, <2>2
<1>2. CASE ResumeRead \/ StatusReadFails \/ ApiRestart \/ UNCHANGED vars
  BY <1>2 DEF ResumeRead, StatusReadFails, ApiRestart, vars, quotaVars
<1>3. CASE RefundOnce
  <2>1. job \in charged /\ job \in Jobs /\ charged' = charged
    BY <1>3, WorkingEntry DEF RefundOnce, Working, WorkerPcs
  <2>2. RefundChargeOnce(job) \/ UNCHANGED quotaVars
    BY <1>3, <2>1, RefundRaisesIs DEF RefundOnce
  <2> QED BY <2>1, <2>2
<1>4. CASE (Worker /\ ~RefundOnce) \/ WorkerCrash
  BY <1>4 DEF Worker, WorkerStart, ReclaimProcessing, EnqueueJournalRefund, Dequeue, PollTimeout,
     LoadPriorState, BeginProcessing, ConvertSucceeds, ConvertFails, RecordCompleted, RecordFailed,
     DeleteArtifacts, RecordRefund, DropJournal, FinishProcessing, MarkRefundPending,
     RequeueProcessing, DeleteSource, WorkerCrash
<1> QED BY <1>1, <1>2, <1>3, <1>4 DEF Next

\* The two processes with their faults, lost replies and restarts implement the ledger
\* of slots taken and given back that a user could keep.
THEOREM LedgerImplemented == Spec => ImplementsLedger
<1>1. Init => Ledger!Init
  BY DEF Init, Ledger!Init, account
<1>2. TypeInv /\ AccountInv /\ [Next]_vars => [Ledger!Next]_<<account, quota>>
  <2> SUFFICES ASSUME TypeInv, AccountInv, [Next]_vars
               PROVE  Ledger!Next \/ (account' = account /\ quota' = quota)
    OBVIOUS
  <2>1. TypeInv' /\ AccountInv'
    BY StepTypeInv, StepAccountInv
  <2>2. ASSUME NEW j \in Jobs, Admit(j) PROVE Ledger!Next
    BY <2>1, <2>2, ChargeRefines DEF Ledger!Next
  <2>3. CASE UNCHANGED <<charged, quotaVars>>
    BY <2>3 DEF account, quotaVars
  <2>4. ASSUME NEW j \in charged, charged' = charged, RefundChargeOnce(j)
        PROVE  Ledger!Next \/ (account' = account /\ quota' = quota)
    BY <2>4, RefundRefines, AccountTypes DEF Ledger!Next
  <2> QED BY <2>2, <2>3, <2>4, StepCharges
<1>3. Init => TypeInv /\ AccountInv
  BY InitTypeInv, InitAccountInv
<1> QED
  BY <1>1, <1>2, <1>3, StepTypeInv, StepAccountInv, PTL DEF Spec, ImplementsLedger, Ledger!Spec

-----------------------------------------------------------------------------
(* Durability: neither a queued job nor a refund is lost, nor, while no      *)
(* reply is, a file that is still needed.                                    *)
(*                                                                           *)
(* The strengthening.  A job in the lists is past its dispatch, the payload  *)
(* the worker converts is a full one, and a payload is only taken off the    *)
(* lists when its record, or its refund, says why.                           *)

Payloads == ToSet(queue) \union ToSet(processing)

Fresh == {"new", "admitted", "saved"}

\* The jobs some list, file, task or record of a refund names.
Known ==
  refundPending \union journal \union retries \union resumed \union scan
    \union {e.job : e \in Payloads} \union (IF entry = NoEntry THEN {} ELSE {job})

\* Neither process knows of a job before its payload is queued or it runs locally.
FreshUnknown == \A j \in Jobs : api[j] \in Fresh => j \notin Known /\ local[j] = "none"

Converting == {"begin", "convert", "recordCompleted", "recordFailed"}
Decided    == {"deleteArtifacts", "refund", "recordRefund", "dropJournal", "finish",
               "markPending", "requeue"}

\* What the worker's place in process_job says of its payload and of the record.
StagesDecided ==
  /\ pc \in Working \ {"load", "deleteSource"} /\ ~refundPath => ~entry.refundOnly
  /\ pc \in Converting \union {"deleteArtifacts", "markPending"} => ~refundPath
  /\ pc \in Converting => job \notin refundPending
  /\ pc \in Decided /\ ~entry.refundOnly => status[job] \in Terminal
  /\ pc \in {"recordRefund", "dropJournal"} => job \in refunded
  /\ pc = "finish" => job \in refunded \/ status[job] = "completed"

PendingDecided == \A j \in refundPending : status[j] \in Terminal

DurableInv ==
  FreshUnknown /\ StagesDecided /\ PendingDecided /\ NoLostJob /\ NoRefundForgotten

LEMMA InitDurableInv == Init => DurableInv
<1> SUFFICES ASSUME Init PROVE DurableInv
  OBVIOUS
<1>1. Payloads = {}
  BY DEF Init, Payloads, ToSet
<1>2. Known = {}
  BY <1>1 DEF Init, Known
<1>3. FreshUnknown
  BY <1>2 DEF Init, FreshUnknown
<1>4. StagesDecided /\ PendingDecided
  BY DEF Init, StagesDecided, PendingDecided, Working, Converting, Decided
<1>5. NoLostJob /\ NoRefundForgotten
  BY DEF Init, NoLostJob, NoRefundForgotten
<1> QED
  BY <1>3, <1>4, <1>5 DEF DurableInv

-----------------------------------------------------------------------------
(* How a step changes the payloads. *)

LEMMA AppendPayload ==
  ASSUME NEW list \in Seq(Entries), NEW e \in Entries
  PROVE  ToSet(Append(list, e)) = ToSet(list) \union {e}
<1> DEFINE longer == Append(list, e)
<1>1. longer \in Seq(Entries) /\ Len(longer) = Len(list) + 1 /\ longer[Len(list) + 1] = e
  OBVIOUS
<1>2. \A i \in 1..Len(list) : longer[i] = list[i]
  OBVIOUS
<1>3. DOMAIN longer = 1..Len(list) + 1 /\ DOMAIN list = 1..Len(list) /\ Len(list) \in Nat
  BY <1>1
<1> HIDE DEF longer
<1>4. DOMAIN longer = DOMAIN list \union {Len(list) + 1}
  BY <1>3
<1> QED
  BY <1>1, <1>2, <1>3, <1>4 DEF ToSet, longer

LEMMA TailPayload ==
  ASSUME NEW list \in Seq(Entries), list # <<>>
  PROVE  ToSet(list) = ToSet(Tail(list)) \union {Head(list)}
<1>1. ToSet(Tail(list)) \union {Head(list)} \subseteq ToSet(list)
  BY DEF ToSet
<1>2. ASSUME NEW i \in 1..Len(list)
      PROVE  list[i] \in ToSet(Tail(list)) \union {Head(list)}
  <2>1. CASE i = 1
    BY <2>1
  <2>2. CASE i # 1
    <3>1. i - 1 \in 1..Len(Tail(list)) /\ Tail(list)[i - 1] = list[i]
      BY <2>2
    <3> QED BY <3>1 DEF ToSet
  <2> QED BY <2>1, <2>2
<1> QED BY <1>1, <1>2 DEF ToSet

LEMMA FewPayloads == ToSet(<<>>) = {} /\ (\A e : ToSet(<<e>>) = {e})
BY DEF ToSet

\* process_job has one payload, taken off the list by either way of finishing it.
LEMMA HeldPayload ==
  ASSUME TypeInv, pc \in Working \ {"deleteSource"}
  PROVE  /\ entry \in Entries /\ entry # NoEntry /\ job \in Jobs
         /\ processing = <<entry>>
         /\ Payloads = ToSet(queue) \union {entry}
<1>1. processing = <<entry>> /\ entry \in Entries
  BY DEF TypeInv, InFlightIsHeld, Working, WorkerPcs
<1> QED
  BY <1>1, FewPayloads, ConstantsAssumption DEF Payloads, Entries, job

LEMMA EnqueuePayload ==
  ASSUME TypeInv, NEW j \in Jobs, DispatchEnqueue(j)
  PROVE  /\ Payloads \subseteq Payloads' /\ Payloads' \subseteq Payloads \union {Full(j)}
         /\ api'[j] = "queued" => Full(j) \in Payloads'
<1>1. queue \in Seq(Entries) /\ Full(j) \in Entries
  BY PayloadFacts DEF TypeInv, TypeOK, RedisTypeOK
<1>2. /\ ToSet(Append(queue, Full(j))) = ToSet(queue) \union {Full(j)}
      /\ ToSet(PushTwice(j)) = ToSet(queue) \union {Full(j)}
  <2>1. ToSet(Append(queue, Full(j))) = ToSet(queue) \union {Full(j)}
    BY <1>1, AppendPayload
  <2>2. Append(queue, Full(j)) \in Seq(Entries)
    BY <1>1
  <2>3. ToSet(PushTwice(j)) = ToSet(Append(queue, Full(j))) \union {Full(j)}
    BY <1>1, <2>2, AppendPayload DEF PushTwice
  <2> QED BY <2>1, <2>3
<1>3. processing' = processing
  BY DEF DispatchEnqueue
<1>4. \/ queue' = queue /\ api' = [api EXCEPT ![j] = "local"]
      \/ queue' \in {Append(queue, Full(j)), PushTwice(j)}
  BY DEF DispatchEnqueue
<1>5. api'[j] = "queued" => queue' \in {Append(queue, Full(j)), PushTwice(j)}
  BY <1>4 DEF TypeInv, TypeOK, ApiTypeOK
<1> QED BY <1>2, <1>3, <1>4, <1>5 DEF Payloads

LEMMA ReclaimPayload ==
  ASSUME TypeInv, ReclaimProcessing
  PROVE  Payloads' = Payloads
<1>1. CASE processing = <<>>
  BY <1>1 DEF ReclaimProcessing, Payloads
<1>2. CASE processing # <<>>
  <2>1. queue \in Seq(Entries) /\ processing \in Seq(Entries) /\ Head(processing) \in Entries
    BY <1>2 DEF TypeInv, TypeOK, RedisTypeOK
  <2>2. ToSet(processing) = ToSet(Tail(processing)) \union {Head(processing)}
    BY <1>2, <2>1, TailPayload
  <2>3. queue' = Append(queue, Head(processing)) /\ processing' = Tail(processing)
    BY <1>2 DEF ReclaimProcessing
  <2>4. ToSet(queue') = ToSet(queue) \union {Head(processing)}
    BY <2>1, <2>3, AppendPayload
  <2> QED BY <2>2, <2>3, <2>4 DEF Payloads
<1> QED BY <1>1, <1>2

LEMMA JournalPayload ==
  ASSUME TypeInv, EnqueueJournalRefund
  PROVE  Payloads \subseteq Payloads' /\ Payloads' \subseteq Payloads \union {RefundOnly(j) : j \in scan}
<1>1. processing' = processing
  BY DEF EnqueueJournalRefund
<1>2. CASE queue' = queue
  BY <1>1, <1>2 DEF Payloads
<1>3. ASSUME NEW j \in scan, queue' = Append(queue, RefundOnly(j))
      PROVE  ToSet(queue') = ToSet(queue) \union {RefundOnly(j)}
  <2>1. queue \in Seq(Entries) /\ RefundOnly(j) \in Entries
    BY PayloadFacts DEF TypeInv, TypeOK, RedisTypeOK, WorkerTypeOK
  <2> QED BY <1>3, <2>1, AppendPayload
<1> QED BY <1>1, <1>2, <1>3 DEF EnqueueJournalRefund, Payloads

LEMMA DequeuePayload ==
  ASSUME TypeInv, Dequeue
  PROVE  Payloads' = Payloads /\ entry' \in Payloads /\ entry' # NoEntry
<1>1. queue \in Seq(Entries) /\ queue # <<>> /\ processing = <<>> /\ Head(queue) \in Entries
  BY DEF TypeInv, TypeOK, RedisTypeOK, InFlightIsHeld, Dequeue, Goto
<1>2. entry' = Head(queue) /\ queue' = Tail(queue) /\ processing' = <<Head(queue)>>
  BY <1>1 DEF Dequeue
<1>3. ToSet(queue) = ToSet(Tail(queue)) \union {Head(queue)}
  BY <1>1, TailPayload
<1> QED
  BY <1>1, <1>2, <1>3, FewPayloads, ConstantsAssumption DEF Payloads

LEMMA FinishPayload ==
  ASSUME TypeInv, FinishProcessing
  PROVE  Payloads = Payloads' \union {entry}
<1>1. pc = "finish" /\ pc \in Working \ {"deleteSource"}
  BY DEF FinishProcessing, Goto, Working, WorkerPcs
<1>2. processing = <<entry>> /\ entry \in Entries /\ Payloads = ToSet(queue) \union {entry}
  BY <1>1, HeldPayload
<1>3. processing' = <<>>
  BY <1>2, RemoveOnly, RemoveJobOnly DEF FinishProcessing, job
<1>4. queue' = queue
  BY DEF FinishProcessing
<1> QED BY <1>2, <1>3, <1>4, FewPayloads DEF Payloads

LEMMA RequeuePayload ==
  ASSUME TypeInv, RequeueProcessing
  PROVE  /\ Payloads = ToSet(queue) \union {entry}
         /\ Payloads' = ToSet(queue) \union {RefundOnly(job)}
<1>1. pc \in Working \ {"deleteSource"}
  BY DEF RequeueProcessing, Goto, Working, WorkerPcs
<1>2. processing = <<entry>> /\ job \in Jobs /\ Payloads = ToSet(queue) \union {entry}
  BY <1>1, HeldPayload
<1>3. processing' = <<>> /\ queue' = Append(queue, RefundOnly(job))
  BY <1>2, RemoveOnly DEF RequeueProcessing
<1>4. ToSet(queue') = ToSet(queue) \union {RefundOnly(job)}
  BY <1>2, <1>3, PayloadFacts, AppendPayload DEF TypeInv, TypeOK, RedisTypeOK
<1> QED BY <1>2, <1>3, <1>4, FewPayloads DEF Payloads

-----------------------------------------------------------------------------
(* The steps of the API. *)

ApiStep ==
  \/ \E j \in Jobs : Admit(j) \/ Refuse(j) \/ ApiDispatch(j) \/ ApiTask(j)
  \/ ResumeRead \/ StatusReadFails \/ ApiRestart

\* What no step of the API undoes.
LEMMA ApiKeeps ==
  ASSUME TypeInv, ApiStep
  PROVE  /\ UNCHANGED <<refundPending, pc, entry, refundPath, scan>>
         /\ refunded \subseteq refunded'
         /\ Payloads \subseteq Payloads'
<1>1. UNCHANGED <<refundPending, pc, entry, refundPath, scan>>
  BY DEF ApiStep, Admit, Refuse, ApiDispatch, ApiTask, DispatchSave,
         DispatchEnqueue, DispatchLocal, DispatchError, LocalCompletes, LocalFails,
         RetryRefund, ResumeSchedule, ResumeRead, StatusReadFails, ApiRestart, redisVars,
         workerVars
<1>2. refunded \subseteq refunded'
  <2>1. ASSUME NEW j \in Jobs, RefundOrSchedule(j, {}) \/ RefundOrSchedule(j, {j}) \/ RetryRefund(j)
        PROVE  refunded \subseteq refunded'
    BY <2>1 DEF RefundOrSchedule, RetryRefund, RefundRaises, RefundChargeOnce, quotaVars
  <2> QED
    BY <2>1 DEF ApiStep, Admit, Refuse, ApiDispatch, ApiTask, DispatchSave,
         DispatchEnqueue, DispatchLocal, DispatchError, LocalCompletes, LocalFails,
         ResumeSchedule, ResumeRead, StatusReadFails, ApiRestart, quotaVars
<1>3. Payloads \subseteq Payloads'
  <2>1. CASE \E j \in Jobs : DispatchEnqueue(j)
    BY <2>1, EnqueuePayload
  <2>2. CASE ~\E j \in Jobs : DispatchEnqueue(j)
    <3>1. UNCHANGED <<queue, processing>>
      BY <2>2 DEF ApiStep, Admit, Refuse, ApiDispatch, ApiTask, DispatchSave,
         DispatchLocal, DispatchError, LocalCompletes, LocalFails, RetryRefund,
         ResumeSchedule, ResumeRead, StatusReadFails, ApiRestart, redisVars
    <3> QED BY <3>1 DEF Payloads
  <2> QED BY <2>1, <2>2
<1> QED BY <1>1, <1>2, <1>3

\* The only record the API writes is that of a job it has just admitted.
LEMMA ApiRecords ==
  ASSUME TypeInv, ApiStep
  PROVE  \/ status' = status
         \/ \E j \in Jobs : /\ api[j] = "admitted" /\ api'[j] = "saved"
                            /\ status' = [status EXCEPT ![j] = "queued"]
<1>1. ASSUME NEW j \in Jobs, DispatchSave(j)
      PROVE  \/ status' = status
             \/ /\ api[j] = "admitted" /\ api'[j] = "saved"
                /\ status' = [status EXCEPT ![j] = "queued"]
  BY <1>1 DEF DispatchSave, TypeInv, TypeOK, ApiTypeOK
<1>2. CASE ~\E j \in Jobs : DispatchSave(j)
  BY <1>2 DEF ApiStep, Admit, Refuse, ApiDispatch, ApiTask, DispatchEnqueue,
         DispatchLocal, DispatchError, LocalCompletes, LocalFails, RetryRefund,
         ResumeSchedule, ResumeRead, StatusReadFails, ApiRestart, redisVars
<1> QED BY <1>1, <1>2

LEMMA ApiFresh ==
  ASSUME TypeInv, FreshUnknown, ApiStep
  PROVE  FreshUnknown'
<1> SUFFICES ASSUME NEW k \in Jobs, api'[k] \in Fresh
             PROVE  k \notin Known' /\ local'[k] = "none"
  BY DEF FreshUnknown
<1> USE DEF TypeInv, TypeOK, ApiTypeOK, Fresh
<1>1. UNCHANGED <<refundPending, entry, scan>>
  BY ApiKeeps
<1>2. api[k] \in Fresh /\ (local'[k] = local[k] \/ local'[k] = "none")
  <2>1. ASSUME NEW j \in Jobs, LocalFails(j) \/ LocalCompletes(j)
        PROVE  j # k
    BY <2>1 DEF FreshUnknown, LocalFails, LocalCompletes
  <2>2. ASSUME NEW j \in Jobs, DispatchEnqueue(j) \/ DispatchLocal(j)
        PROVE  j # k
    BY <2>2 DEF DispatchEnqueue, DispatchLocal
  <2> QED
    BY <2>1, <2>2 DEF ApiStep, Admit, Refuse, ApiDispatch, ApiTask, DispatchSave,
         DispatchEnqueue, DispatchLocal, DispatchError, LocalCompletes, LocalFails,
         RetryRefund, ResumeSchedule, ResumeRead, StatusReadFails, ApiRestart
<1>3. k \notin Known /\ local[k] = "none"
  BY <1>2 DEF FreshUnknown
<1>4. k \notin journal' \union retries' \union resumed'
  <2>1. ASSUME NEW j \in Jobs, DispatchError(j) \/ LocalFails(j)
        PROVE  j # k
    BY <1>3, <2>1 DEF DispatchError, LocalFails
  <2>2. ASSUME NEW j \in Jobs, DispatchError(j) \/ LocalFails(j)
        PROVE  /\ journal' \subseteq journal \union {j} /\ retries' \subseteq retries \union {j}
               /\ resumed' = resumed
    BY <2>2 DEF DispatchError, LocalFails, RefundOrSchedule
  <2>3. CASE ~\E j \in Jobs : DispatchError(j) \/ LocalFails(j)
    BY <1>3, <2>3 DEF ApiStep, Admit, Refuse, ApiDispatch, ApiTask, DispatchSave,
         DispatchEnqueue, DispatchLocal, LocalCompletes, RetryRefund, ResumeSchedule,
         ResumeRead, StatusReadFails, ApiRestart, Known
  <2> QED BY <1>3, <2>1, <2>2, <2>3 DEF Known
<1>5. \A e \in Payloads' : e.job # k
  <2>1. ASSUME NEW j \in Jobs, DispatchEnqueue(j)
        PROVE  j # k /\ Payloads' \subseteq Payloads \union {Full(j)} /\ Full(j).job = j
    BY <2>1, EnqueuePayload, PayloadFacts DEF DispatchEnqueue
  <2>2. CASE ~\E j \in Jobs : DispatchEnqueue(j)
    <3>1. UNCHANGED <<queue, processing>>
      BY <2>2 DEF ApiStep, Admit, Refuse, ApiDispatch, ApiTask, DispatchSave,
         DispatchLocal, DispatchError, LocalCompletes, LocalFails, RetryRefund,
         ResumeSchedule, ResumeRead, StatusReadFails, ApiRestart, redisVars
    <3> QED BY <1>3, <3>1 DEF Payloads, Known
  <2> QED BY <1>3, <2>1, <2>2 DEF Known
<1>6. k \notin Known'
  BY <1>1, <1>3, <1>4, <1>5 DEF Known, job
<1> QED BY <1>2, <1>3, <1>6

\* A job under dispatch is neither the worker's nor pending a refund.
LEMMA SavedIsNobodys ==
  ASSUME TypeInv, FreshUnknown, NEW j \in Jobs, api[j] = "admitted"
  PROVE  j \notin refundPending /\ (pc \in Working => job # j)
<1>1. j \notin Known
  BY DEF FreshUnknown, Fresh
<1>2. pc \in Working => entry # NoEntry
  BY ConstantsAssumption DEF TypeInv
<1> QED BY <1>1, <1>2 DEF Known

LEMMA ApiKeepsStages ==
  ASSUME TypeInv, FreshUnknown, StagesDecided, PendingDecided, ApiStep
  PROVE  StagesDecided' /\ PendingDecided'
<1>1. UNCHANGED <<refundPending, pc, entry, refundPath>> /\ refunded \subseteq refunded'
  BY ApiKeeps
<1>2. \A j \in refundPending : status'[j] = status[j]
  BY ApiRecords, SavedIsNobodys DEF TypeInv, TypeOK, RedisTypeOK
<1>3. pc \in Working => status'[job] = status[job]
  <2>1. pc \in Working => job \in Jobs
    BY DEF TypeInv, Entries, job
  <2> QED BY <2>1, ApiRecords, SavedIsNobodys DEF TypeInv, TypeOK, RedisTypeOK
<1>4. PendingDecided'
  BY <1>1, <1>2 DEF PendingDecided
<1>5. job' = job
  BY <1>1 DEF job
<1>6. Decided \union Converting \subseteq Working
  BY DEF Decided, Converting, Working, WorkerPcs
<1>7. StagesDecided'
  BY <1>1, <1>3, <1>5, <1>6 DEF StagesDecided, Decided
<1> QED BY <1>4, <1>7

LEMMA PayloadsMean ==
  ASSUME NEW j \in Jobs
  PROVE  /\ HasFullEntry(j) <=> Full(j) \in Payloads
         /\ HasEntry(j) <=> Full(j) \in Payloads \/ RefundOnly(j) \in Payloads
BY DEF HasEntry, HasFullEntry, Payloads

LEMMA ApiLosesNoJob ==
  ASSUME TypeInv, NoLostJob, ApiStep
  PROVE  NoLostJob'
<1> SUFFICES ASSUME NEW k \in Jobs, api'[k] = "queued"
             PROVE  /\ \/ HasEntry(k)'
                       \/ status'[k] = "completed"
                       \/ status'[k] = "failed" /\ k \in refunded'
                    /\ status'[k] \notin Terminal => HasFullEntry(k)'
  BY DEF NoLostJob
<1>1. refunded \subseteq refunded' /\ Payloads \subseteq Payloads'
  BY ApiKeeps
<1>2. /\ HasFullEntry(k)' <=> Full(k) \in Payloads'
      /\ HasEntry(k)' <=> Full(k) \in Payloads' \/ RefundOnly(k) \in Payloads'
  BY DEF HasEntry, HasFullEntry, Payloads, Full, RefundOnly
<1>3. CASE api[k] = "queued"
  <2>1. status'[k] = status[k]
    BY <1>3, ApiRecords DEF TypeInv, TypeOK, RedisTypeOK
  <2> QED BY <1>1, <1>2, <1>3, <2>1, PayloadsMean DEF NoLostJob
<1>4. CASE api[k] # "queued"
  <2>1. DispatchEnqueue(k)
    BY <1>4 DEF ApiStep, Admit, Refuse, ApiDispatch, ApiTask, DispatchSave,
         DispatchEnqueue, DispatchLocal, DispatchError, LocalCompletes, LocalFails,
         RetryRefund, ResumeSchedule, ResumeRead, StatusReadFails, ApiRestart, TypeInv,
         TypeOK, ApiTypeOK
  <2> QED BY <1>2, <2>1, EnqueuePayload
<1> QED BY <1>3, <1>4

LEMMA ApiForgetsNoRefund ==
  ASSUME TypeInv, AccountInv, NoRefundForgotten, ApiStep
  PROVE  NoRefundForgotten'
<1> SUFFICES ASSUME NEW k \in charged', api'[k] = "rejected" \/ local'[k] = "failed"
             PROVE  k \in refunded' \union journal' \union unfiled'
  BY DEF NoRefundForgotten
<1> USE DEF TypeInv, TypeOK, ApiTypeOK, QuotaTypeOK
<1>1. refunded \subseteq refunded'
  BY ApiKeeps
<1>2. ASSUME NEW j \in Jobs, DispatchError(j) \/ LocalFails(j)
      PROVE  /\ charged' = charged /\ journal \subseteq journal' \union refunded'
             /\ unfiled \subseteq unfiled'
             /\ j \in refunded' \union journal' \union unfiled'
             /\ k # j => api'[k] = api[k] /\ local'[k] = local[k]
  <2>1. RefundOrSchedule(j, {}) \/ RefundOrSchedule(j, {j})
    BY <1>2 DEF DispatchError, LocalFails
  <2>2. /\ journal \subseteq journal' \union refunded' /\ unfiled \subseteq unfiled'
        /\ j \in refunded' \union journal' \union unfiled'
    BY <2>1 DEF RefundOrSchedule, RefundChargeOnce, quotaVars
  <2> QED BY <1>2, <2>2 DEF DispatchError, LocalFails
<1>3. ASSUME NEW j \in Jobs, RetryRefund(j)
      PROVE  /\ charged' = charged /\ journal \subseteq journal' \union refunded'
             /\ UNCHANGED <<api, local, unfiled>>
  BY <1>3 DEF RetryRefund, RefundChargeOnce, quotaVars
<1>4. CASE \/ \E j \in Jobs : \/ Admit(j) \/ Refuse(j) \/ DispatchSave(j)
                              \/ DispatchEnqueue(j) \/ DispatchLocal(j)
                              \/ LocalCompletes(j) \/ ResumeSchedule(j)
           \/ ResumeRead \/ StatusReadFails \/ ApiRestart
  <2>1. /\ journal \subseteq journal' /\ unfiled' = unfiled
        /\ k \in charged /\ (api[k] = "rejected" \/ local[k] = "failed")
    BY <1>4 DEF Admit, ChargeQuota, Refuse, DispatchSave, DispatchEnqueue,
         DispatchLocal, LocalCompletes, ResumeSchedule, ResumeRead, StatusReadFails,
         ApiRestart, AccountInv, StagesCharged
  <2> QED BY <1>1, <2>1 DEF NoRefundForgotten
<1>5. CASE \E j \in Jobs : DispatchError(j) \/ LocalFails(j)
  BY <1>1, <1>2, <1>5 DEF NoRefundForgotten
<1>6. CASE \E j \in Jobs : RetryRefund(j)
  BY <1>1, <1>3, <1>6 DEF NoRefundForgotten
<1> QED
  BY <1>4, <1>5, <1>6 DEF ApiStep, ApiDispatch, ApiTask

LEMMA ApiDurable == TypeInv /\ AccountInv /\ DurableInv /\ ApiStep => DurableInv'
BY ApiFresh, ApiKeepsStages, ApiLosesNoJob, ApiForgetsNoRefund DEF DurableInv

-----------------------------------------------------------------------------
(* The steps of the worker. *)

WorkerStep == Worker \/ WorkerCrash

\* The steps that leave the payloads alone.
SamePayloads ==
  \/ WorkerStart \/ PollTimeout \/ LoadPriorState \/ BeginProcessing \/ ConvertSucceeds
  \/ ConvertFails \/ RecordCompleted \/ RecordFailed \/ DeleteArtifacts \/ RefundOnce
  \/ RecordRefund \/ DropJournal \/ MarkRefundPending \/ DeleteSource \/ WorkerCrash

LEMMA WorkerSteps ==
  ASSUME WorkerStep
  PROVE  \/ SamePayloads \/ ReclaimProcessing \/ EnqueueJournalRefund \/ Dequeue
         \/ FinishProcessing \/ RequeueProcessing
BY DEF WorkerStep, Worker, SamePayloads

LEMMA SamePayloadsKept == SamePayloads => Payloads' = Payloads
<1> SUFFICES ASSUME SamePayloads PROVE UNCHANGED <<queue, processing>>
  BY DEF Payloads
<1> QED
  BY DEF SamePayloads, WorkerStart, PollTimeout, LoadPriorState, BeginProcessing,
     ConvertSucceeds, ConvertFails, RecordCompleted, RecordFailed, DeleteArtifacts,
     RefundOnce, RecordRefund, DropJournal, MarkRefundPending, DeleteSource, WorkerCrash,
     redisVars

LEMMA WorkerKeeps ==
  ASSUME TypeInv, WorkerStep
  PROVE  /\ UNCHANGED <<api, local, retries, resumed, charged, doubled, unfiled>>
         /\ refunded \subseteq refunded'
<1>1. UNCHANGED apiVars /\ charged' = charged
  BY DEF WorkerStep, Worker, WorkerStart, ReclaimProcessing, EnqueueJournalRefund, Dequeue,
     PollTimeout, LoadPriorState, BeginProcessing, ConvertSucceeds, ConvertFails,
     RecordCompleted, RecordFailed, DeleteArtifacts, RefundOnce, RecordRefund, DropJournal,
     FinishProcessing, MarkRefundPending, RequeueProcessing, DeleteSource, WorkerCrash
<1>2. CASE RefundOnce
  BY <1>1, <1>2 DEF RefundOnce, RefundRaises, RefundChargeOnce, quotaVars, apiVars
<1>3. CASE ~RefundOnce
  <2>1. UNCHANGED quotaVars
    BY <1>3 DEF WorkerStep, Worker, WorkerStart, ReclaimProcessing, EnqueueJournalRefund,
       Dequeue, PollTimeout, LoadPriorState, BeginProcessing, ConvertSucceeds, ConvertFails,
       RecordCompleted, RecordFailed, DeleteArtifacts, RecordRefund, DropJournal,
       FinishProcessing, MarkRefundPending, RequeueProcessing, DeleteSource, WorkerCrash
  <2> QED BY <1>1, <2>1 DEF quotaVars, apiVars
<1> QED BY <1>2, <1>3

\* The worker learns of no job but from the lists and the journal.
LEMMA WorkerKnows ==
  ASSUME TypeInv, WorkerStep
  PROVE  Known' \subseteq Known
<1>1. UNCHANGED <<retries, resumed>>
  BY WorkerKeeps
<1>2. /\ refundPending' \subseteq Known
      /\ journal' \subseteq Known
      /\ scan' \subseteq Known
  <2>1. CASE RefundOnce \/ MarkRefundPending
    <3>1. job \in Known
      BY <2>1, HeldPayload DEF RefundOnce, MarkRefundPending, Goto, Working, WorkerPcs, Known
    <3> QED BY <2>1, <3>1 DEF RefundOnce, MarkRefundPending, redisVars, Known
  <2>2. CASE ~(RefundOnce \/ MarkRefundPending)
    <3>1. /\ refundPending' \subseteq refundPending /\ journal' \subseteq journal
          /\ scan' \subseteq scan \union journal
      BY <2>2 DEF WorkerStep, Worker, WorkerStart, ReclaimProcessing, EnqueueJournalRefund,
         Dequeue, PollTimeout, LoadPriorState, BeginProcessing, ConvertSucceeds,
         ConvertFails, RecordCompleted, RecordFailed, DeleteArtifacts, RecordRefund,
         DropJournal, FinishProcessing, RequeueProcessing, DeleteSource, WorkerCrash,
         redisVars
    <3> QED BY <3>1 DEF Known
  <2> QED BY <2>1, <2>2
<1>3. {e.job : e \in Payloads'} \subseteq Known
  <2>1. CASE SamePayloads \/ ReclaimProcessing \/ Dequeue
    BY <2>1, SamePayloadsKept, ReclaimPayload, DequeuePayload DEF Known
  <2>2. CASE EnqueueJournalRefund
    BY <2>2, JournalPayload DEF Known, RefundOnly
  <2>3. CASE FinishProcessing
    BY <2>3, FinishPayload DEF Known
  <2>4. CASE RequeueProcessing
    <3>1. RefundOnly(job).job = job /\ job \in Known
      BY <2>4, HeldPayload, PayloadFacts
      DEF RequeueProcessing, Goto, Working, WorkerPcs, Known
    <3> QED BY <2>4, <3>1, RequeuePayload DEF Known
  <2> QED BY <2>1, <2>2, <2>3, <2>4, WorkerSteps
<1>4. entry' # NoEntry => job' \in Known
  <2>1. CASE Dequeue
    BY <2>1, DequeuePayload DEF Known, job
  <2>2. CASE ~Dequeue
    <3>1. entry' = entry \/ entry' = NoEntry
      BY <2>2 DEF WorkerStep, Worker, WorkerStart, ReclaimProcessing, EnqueueJournalRefund,
         PollTimeout, LoadPriorState, BeginProcessing, ConvertSucceeds, ConvertFails,
         RecordCompleted, RecordFailed, DeleteArtifacts, RefundOnce, RecordRefund,
         DropJournal, FinishProcessing, MarkRefundPending, RequeueProcessing, DeleteSource,
         WorkerCrash
    <3> QED BY <3>1 DEF Known, job
  <2> QED BY <2>1, <2>2
<1>5. Known' = refundPending' \union journal' \union retries' \union resumed' \union scan'
                 \union {e.job : e \in Payloads'} \union (IF entry' = NoEntry THEN {} ELSE {job'})
  BY DEF Known
<1>6. retries \subseteq Known /\ resumed \subseteq Known
  BY DEF Known
<1> QED BY <1>1, <1>2, <1>3, <1>4, <1>5, <1>6

LEMMA WorkerFresh ==
  ASSUME TypeInv, FreshUnknown, WorkerStep
  PROVE  FreshUnknown'
BY WorkerKeeps, WorkerKnows DEF FreshUnknown

\* A record that is set to processing has no refund pending.
LEMMA WorkerPending ==
  ASSUME TypeInv, StagesDecided, PendingDecided, WorkerStep
  PROVE  PendingDecided'
<1> USE DEF TypeInv, TypeOK, RedisTypeOK, PendingDecided
<1>1. CASE BeginProcessing
  <2>1. job \notin refundPending
    BY <1>1 DEF StagesDecided, BeginProcessing, Goto, Converting
  <2> QED BY <1>1, <2>1 DEF BeginProcessing
<1>2. CASE RecordCompleted \/ RecordFailed
  BY <1>2 DEF RecordCompleted, RecordFailed, Terminal
<1>3. CASE MarkRefundPending
  <2>1. status[job] \in Terminal
    BY <1>3 DEF StagesDecided, MarkRefundPending, Goto, Decided, Working, WorkerPcs
  <2> QED BY <1>3, <2>1 DEF MarkRefundPending
<1>4. CASE ~(BeginProcessing \/ RecordCompleted \/ RecordFailed \/ MarkRefundPending)
  <2>1. status' = status /\ refundPending' \subseteq refundPending
    BY <1>4 DEF WorkerStep, Worker, WorkerStart, ReclaimProcessing, EnqueueJournalRefund,
       Dequeue, PollTimeout, LoadPriorState, ConvertSucceeds, ConvertFails, DeleteArtifacts,
       RefundOnce, RecordRefund, DropJournal, FinishProcessing, RequeueProcessing,
       DeleteSource, WorkerCrash, redisVars
  <2> QED BY <2>1
<1> QED BY <1>1, <1>2, <1>3, <1>4

\* LoadPriorState chooses the branch.
LEMMA LoadStages ==
  ASSUME TypeInv, PendingDecided, LoadPriorState
  PROVE  StagesDecided'
<1>1. /\ refundPath' = (entry.refundOnly \/ job \in refundPending)
      /\ pc' = IF refundPath' THEN "refund" ELSE "begin"
      /\ UNCHANGED <<entry, status, refundPending, refunded>>
  BY DEF LoadPriorState, redisVars, quotaVars
<1>2. job' = job
  BY <1>1 DEF job
<1>3. ~entry.refundOnly /\ refundPath' => status[job] \in Terminal
  BY <1>1 DEF PendingDecided
<1> QED
  BY <1>1, <1>2, <1>3 DEF StagesDecided, Working, Converting, Decided

\* The branch that converts.
LEMMA ConvertStages ==
  ASSUME TypeInv, StagesDecided,
         \/ BeginProcessing \/ ConvertSucceeds \/ ConvertFails
         \/ RecordCompleted \/ RecordFailed \/ DeleteArtifacts \/ MarkRefundPending
  PROVE  StagesDecided'
<1>1. UNCHANGED <<entry, refundPath, refunded>>
  BY DEF BeginProcessing, ConvertSucceeds, ConvertFails, RecordCompleted, RecordFailed,
     DeleteArtifacts, MarkRefundPending, quotaVars
<1>2. job' = job
  BY <1>1 DEF job
<1>3. /\ pc \in Working \ {"deleteSource"}
      /\ ~refundPath /\ ~entry.refundOnly
  BY DEF StagesDecided, BeginProcessing, ConvertSucceeds, ConvertFails, RecordCompleted,
     RecordFailed, DeleteArtifacts, MarkRefundPending, Goto, Converting, Working, WorkerPcs
<1>4. job \in Jobs
  BY <1>3, HeldPayload
<1>5. CASE BeginProcessing \/ ConvertSucceeds \/ ConvertFails
  <2>1. pc \in Converting /\ pc' \in Converting /\ pc' \notin Decided
        /\ refundPending' = refundPending
    BY <1>5 DEF BeginProcessing, ConvertSucceeds, ConvertFails, Goto, Converting, Decided,
       redisVars
  <2> QED
    BY <1>1, <1>2, <1>3, <2>1 DEF StagesDecided, Converting
<1>6. CASE RecordCompleted \/ RecordFailed
  <2>1. /\ pc' \in {"finish", "deleteArtifacts"}
        /\ status'[job] \in Terminal
        /\ pc' = "finish" => status'[job] = "completed"
    BY <1>4, <1>6 DEF RecordCompleted, RecordFailed, Goto, Terminal, TypeInv, TypeOK,
       RedisTypeOK
  <2> QED
    BY <1>1, <1>2, <1>3, <2>1 DEF StagesDecided, Converting, Decided
<1>7. CASE DeleteArtifacts \/ MarkRefundPending
  <2>1. /\ pc \in Decided /\ pc' \in {"refund", "requeue"}
        /\ status' = status
    BY <1>7 DEF DeleteArtifacts, MarkRefundPending, Goto, Decided, redisVars
  <2> QED
    BY <1>1, <1>2, <1>3, <2>1 DEF StagesDecided, Converting, Decided
<1> QED BY <1>5, <1>6, <1>7

\* The refund, on either branch.
LEMMA RefundStages ==
  ASSUME TypeInv, StagesDecided, RefundOnce \/ RecordRefund \/ DropJournal
  PROVE  StagesDecided'
<1>1. /\ UNCHANGED <<entry, refundPath, status>>
      /\ pc \in Decided
      /\ pc' \in {"recordRefund", "dropJournal", "finish", "requeue", "markPending"}
  BY DEF RefundOnce, RecordRefund, DropJournal, Goto, Decided, redisVars
<1>2. job' = job
  BY <1>1 DEF job
<1>3. pc' \in {"recordRefund", "dropJournal", "finish"} => job \in refunded'
  <2>1. CASE RefundOnce
    BY <2>1 DEF RefundOnce, RefundChargeOnce, quotaVars
  <2>2. CASE RecordRefund \/ DropJournal
    BY <2>2 DEF StagesDecided, RecordRefund, DropJournal, Goto, quotaVars
  <2> QED BY <2>1, <2>2
<1>4. pc' = "markPending" => ~refundPath
  BY DEF RefundOnce, RecordRefund, DropJournal, Goto
<1>5. ~refundPath => ~entry.refundOnly
  BY <1>1 DEF StagesDecided, Decided, Working, WorkerPcs
<1> QED
  BY <1>1, <1>2, <1>3, <1>4, <1>5 DEF StagesDecided, Converting, Decided

LEMMA WorkerStages ==
  ASSUME TypeInv, StagesDecided, PendingDecided, WorkerStep
  PROVE  StagesDecided'
<1>1. CASE LoadPriorState
  BY <1>1, LoadStages
<1>2. CASE \/ BeginProcessing \/ ConvertSucceeds \/ ConvertFails
           \/ RecordCompleted \/ RecordFailed \/ DeleteArtifacts \/ MarkRefundPending
  BY <1>2, ConvertStages
<1>3. CASE RefundOnce \/ RecordRefund \/ DropJournal
  BY <1>3, RefundStages
<1>4. CASE \/ WorkerStart \/ ReclaimProcessing \/ EnqueueJournalRefund \/ Dequeue
           \/ PollTimeout \/ FinishProcessing \/ RequeueProcessing \/ DeleteSource
           \/ WorkerCrash
  <2>1. pc' \in {"down", "reclaim", "journal", "idle", "load", "deleteSource"}
    BY <1>4 DEF WorkerStart, ReclaimProcessing, EnqueueJournalRefund, Dequeue, PollTimeout,
       FinishProcessing, RequeueProcessing, DeleteSource, WorkerCrash, Goto
  <2> QED
    BY <2>1 DEF StagesDecided, Working, Converting, Decided
<1> QED BY <1>1, <1>2, <1>3, <1>4 DEF WorkerStep, Worker

\* What NoLostJob says of one job, in terms of the payloads.
Kept(j) ==
  /\ \/ Full(j) \in Payloads \/ RefundOnly(j) \in Payloads
     \/ status[j] = "completed"
     \/ status[j] = "failed" /\ j \in refunded
  /\ status[j] \notin Terminal => Full(j) \in Payloads

LEMMA KeptIs == NoLostJob <=> \A j \in Jobs : api[j] = "queued" => Kept(j)
BY DEF NoLostJob, Kept, HasEntry, HasFullEntry, Payloads

LEMMA PayloadKinds ==
  ASSUME NEW e \in Entries
  PROVE  /\ e.refundOnly => e = RefundOnly(e.job)
         /\ ~e.refundOnly => e = Full(e.job)
         /\ \A j : Full(j) # RefundOnly(j)
BY DEF Entries, Full, RefundOnly

\* Steps under which the record stands and no payload goes.
LEMMA NothingTaken ==
  ASSUME NEW j, Kept(j), status'[j] = status[j], refunded \subseteq refunded',
         Payloads \subseteq Payloads'
  PROVE  Kept(j)'
BY DEF Kept

\* The worker writes the record of a job whose payload it holds.
LEMMA RecordKeeps ==
  ASSUME TypeInv, StagesDecided, NEW k \in Jobs, Kept(k),
         BeginProcessing \/ RecordCompleted \/ RecordFailed
  PROVE  Kept(k)'
<1>1. /\ pc \in Working \ {"deleteSource"} /\ ~entry.refundOnly
      /\ refunded' = refunded
      /\ \E s \in {"processing", "completed", "failed"} : status' = [status EXCEPT ![job] = s]
  BY DEF StagesDecided, BeginProcessing, RecordCompleted, RecordFailed, Goto, Converting,
     Working, WorkerPcs, quotaVars
<1>2. entry = Full(job) /\ entry \in Payloads /\ job \in Jobs
  BY <1>1, HeldPayload, PayloadKinds DEF job
<1>3. Payloads' = Payloads
  BY SamePayloadsKept DEF SamePayloads
<1>4. CASE k = job
  BY <1>2, <1>3, <1>4 DEF Kept, Full
<1>5. CASE k # job
  <2>1. status'[k] = status[k]
    BY <1>1, <1>5
  <2> QED BY <1>1, <1>3, <2>1, NothingTaken
<1> QED BY <1>4, <1>5

\* A payload is taken off the lists once its record or its refund is decided.
LEMMA FinishKeeps ==
  ASSUME TypeInv, StagesDecided, NEW k \in Jobs, Kept(k),
         FinishProcessing \/ RequeueProcessing
  PROVE  Kept(k)'
<1>1. /\ pc \in {"finish", "requeue"} /\ pc \in Working \ {"deleteSource"} /\ pc \in Decided
      /\ UNCHANGED <<status, refunded>>
  BY DEF FinishProcessing, RequeueProcessing, Goto, Decided, Working, WorkerPcs, quotaVars
<1>2. entry \in Entries /\ job \in Jobs
  BY <1>1, HeldPayload
<1>3. /\ Payloads \subseteq Payloads' \union {entry}
      /\ RequeueProcessing => RefundOnly(job) \in Payloads'
  BY FinishPayload, RequeuePayload
<1>4. CASE k # job
  <2>1. Full(k) # entry /\ RefundOnly(k) # entry
    BY <1>4, PayloadFacts DEF job
  <2> QED BY <1>1, <1>3, <2>1 DEF Kept
<1>5. CASE k = job
  <2>1. status[k] \notin Terminal => Full(k) \in Payloads'
    <3> SUFFICES ASSUME status[k] \notin Terminal PROVE Full(k) \in Payloads'
      OBVIOUS
    <3>1. entry.refundOnly
      BY <1>1, <1>5 DEF StagesDecided
    <3>2. entry # Full(k)
      BY <1>2, <3>1, PayloadKinds DEF Full
    <3> QED BY <1>3, <3>2 DEF Kept
  <2>2. CASE FinishProcessing
    <3>1. k \in refunded \/ status[k] = "completed"
      BY <1>5, <2>2 DEF StagesDecided, FinishProcessing, Goto
    <3> QED BY <1>1, <2>1, <3>1 DEF Kept, Terminal
  <2>3. CASE RequeueProcessing
    <3>1. RefundOnly(k) \in Payloads'
      BY <1>3, <1>5, <2>3
    <3> QED BY <1>1, <2>1, <3>1 DEF Kept, RefundOnly
  <2> QED BY <2>2, <2>3
<1> QED BY <1>4, <1>5

LEMMA WorkerLosesNoJob ==
  ASSUME TypeInv, StagesDecided, NoLostJob, WorkerStep
  PROVE  NoLostJob'
<1>1. api' = api /\ refunded \subseteq refunded'
  BY WorkerKeeps
<1>2. ASSUME NEW k \in Jobs, api[k] = "queued" PROVE Kept(k)'
  <2>1. Kept(k)
    BY <1>2, KeptIs
  <2>2. CASE BeginProcessing \/ RecordCompleted \/ RecordFailed
    BY <2>1, <2>2, RecordKeeps
  <2>3. CASE FinishProcessing \/ RequeueProcessing
    BY <2>1, <2>3, FinishKeeps
  <2>4. CASE ~(\/ BeginProcessing \/ RecordCompleted \/ RecordFailed
               \/ FinishProcessing \/ RequeueProcessing)
    <3>1. Payloads \subseteq Payloads'
      BY <2>4, WorkerSteps, SamePayloadsKept, ReclaimPayload, JournalPayload, DequeuePayload
    <3>2. status' = status
      BY <2>4 DEF WorkerStep, Worker, WorkerStart, ReclaimProcessing, EnqueueJournalRefund,
         Dequeue, PollTimeout, LoadPriorState, ConvertSucceeds, ConvertFails,
         DeleteArtifacts, RefundOnce, RecordRefund, DropJournal, MarkRefundPending,
         DeleteSource, WorkerCrash, redisVars
    <3> QED BY <1>1, <2>1, <3>1, <3>2, NothingTaken
  <2> QED BY <2>2, <2>3, <2>4
<1>3. (NoLostJob <=> \A j \in Jobs : api[j] = "queued" => Kept(j))'
  BY KeptIs, PTL
<1> QED BY <1>1, <1>2, <1>3

\* A journal file goes only once the marker is set.
LEMMA WorkerForgetsNoRefund ==
  ASSUME TypeInv, StagesDecided, NoRefundForgotten, WorkerStep
  PROVE  NoRefundForgotten'
<1>1. UNCHANGED <<api, local, charged, unfiled>> /\ refunded \subseteq refunded'
  BY WorkerKeeps
<1>2. journal \subseteq journal' \union refunded
  <2>1. CASE DropJournal
    BY <2>1 DEF StagesDecided, DropJournal, Goto
  <2>2. CASE ~DropJournal
    BY <2>2 DEF WorkerStep, Worker, WorkerStart, ReclaimProcessing, EnqueueJournalRefund,
       Dequeue, PollTimeout, LoadPriorState, BeginProcessing, ConvertSucceeds, ConvertFails,
       RecordCompleted, RecordFailed, DeleteArtifacts, RefundOnce, RecordRefund,
       FinishProcessing, MarkRefundPending, RequeueProcessing, DeleteSource, WorkerCrash
  <2> QED BY <2>1, <2>2
<1> QED BY <1>1, <1>2 DEF NoRefundForgotten

LEMMA WorkerDurable == TypeInv /\ DurableInv /\ WorkerStep => DurableInv'
BY WorkerFresh, WorkerStages, WorkerPending, WorkerLosesNoJob, WorkerForgetsNoRefund
DEF DurableInv

-----------------------------------------------------------------------------
LEMMA StutterDurable == DurableInv /\ UNCHANGED vars => DurableInv'
<1> SUFFICES ASSUME DurableInv, UNCHANGED vars PROVE DurableInv'
  OBVIOUS
<1>1. UNCHANGED <<queue, processing, status, refundPending, refunded, journal, api, local,
                  retries, resumed, pc, entry, refundPath, scan, charged, unfiled>>
  BY DEF vars
<1> QED
  BY <1>1 DEF DurableInv, FreshUnknown, Known, Payloads, StagesDecided, PendingDecided,
     NoLostJob, NoRefundForgotten, HasEntry, HasFullEntry, job

LEMMA StepDurableInv == TypeInv /\ AccountInv /\ DurableInv /\ [Next]_vars => DurableInv'
<1>1. Next => ApiStep \/ WorkerStep
  BY DEF Next, ApiStep, WorkerStep
<1> QED
  BY <1>1, ApiDurable, WorkerDurable, StutterDurable

LEMMA AlwaysDurable == Spec => []DurableInv
<1>1. Init => TypeInv /\ AccountInv /\ DurableInv
  BY InitTypeInv, InitAccountInv, InitDurableInv
<1>2. /\ TypeInv /\ AccountInv /\ DurableInv
      /\ [Next]_vars
      => (TypeInv /\ AccountInv /\ DurableInv)'
  BY StepTypeInv, StepAccountInv, StepDurableInv
<1> QED
  BY <1>1, <1>2, PTL DEF Spec

\* A job dispatched to the queue is never dropped, however often the worker dies, replies
\* are lost and payloads doubled: until its record is completed, or failed with the refund
\* made, a payload for it is on a list (worker.py run_worker and process_job; job_store.py
\* dequeue, requeue_processing, reclaim_processing, finish_processing).
THEOREM JobIsNeverLost == Spec => []NoLostJob
<1>1. DurableInv => NoLostJob
  BY DEF DurableInv
<1> QED
  BY <1>1, AlwaysDurable, PTL

\* A refund the API owes is made or has its file, whichever process picks it up and
\* whenever either dies, unless the write of that file failed as the refund had
\* (main.py _attempt_job_refund, _schedule_job_refund_retry and
\* _retry_job_refund; worker.py _refund_once and _enqueue_journal_refunds).
THEOREM RefundIsNeverForgotten == Spec => []NoRefundForgotten
<1>1. DurableInv => NoRefundForgotten
  BY DEF DurableInv
<1> QED
  BY <1>1, AlwaysDurable, PTL

-----------------------------------------------------------------------------
(* A job whose LPUSH was not doubled has one full payload at most and runs   *)
(* in one process only; so its upload and its result stay as long as they    *)
(* are named.                                                                *)

OnceIn(list, exempt) ==
  \A i, k \in 1..Len(list) :
    list[i] = list[k] /\ ~list[i].refundOnly /\ list[i].job \notin exempt => i = k

FullOnce ==
  /\ OnceIn(queue, doubled)
  /\ \A e \in ToSet(queue) : ~e.refundOnly /\ e.job \notin doubled =>
       e \notin ToSet(processing) /\ (pc = "deleteSource" => e # entry)

Unstarted == {"none", "queued"}

OneRunner ==
  \A j \in Jobs \ doubled :
    /\ local[j] # "none" => /\ Full(j) \notin Payloads
                            /\ pc \in Working /\ ~entry.refundOnly => job # j
    /\ local[j] # "none" \/ api[j] \in Fresh => status[j] \in Unstarted

ResultsKept ==
  /\ \A j \in Jobs \ doubled :
       status[j] = "completed" \/ local[j] = "completed" => j \in results
  /\ pc = "recordCompleted" /\ job \notin doubled => job \in results
  /\ pc = "deleteArtifacts" /\ job \notin doubled => status[job] = "failed"

AdmittedOnDisk == \A j \in Jobs : api[j] \in {"admitted", "saved"} => j \in sources

FilesInv == FullOnce /\ OneRunner /\ AdmittedOnDisk /\ SourceKept /\ ResultsKept

LEMMA InitFilesInv == Init => FilesInv
<1> SUFFICES ASSUME Init PROVE FilesInv
  OBVIOUS
<1>1. ToSet(queue) = {} /\ ToSet(processing) = {} /\ Payloads = {}
  BY DEF Init, ToSet, Payloads
<1>2. OnceIn(queue, doubled)
  BY DEF Init, OnceIn
<1>3. FullOnce /\ SourceKept
  BY <1>1, <1>2 DEF FullOnce, SourceKept, HasFullEntry
<1>4. OneRunner /\ AdmittedOnDisk /\ ResultsKept
  BY <1>1 DEF Init, OneRunner, Unstarted, AdmittedOnDisk, ResultsKept
<1> QED
  BY <1>3, <1>4 DEF FilesInv

\* The API appends the full payload of a job under dispatch, or nothing; and unless it
\* is appended once, to be run by the worker only, the job counts as doubled.
LEMMA ApiQueue ==
  ASSUME TypeInv, ApiStep
  PROVE  /\ processing' = processing /\ doubled \subseteq doubled'
         /\ \/ queue' = queue
            \/ \E j \in Jobs :
                 /\ api[j] = "saved"
                 /\ Payloads' = Payloads \union {Full(j)}
                 /\ queue' \in {Append(queue, Full(j)), PushTwice(j)}
                 /\ j \in doubled' \/ (local' = local /\ queue' = Append(queue, Full(j)))
<1>1. ASSUME NEW j \in Jobs, DispatchEnqueue(j), queue' # queue
      PROVE  /\ api[j] = "saved" /\ processing' = processing
             /\ queue' \in {Append(queue, Full(j)), PushTwice(j)}
             /\ j \in doubled' \/ (local' = local /\ queue' = Append(queue, Full(j)))
  BY <1>1 DEF DispatchEnqueue
<1>2. ASSUME NEW j \in Jobs, DispatchEnqueue(j), queue' # queue
      PROVE  Payloads' = Payloads \union {Full(j)}
  <2>1. queue \in Seq(Entries) /\ Full(j) \in Entries
    BY PayloadFacts DEF TypeInv, TypeOK, RedisTypeOK
  <2>2. /\ ToSet(Append(queue, Full(j))) = ToSet(queue) \union {Full(j)}
        /\ Append(queue, Full(j)) \in Seq(Entries)
    BY <2>1, AppendPayload
  <2>3. ToSet(PushTwice(j)) = ToSet(queue) \union {Full(j)}
    BY <2>1, <2>2, AppendPayload DEF PushTwice
  <2> QED BY <1>1, <1>2, <2>2, <2>3 DEF Payloads
<1>3. CASE \E j \in Jobs : DispatchEnqueue(j)
  <2>1. PICK j \in Jobs : DispatchEnqueue(j)
    BY <1>3
  <2>2. processing' = processing /\ doubled \subseteq doubled'
    BY <2>1 DEF DispatchEnqueue
  <2> QED BY <1>1, <1>2, <2>1, <2>2
<1>4. CASE ~\E j \in Jobs : DispatchEnqueue(j)
  BY <1>4 DEF ApiStep, Admit, Refuse, ApiDispatch, ApiTask, DispatchSave,
     DispatchLocal, DispatchError, LocalCompletes, LocalFails, RetryRefund, ResumeSchedule,
     ResumeRead, StatusReadFails, ApiRestart, redisVars
<1> QED BY <1>3, <1>4

LEMMA FreshNowhere ==
  ASSUME TypeInv, FreshUnknown, NEW j \in Jobs, api[j] \in Fresh
  PROVE  /\ Full(j) \notin Payloads /\ local[j] = "none"
         /\ pc \in Working => job # j
<1>1. j \notin Known /\ local[j] = "none"
  BY DEF FreshUnknown
<1>2. pc \in Working => entry # NoEntry
  BY ConstantsAssumption DEF TypeInv
<1> QED BY <1>1, <1>2, PayloadFacts DEF Known

LEMMA AppendOnce ==
  ASSUME NEW list \in Seq(Entries), NEW exempt, OnceIn(list, exempt), NEW e \in Entries,
         e.refundOnly \/ e.job \in exempt \/ e \notin ToSet(list)
  PROVE  OnceIn(Append(list, e), exempt)
<1> DEFINE longer == Append(list, e)
<1>1. /\ Len(longer) = Len(list) + 1 /\ longer[Len(list) + 1] = e
      /\ \A i \in 1..Len(list) : longer[i] = list[i]
      /\ Len(list) \in Nat
  OBVIOUS
<1>2. \A i \in 1..Len(list) : list[i] = e => e.refundOnly \/ e.job \in exempt
  BY DEF ToSet
<1> HIDE DEF longer
<1>3. OnceIn(longer, exempt)
  <2> SUFFICES ASSUME NEW i \in 1..Len(longer), NEW k \in 1..Len(longer),
                      longer[i] = longer[k], ~longer[i].refundOnly,
                      longer[i].job \notin exempt
               PROVE  i = k
    BY DEF OnceIn
  <2>1. CASE i \in 1..Len(list) /\ k \in 1..Len(list)
    BY <1>1, <2>1 DEF OnceIn
  <2>2. CASE i = Len(list) + 1 /\ k \in 1..Len(list)
    BY <1>1, <1>2, <2>2
  <2>3. CASE k = Len(list) + 1 /\ i \in 1..Len(list)
    BY <1>1, <1>2, <2>3
  <2> QED BY <1>1, <2>1, <2>2, <2>3
<1> QED BY <1>3 DEF longer

LEMMA TailOnce ==
  ASSUME NEW list \in Seq(Entries), NEW exempt, OnceIn(list, exempt), list # <<>>
  PROVE  /\ OnceIn(Tail(list), exempt)
         /\ ~Head(list).refundOnly /\ Head(list).job \notin exempt =>
              Head(list) \notin ToSet(Tail(list))
<1>1. /\ Len(Tail(list)) = Len(list) - 1 /\ Len(list) \in Nat /\ Head(list) = list[1]
      /\ \A i \in 1..Len(Tail(list)) : Tail(list)[i] = list[i + 1]
      /\ DOMAIN Tail(list) = 1..Len(Tail(list))
  OBVIOUS
<1>2. \A i \in 1..Len(Tail(list)) : i + 1 \in 1..Len(list) /\ i + 1 # 1 /\ 1 \in 1..Len(list)
  BY <1>1
<1>3. OnceIn(Tail(list), exempt)
  <2> SUFFICES ASSUME NEW i \in 1..Len(Tail(list)), NEW k \in 1..Len(Tail(list)),
                      Tail(list)[i] = Tail(list)[k], ~Tail(list)[i].refundOnly,
                      Tail(list)[i].job \notin exempt
               PROVE  i = k
    BY DEF OnceIn
  <2>1. i + 1 = k + 1
    BY <1>1, <1>2 DEF OnceIn
  <2> QED BY <2>1
<1>4. ASSUME ~Head(list).refundOnly, Head(list).job \notin exempt,
             Head(list) \in ToSet(Tail(list))
      PROVE  FALSE
  <2>1. PICK i \in 1..Len(Tail(list)) : Tail(list)[i] = Head(list)
    BY <1>1, <1>4 DEF ToSet
  <2>2. list[i + 1] = list[1] /\ ~list[1].refundOnly /\ list[1].job \notin exempt
    BY <1>1, <1>4, <2>1
  <2> QED BY <1>2, <2>2 DEF OnceIn
<1> QED BY <1>3, <1>4

\* More jobs exempt, fewer payloads to look at.
LEMMA OnceInLess ==
  ASSUME NEW list, NEW some, NEW more, some \subseteq more, OnceIn(list, some)
  PROVE  OnceIn(list, more)
BY DEF OnceIn

LEMMA ApiFullOnce ==
  ASSUME TypeInv, FreshUnknown, FullOnce, ApiStep
  PROVE  FullOnce'
<1>1. UNCHANGED <<pc, entry>> /\ processing' = processing /\ doubled \subseteq doubled'
  BY ApiKeeps, ApiQueue
<1>2. CASE queue' = queue
  <2>1. OnceIn(queue', doubled')
    BY <1>1, <1>2, OnceInLess DEF FullOnce
  <2> QED BY <1>1, <1>2, <2>1 DEF FullOnce
<1>3. ASSUME NEW j \in Jobs, api[j] = "saved",
             queue' \in {Append(queue, Full(j)), PushTwice(j)},
             j \in doubled' \/ queue' = Append(queue, Full(j))
      PROVE  FullOnce'
  <2>1. /\ queue \in Seq(Entries) /\ Full(j) \in Entries /\ Full(j).job = j
        /\ Full(j) \notin ToSet(queue) /\ Full(j) \notin ToSet(processing)
        /\ pc \in Working => Full(j) # entry
    BY <1>3, FreshNowhere, PayloadFacts
    DEF Fresh, Payloads, TypeInv, TypeOK, RedisTypeOK, job
  <2>2. /\ OnceIn(Append(queue, Full(j)), doubled') /\ Append(queue, Full(j)) \in Seq(Entries)
        /\ ToSet(Append(queue, Full(j))) = ToSet(queue) \union {Full(j)}
    <3>1. OnceIn(queue, doubled')
      BY <1>1, OnceInLess DEF FullOnce
    <3> QED BY <2>1, <3>1, AppendOnce, AppendPayload
  <2>3. /\ j \in doubled' => OnceIn(PushTwice(j), doubled')
        /\ ToSet(PushTwice(j)) = ToSet(queue) \union {Full(j)}
    <3>1. ToSet(PushTwice(j)) = ToSet(Append(queue, Full(j))) \union {Full(j)}
      BY <2>1, <2>2, AppendPayload DEF PushTwice
    <3>2. ASSUME j \in doubled'
          PROVE  OnceIn(PushTwice(j), doubled')
      <4>1. Full(j).job \in doubled'
        BY <2>1, <3>2
      <4> QED BY <2>1, <2>2, <4>1, AppendOnce DEF PushTwice
    <3> QED BY <2>2, <3>1, <3>2
  <2>4. OnceIn(queue', doubled') /\ ToSet(queue') = ToSet(queue) \union {Full(j)}
    BY <1>3, <2>2, <2>3
  <2> QED
    BY <1>1, <2>1, <2>4 DEF FullOnce, Working, WorkerPcs
<1> QED BY <1>2, <1>3, ApiQueue

\* A job that starts locally was under dispatch until then.
LEMMA LocalStarts ==
  ASSUME TypeInv, ApiStep, NEW k \in Jobs, local'[k] # "none"
  PROVE  local[k] # "none" \/ api[k] \in Fresh
BY DEF ApiStep, Admit, Refuse, ApiDispatch, ApiTask, DispatchSave, DispatchEnqueue,
   DispatchLocal, DispatchError, LocalCompletes, LocalFails, RetryRefund, ResumeSchedule,
   ResumeRead, StatusReadFails, ApiRestart, TypeInv, TypeOK, ApiTypeOK, Fresh

LEMMA StaysFresh ==
  ASSUME TypeInv, ApiStep, NEW k \in Jobs, api'[k] \in Fresh
  PROVE  api[k] \in Fresh
BY DEF ApiStep, Admit, Refuse, ApiDispatch, ApiTask, DispatchSave, DispatchEnqueue,
   DispatchLocal, DispatchError, LocalCompletes, LocalFails, RetryRefund, ResumeSchedule,
   ResumeRead, StatusReadFails, ApiRestart, TypeInv, TypeOK, ApiTypeOK, Fresh

LEMMA ApiOneRunner ==
  ASSUME TypeInv, FreshUnknown, OneRunner, ApiStep
  PROVE  OneRunner'
<1>1. UNCHANGED <<pc, entry>> /\ doubled \subseteq doubled'
  BY ApiKeeps, ApiQueue
<1>2. ASSUME NEW k \in Jobs \ doubled', local'[k] # "none"
      PROVE  Full(k) \notin Payloads' /\ (pc \in Working /\ ~entry.refundOnly => job # k)
  <2>1. Full(k) \notin Payloads /\ (pc \in Working /\ ~entry.refundOnly => job # k)
    BY <1>1, <1>2, LocalStarts, FreshNowhere DEF OneRunner
  <2>2. ASSUME NEW j \in Jobs, api[j] = "saved", j \in doubled' \/ local' = local,
               Payloads' = Payloads \union {Full(j)}
        PROVE  Full(k) \notin Payloads'
    <3>1. local[j] = "none"
      BY <2>2, FreshNowhere DEF Fresh
    <3>2. k # j
      BY <1>2, <2>2, <3>1
    <3> QED BY <2>1, <2>2, <3>2 DEF Full
  <2> QED BY <2>1, <2>2, ApiQueue DEF Payloads
<1>3. ASSUME NEW k \in Jobs \ doubled', local'[k] # "none" \/ api'[k] \in Fresh
      PROVE  status'[k] \in Unstarted
  <2>1. status[k] \in Unstarted
    BY <1>1, <1>3, LocalStarts, StaysFresh DEF OneRunner
  <2> QED BY <2>1, ApiRecords DEF Unstarted, TypeInv, TypeOK, RedisTypeOK
<1>4. \A k \in Jobs : Full(k)' = Full(k)
  BY DEF Full
<1> QED
  BY <1>1, <1>2, <1>3, <1>4 DEF OneRunner, job

\* A job leaves the disk when its dispatch fails or its local run ends.
LEMMA ApiSources ==
  ASSUME TypeInv, ApiStep, NEW k \in Jobs, k \in sources
  PROVE  k \in sources' \/ (api[k] = "admitted" /\ api'[k] = "rejected") \/ local[k] # "none"
BY DEF ApiStep, Admit, Refuse, ApiDispatch, ApiTask, DispatchSave, DispatchEnqueue,
   DispatchLocal, DispatchError, LocalCompletes, LocalFails, RetryRefund, ResumeSchedule,
   ResumeRead, StatusReadFails, ApiRestart, TypeInv, TypeOK, ApiTypeOK

LEMMA ApiSourceKept ==
  ASSUME TypeInv, FreshUnknown, FilesInv, ApiStep
  PROVE  SourceKept' /\ AdmittedOnDisk'
<1> USE DEF FilesInv
<1>0. doubled \subseteq doubled'
  BY ApiQueue
<1>1. ASSUME NEW k \in Jobs \ doubled', Full(k) \in Payloads'
      PROVE  k \in sources'
  <2>1. CASE Full(k) \in Payloads
    BY <1>0, <2>1, ApiSources, FreshNowhere, PayloadsMean DEF SourceKept, OneRunner, Fresh
  <2>2. ASSUME NEW j \in Jobs, api[j] = "saved", Full(k) = Full(j)
        PROVE  k \in sources'
    <3>1. k = j
      BY <2>2 DEF Full
    <3>2. k \in sources /\ local[k] = "none"
      BY <2>2, <3>1, FreshNowhere DEF AdmittedOnDisk, Fresh
    <3> QED BY <2>2, <3>1, <3>2, ApiSources
  <2> QED BY <1>1, <2>1, <2>2, ApiQueue DEF Payloads
<1>2. SourceKept'
  BY <1>1 DEF SourceKept, HasFullEntry, Payloads, Full
<1>3. ASSUME NEW k \in Jobs, api'[k] \in {"admitted", "saved"}
      PROVE  k \in sources'
  <2>1. CASE Admit(k)
    BY <2>1 DEF Admit
  <2>2. CASE ~Admit(k)
    <3>1. api[k] \in {"admitted", "saved"}
      BY <1>3, <2>2 DEF ApiStep, Admit, Refuse, ApiDispatch, ApiTask, DispatchSave,
         DispatchEnqueue, DispatchLocal, DispatchError, LocalCompletes, LocalFails,
         RetryRefund, ResumeSchedule, ResumeRead, StatusReadFails, ApiRestart, TypeInv,
         TypeOK, ApiTypeOK
    <3>2. local[k] = "none" /\ k \in sources
      BY <3>1, FreshNowhere DEF Fresh, AdmittedOnDisk
    <3> QED BY <1>3, <3>2, ApiSources
  <2> QED BY <2>1, <2>2
<1> QED BY <1>2, <1>3 DEF AdmittedOnDisk

\* Only a failing local run deletes a result, and only a local run reports one here.
LEMMA ApiResults ==
  ASSUME TypeInv, ApiStep, NEW k \in Jobs
  PROVE  /\ k \in results => k \in results' \/ (local[k] # "none" /\ local'[k] = "failed")
         /\ local'[k] = "completed" => local[k] = "completed" \/ k \in results'
BY DEF ApiStep, Admit, Refuse, ApiDispatch, ApiTask, DispatchSave, DispatchEnqueue,
   DispatchLocal, DispatchError, LocalCompletes, LocalFails, RetryRefund, ResumeSchedule,
   ResumeRead, StatusReadFails, ApiRestart, TypeInv, TypeOK, ApiTypeOK

LEMMA ApiResultsKept ==
  ASSUME TypeInv, FreshUnknown, StagesDecided, FilesInv, ApiStep
  PROVE  ResultsKept'
<1> USE DEF FilesInv
<1>1. UNCHANGED <<pc, entry>> /\ doubled \subseteq doubled'
  BY ApiKeeps, ApiQueue
<1>2. ASSUME NEW k \in Jobs \ doubled', status'[k] = "completed" \/ local'[k] = "completed"
      PROVE  k \in results'
  <2>1. CASE local'[k] = "completed"
    BY <1>1, <2>1, ApiResults DEF ResultsKept
  <2>2. CASE status'[k] = "completed"
    <3>1. status[k] = "completed"
      BY <2>2, ApiRecords DEF TypeInv, TypeOK, RedisTypeOK
    <3>2. local[k] = "none"
      BY <1>1, <3>1 DEF OneRunner, Unstarted
    <3> QED BY <1>1, <3>1, <3>2, ApiResults DEF ResultsKept
  <2> QED BY <1>2, <2>1, <2>2
<1>3. ASSUME pc \in {"recordCompleted", "deleteArtifacts"}, job \notin doubled
      PROVE  job \in Jobs /\ local[job] = "none" /\ status'[job] = status[job]
  <2>1. pc \in Working \ {"deleteSource"} /\ ~entry.refundOnly
    BY <1>3 DEF StagesDecided, Working, WorkerPcs, Converting
  <2>2. job \in Jobs /\ local[job] = "none"
    BY <1>3, <2>1, HeldPayload DEF OneRunner
  <2>3. api[job] # "admitted"
    BY <2>1, <2>2, FreshNowhere DEF Fresh
  <2> QED BY <2>2, <2>3, ApiRecords DEF TypeInv, TypeOK, RedisTypeOK
<1>4. pc = "recordCompleted" /\ job \notin doubled => job \in results'
  BY <1>3, ApiResults DEF ResultsKept
<1>5. job' = job
  BY <1>1 DEF job
<1> QED
  BY <1>1, <1>2, <1>3, <1>4, <1>5 DEF ResultsKept

LEMMA ApiFiles ==
  ASSUME TypeInv, DurableInv, FilesInv, ApiStep
  PROVE  FilesInv'
BY ApiFullOnce, ApiOneRunner, ApiSourceKept, ApiResultsKept DEF FilesInv, DurableInv

\* The worker queues no full payload that was not on a list.
LEMMA WorkerAddsNoFull ==
  ASSUME TypeInv, WorkerStep, NEW k \in Jobs, Full(k) \in Payloads'
  PROVE  Full(k) \in Payloads
<1>1. CASE EnqueueJournalRefund
  BY <1>1, JournalPayload, PayloadKinds DEF Full, RefundOnly
<1>2. CASE RequeueProcessing
  BY <1>2, RequeuePayload DEF Full, RefundOnly
<1>3. CASE FinishProcessing
  BY <1>3, FinishPayload
<1> QED
  BY <1>1, <1>2, <1>3, WorkerSteps, SamePayloadsKept, ReclaimPayload, DequeuePayload

LEMMA WorkerFullOnce ==
  ASSUME TypeInv, FullOnce, WorkerStep
  PROVE  FullOnce'
<1>0. doubled' = doubled
  BY WorkerKeeps
<1>1. queue \in Seq(Entries) /\ processing \in Seq(Entries) /\ Len(processing) <= 1
  BY DEF TypeInv, TypeOK, RedisTypeOK, InFlightIsHeld
<1>2. CASE SamePayloads
  <2>1. UNCHANGED <<queue, processing>> /\ pc' # "deleteSource"
    BY <1>2 DEF SamePayloads, WorkerStart, PollTimeout, LoadPriorState, BeginProcessing,
       ConvertSucceeds, ConvertFails, RecordCompleted, RecordFailed, DeleteArtifacts,
       RefundOnce, RecordRefund, DropJournal, MarkRefundPending, DeleteSource, WorkerCrash,
       redisVars, Goto
  <2> QED BY <1>0, <2>1 DEF FullOnce, OnceIn
<1>3. CASE ReclaimProcessing
  <2>1. CASE processing = <<>>
    BY <1>0, <1>3, <2>1 DEF ReclaimProcessing, FullOnce, OnceIn
  <2>2. CASE processing # <<>>
    <3>1. /\ queue' = Append(queue, Head(processing)) /\ processing' = <<>> /\ pc' # "deleteSource"
          /\ Head(processing) \in Entries /\ Head(processing) \in ToSet(processing)
      BY <1>1, <1>3, <2>2 DEF ReclaimProcessing, ToSet
    <3>2. \/ Head(processing).refundOnly \/ Head(processing).job \in doubled
          \/ Head(processing) \notin ToSet(queue)
      BY <3>1 DEF FullOnce
    <3>3. OnceIn(queue', doubled)
      BY <1>1, <3>1, <3>2, AppendOnce DEF FullOnce
    <3> QED BY <1>0, <3>1, <3>3, FewPayloads DEF FullOnce
  <2> QED BY <2>1, <2>2
<1>4. CASE EnqueueJournalRefund
  <2>1. CASE queue' = queue
    BY <1>0, <1>4, <2>1 DEF EnqueueJournalRefund, FullOnce, OnceIn
  <2>2. ASSUME NEW j \in scan, queue' = Append(queue, RefundOnly(j))
        PROVE  FullOnce'
    <3>1. RefundOnly(j) \in Entries /\ RefundOnly(j).refundOnly
      BY PayloadFacts DEF RefundOnly, TypeInv, TypeOK, WorkerTypeOK
    <3>2. OnceIn(queue', doubled)
      BY <1>1, <2>2, <3>1, AppendOnce DEF FullOnce
    <3>3. ToSet(queue') = ToSet(queue) \union {RefundOnly(j)}
      BY <1>1, <2>2, <3>1, AppendPayload
    <3>4. processing' = processing /\ pc' # "deleteSource"
      BY <1>4 DEF EnqueueJournalRefund
    <3> QED BY <1>0, <3>1, <3>2, <3>3, <3>4 DEF FullOnce
  <2> QED BY <1>4, <2>1, <2>2 DEF EnqueueJournalRefund
<1>5. CASE Dequeue
  <2>1. /\ queue # <<>> /\ queue' = Tail(queue) /\ processing' = <<Head(queue)>>
        /\ pc' # "deleteSource"
    BY <1>1, <1>5 DEF Dequeue, Goto, TypeInv, InFlightIsHeld
  <2>2. /\ OnceIn(Tail(queue), doubled)
        /\ ~Head(queue).refundOnly /\ Head(queue).job \notin doubled =>
             Head(queue) \notin ToSet(Tail(queue))
    BY <1>1, <2>1, TailOnce DEF FullOnce
  <2> QED BY <1>0, <2>1, <2>2, FewPayloads DEF FullOnce
<1>6. CASE FinishProcessing
  <2>1. processing = <<entry>> /\ entry \in ToSet(processing)
    BY <1>6, HeldPayload, FewPayloads DEF FinishProcessing, Goto, Working, WorkerPcs
  <2>2. UNCHANGED <<queue, entry>> /\ processing' = <<>>
    BY <1>6, <2>1, HeldPayload, RemoveOnly, RemoveJobOnly
    DEF FinishProcessing, Goto, Working, WorkerPcs, job
  <2> QED BY <1>0, <2>1, <2>2, FewPayloads DEF FullOnce, OnceIn
<1>7. CASE RequeueProcessing
  <2>1. processing = <<entry>> /\ entry \in ToSet(processing) /\ job \in Jobs
    BY <1>7, HeldPayload, FewPayloads DEF RequeueProcessing, Goto, Working, WorkerPcs
  <2>2. /\ queue' = Append(queue, RefundOnly(job)) /\ processing' = <<>> /\ entry' = entry
    BY <1>7, <2>1, RemoveOnly DEF RequeueProcessing
  <2>3. RefundOnly(job) \in Entries /\ RefundOnly(job).refundOnly
    BY <2>1, PayloadFacts DEF RefundOnly
  <2>4. OnceIn(queue', doubled)
    BY <1>1, <2>2, <2>3, AppendOnce DEF FullOnce
  <2>5. ToSet(queue') = ToSet(queue) \union {RefundOnly(job)}
    BY <1>1, <2>2, <2>3, AppendPayload
  <2> QED BY <1>0, <2>1, <2>2, <2>3, <2>4, <2>5, FewPayloads DEF FullOnce
<1> QED BY <1>2, <1>3, <1>4, <1>5, <1>6, <1>7, WorkerSteps

\* The payload in the worker's hands came from the lists and stays the same.
LEMMA WorkerHolds ==
  ASSUME TypeInv, WorkerStep, pc' \in Working
  PROVE  (pc \in Working /\ entry' = entry) \/ (entry' \in Payloads /\ entry' \in Entries)
<1>1. CASE Dequeue
  <2>1. queue \in Seq(Entries) /\ queue # <<>> /\ entry' = Head(queue)
    BY <1>1 DEF Dequeue, TypeInv, TypeOK, RedisTypeOK
  <2> QED BY <1>1, <2>1, DequeuePayload
<1>2. CASE ~Dequeue
  BY <1>2 DEF WorkerStep, Worker, WorkerStart, ReclaimProcessing, EnqueueJournalRefund,
     PollTimeout, LoadPriorState, BeginProcessing, ConvertSucceeds, ConvertFails,
     RecordCompleted, RecordFailed, DeleteArtifacts, RefundOnce, RecordRefund, DropJournal,
     FinishProcessing, MarkRefundPending, RequeueProcessing, DeleteSource, WorkerCrash, Goto,
     Working, WorkerPcs
<1> QED BY <1>1, <1>2

\* The worker writes the record of the full payload it holds.
LEMMA WorkerRecords ==
  ASSUME TypeInv, StagesDecided, WorkerStep
  PROVE  \/ status' = status
         \/ /\ pc \in Working \ {"deleteSource"} /\ ~entry.refundOnly /\ job \in Jobs
            /\ \E s \in {"processing", "completed", "failed"} :
                 /\ status' = [status EXCEPT ![job] = s]
                 /\ s = "completed" => pc = "recordCompleted" /\ results' = results
<1>1. CASE BeginProcessing \/ RecordCompleted \/ RecordFailed
  <2>1. pc \in Working \ {"deleteSource"} /\ ~entry.refundOnly
    BY <1>1 DEF StagesDecided, BeginProcessing, RecordCompleted, RecordFailed, Goto,
       Converting, Working, WorkerPcs
  <2>2. job \in Jobs
    BY <2>1, HeldPayload
  <2> QED BY <1>1, <2>1, <2>2 DEF BeginProcessing, RecordCompleted, RecordFailed, Goto
<1>2. CASE ~(BeginProcessing \/ RecordCompleted \/ RecordFailed)
  BY <1>2 DEF WorkerStep, Worker, WorkerStart, ReclaimProcessing, EnqueueJournalRefund,
     Dequeue, PollTimeout, LoadPriorState, ConvertSucceeds, ConvertFails, DeleteArtifacts,
     RefundOnce, RecordRefund, DropJournal, FinishProcessing, MarkRefundPending,
     RequeueProcessing, DeleteSource, WorkerCrash, redisVars
<1> QED BY <1>1, <1>2

LEMMA WorkerOneRunner ==
  ASSUME TypeInv, FreshUnknown, StagesDecided, OneRunner, WorkerStep
  PROVE  OneRunner'
<1>1. UNCHANGED <<api, local, doubled>>
  BY WorkerKeeps
<1>2. ASSUME NEW k \in Jobs \ doubled, local[k] # "none"
      PROVE  Full(k) \notin Payloads' /\ (pc' \in Working /\ ~entry'.refundOnly => entry'.job # k)
  <2>1. Full(k) \notin Payloads'
    BY <1>2, WorkerAddsNoFull DEF OneRunner
  <2>2. ASSUME pc' \in Working, ~entry'.refundOnly
        PROVE  entry'.job # k
    <3>1. CASE pc \in Working /\ entry' = entry
      BY <1>2, <2>2, <3>1 DEF OneRunner, job
    <3>2. CASE entry' \in Payloads /\ entry' \in Entries
      BY <1>2, <2>2, <3>2, PayloadKinds DEF OneRunner
    <3> QED BY <2>2, <3>1, <3>2, WorkerHolds
  <2> QED BY <2>1, <2>2
<1>3. ASSUME NEW k \in Jobs \ doubled, local[k] # "none" \/ api[k] \in Fresh
      PROVE  status'[k] \in Unstarted
  <2>1. status[k] \in Unstarted
    BY <1>3 DEF OneRunner
  <2>2. pc \in Working /\ ~entry.refundOnly => job # k
    BY <1>3, FreshNowhere DEF OneRunner
  <2> QED BY <2>1, <2>2, WorkerRecords DEF TypeInv, TypeOK, RedisTypeOK
<1>4. job' = entry'.job /\ \A k \in Jobs : Full(k)' = Full(k)
  BY DEF job, Full
<1> QED BY <1>1, <1>2, <1>3, <1>4 DEF OneRunner

LEMMA WorkerSourceKept ==
  ASSUME TypeInv, FreshUnknown, FilesInv, WorkerStep
  PROVE  SourceKept' /\ AdmittedOnDisk'
<1> USE DEF FilesInv
<1>1. api' = api /\ doubled' = doubled
  BY WorkerKeeps
<1>2. CASE DeleteSource
  <2>1. /\ pc = "deleteSource" /\ pc \in Working /\ entry \in Entries
        /\ processing = <<>> /\ UNCHANGED <<queue, processing>>
        /\ sources' = IF entry.refundOnly THEN sources ELSE sources \ {job}
    BY <1>2 DEF DeleteSource, Goto, TypeInv, InFlightIsHeld, Working, WorkerPcs, redisVars
  <2>2. Payloads = ToSet(queue) /\ Payloads' = Payloads
    BY <2>1, FewPayloads DEF Payloads
  <2>3. ~entry.refundOnly /\ job \notin doubled => Full(job) \notin Payloads
    BY <2>1, <2>2, PayloadKinds DEF FullOnce, job
  <2>4. \A k \in Jobs \ doubled : Full(k) \in Payloads => k \in sources'
    BY <2>1, <2>3, PayloadsMean DEF SourceKept
  <2>5. \A k \in Jobs : api[k] \in Fresh => k # job
    BY <2>1, FreshNowhere
  <2>6. AdmittedOnDisk'
    BY <1>1, <2>1, <2>5 DEF AdmittedOnDisk, Fresh
  <2>7. SourceKept'
    BY <1>1, <2>2, <2>4 DEF SourceKept, HasFullEntry, Payloads, Full
  <2> QED BY <2>6, <2>7
<1>3. CASE ~DeleteSource
  <2>1. sources' = sources
    BY <1>3 DEF WorkerStep, Worker, WorkerStart, ReclaimProcessing, EnqueueJournalRefund,
       Dequeue, PollTimeout, LoadPriorState, BeginProcessing, ConvertSucceeds, ConvertFails,
       RecordCompleted, RecordFailed, DeleteArtifacts, RefundOnce, RecordRefund, DropJournal,
       FinishProcessing, MarkRefundPending, RequeueProcessing, WorkerCrash
  <2>2. \A k \in Jobs \ doubled : Full(k) \in Payloads' => k \in sources'
    BY <2>1, WorkerAddsNoFull, PayloadsMean DEF SourceKept
  <2>3. SourceKept'
    BY <1>1, <2>2 DEF SourceKept, HasFullEntry, Payloads, Full
  <2> QED BY <1>1, <2>1, <2>3 DEF AdmittedOnDisk
<1> QED BY <1>2, <1>3

LEMMA WorkerResultsKept ==
  ASSUME TypeInv, StagesDecided, FilesInv, WorkerStep
  PROVE  ResultsKept'
<1> USE DEF FilesInv
<1>1. local' = local /\ doubled' = doubled
  BY WorkerKeeps
<1>2. ASSUME NEW k \in Jobs \ doubled, status[k] = "completed" \/ local[k] = "completed"
      PROVE  k \in results'
  <2>1. CASE DeleteArtifacts
    <3>1. /\ pc = "deleteArtifacts" /\ pc \in Working /\ ~entry.refundOnly
          /\ results' = results \ {job}
      BY <2>1 DEF DeleteArtifacts, Goto, StagesDecided, Working, WorkerPcs
    <3>2. k # job
      BY <1>2, <3>1 DEF ResultsKept, OneRunner
    <3> QED BY <1>2, <3>1, <3>2 DEF ResultsKept
  <2>2. CASE ~DeleteArtifacts
    <3>1. results \subseteq results'
      BY <2>2 DEF WorkerStep, Worker, WorkerStart, ReclaimProcessing, EnqueueJournalRefund,
         Dequeue, PollTimeout, LoadPriorState, BeginProcessing, ConvertSucceeds,
         ConvertFails, RecordCompleted, RecordFailed, RefundOnce, RecordRefund, DropJournal,
         FinishProcessing, MarkRefundPending, RequeueProcessing, DeleteSource, WorkerCrash
    <3> QED BY <1>2, <3>1 DEF ResultsKept
  <2> QED BY <2>1, <2>2
<1>3. ASSUME NEW k \in Jobs \ doubled, status'[k] = "completed", status[k] # "completed"
      PROVE  k \in results'
  <2>1. k = job /\ pc = "recordCompleted" /\ results' = results
    BY <1>3, WorkerRecords DEF TypeInv, TypeOK, RedisTypeOK
  <2> QED BY <2>1 DEF ResultsKept
<1>4. ASSUME pc' = "recordCompleted"
      PROVE  job' \in results'
  <2>1. ConvertSucceeds
    BY <1>4 DEF WorkerStep, Worker, WorkerStart, ReclaimProcessing, EnqueueJournalRefund,
       Dequeue, PollTimeout, LoadPriorState, BeginProcessing, ConvertFails,
       RecordCompleted, RecordFailed, DeleteArtifacts, RefundOnce, RecordRefund, DropJournal,
       FinishProcessing, MarkRefundPending, RequeueProcessing, DeleteSource, WorkerCrash,
       Goto
  <2> QED BY <2>1 DEF ConvertSucceeds, job
<1>5. ASSUME pc' = "deleteArtifacts"
      PROVE  status'[job'] = "failed"
  <2>1. RecordFailed
    BY <1>5 DEF WorkerStep, Worker, WorkerStart, ReclaimProcessing, EnqueueJournalRefund,
       Dequeue, PollTimeout, LoadPriorState, BeginProcessing, ConvertSucceeds, ConvertFails,
       RecordCompleted, DeleteArtifacts, RefundOnce, RecordRefund, DropJournal,
       FinishProcessing, MarkRefundPending, RequeueProcessing, DeleteSource, WorkerCrash,
       Goto
  <2>2. job \in Jobs
    BY <2>1, HeldPayload DEF RecordFailed, Goto, Working, WorkerPcs
  <2> QED BY <2>1, <2>2 DEF RecordFailed, job, TypeInv, TypeOK, RedisTypeOK
<1> QED
  BY <1>1, <1>2, <1>3, <1>4, <1>5 DEF ResultsKept

LEMMA WorkerFiles ==
  ASSUME TypeInv, DurableInv, FilesInv, WorkerStep
  PROVE  FilesInv'
BY WorkerFullOnce, WorkerOneRunner, WorkerSourceKept, WorkerResultsKept
DEF FilesInv, DurableInv

LEMMA StutterFiles == FilesInv /\ UNCHANGED vars => FilesInv'
<1> SUFFICES ASSUME FilesInv, UNCHANGED vars PROVE FilesInv'
  OBVIOUS
<1>1. UNCHANGED <<queue, processing, status, sources, results, api, local, pc, entry, doubled>>
  BY DEF vars
<1> QED
  BY <1>1 DEF FilesInv, FullOnce, OnceIn, OneRunner, Payloads, AdmittedOnDisk, SourceKept,
     HasFullEntry, ResultsKept, job

LEMMA AlwaysFiles == Spec => []FilesInv
<1>1. Init => TypeInv /\ AccountInv /\ DurableInv /\ FilesInv
  BY InitTypeInv, InitAccountInv, InitDurableInv, InitFilesInv
<1>2. TypeInv /\ DurableInv /\ FilesInv /\ [Next]_vars => FilesInv'
  <2>1. Next => ApiStep \/ WorkerStep
    BY DEF Next, ApiStep, WorkerStep
  <2> QED BY <2>1, ApiFiles, WorkerFiles, StutterFiles
<1>3. /\ TypeInv /\ AccountInv /\ DurableInv /\ FilesInv
      /\ [Next]_vars
      => (TypeInv /\ AccountInv /\ DurableInv /\ FilesInv)'
  BY <1>2, StepTypeInv, StepAccountInv, StepDurableInv
<1> QED
  BY <1>1, <1>3, PTL DEF Spec

\* Unless an LPUSH of the job took effect although its caller saw it fail, its upload is
\* on disk as long as a payload asks for its conversion, over crashes of the worker
\* between any two calls, other lost replies and runs in the API process (worker.py
\* process_job, which unlinks the source last; main.py _run_job_in_process and
\* _dispatch_job).
THEOREM UploadIsKept == Spec => []SourceKept
<1>1. FilesInv => SourceKept
  BY DEF FilesInv
<1> QED
  BY <1>1, AlwaysFiles, PTL

\* And if the API shows such a job as completed its DOCX is there, also while the worker
\* converts it once more after a restart (worker.py process_job, with
\* delete_job_artifacts; main.py _find_job and _run_job_in_process).
THEOREM ResultIsPresent == Spec => []ResultPresent
<1>1. FilesInv => ResultPresent
  BY DEF FilesInv, ResultsKept, ResultPresent, View
<1> QED
  BY <1>1, AlwaysFiles, PTL

=============================================================================
