------------------------------- MODULE Quota -------------------------------
(***************************************************************************)
(* conversion-service/quota.py call by call.  A charge or a refund is an   *)
(* optimistic Redis transaction: WATCH and GET, then EXEC, which runs      *)
(* nothing when a watched key was written in between.  The counter of a    *)
(* UTC day expires a day after it was last raised from zero, the marker of *)
(* a refund MarkerTtl after the refund.  The API charges and refunds; the  *)
(* worker, a process of its own, refunds.  After a failed charge the API   *)
(* counts in its memory until it restarts.  ConversionQueue takes all this *)
(* as one step of one day.                                                 *)
(*                                                                         *)
(* One user.  An upload is admitted in the call that charges it, so a job  *)
(* is refunded only after its charge.                                      *)
(***************************************************************************)
EXTENDS Integers, FiniteSets

CONSTANTS
  Jobs,
  Limit,      \* QUOTA_DAILY_LIMIT
  DayLength,  \* clock ticks of a day, the lifetime of counters too
  MarkerTtl,  \* CONVERSION_JOB_TTL_S
  MaxTime,    \* bound on the clock
  MaxFaults,  \* bound on calls to Redis that fail in the API
  MaxRestarts \* bound on restarts of the API

ASSUME ConstantsAssumption ==
  /\ Limit \in Nat \ {0} /\ DayLength \in Nat \ {0} /\ MarkerTtl \in Nat \ {0}
  /\ MaxTime \in Nat /\ MaxFaults \in Nat /\ MaxRestarts \in Nat

VARIABLES
  now,
  counter,   \* per day: the key in Redis
  marker,    \* per job: when the refund marker in Redis expires, 0 if absent
  memory,    \* per day: the counter in the API
  memMarker, \* per job: when the marker in the API expires, 0 if absent
  apiRedis,  \* the API's QuotaService has its client
  call,      \* per caller: the transaction under way
  home,      \* per job: which counter holds its charge
  day,       \* per job: the day it was charged on
  taken,     \* per job: how often a refund took one off in Redis
  faults, restarts

vars == <<now, counter, marker, memory, memMarker, apiRedis, call, home, day, taken,
          faults, restarts>>

DayOf(t) == t \div DayLength
Days == 0..DayOf(MaxTime)
Absent == [n |-> 0, expires |-> 0]

(* Callers: the admission of a job, and its refund by either process. *)
Callers == {"charge", "refundApi", "refundWorker"} \X Jobs
Kind(c) == c[1]
JobOf(c) == c[2]

(* A call: idle, or a transaction on the key of a day with the count it    *)
(* read; dirty once somebody else has written a key it watches.            *)
Idle == [at |-> "idle", day |-> 0, seen |-> 0]
Floor(n) == IF n < 0 THEN 0 ELSE n

Watches(c, d, j) ==
  call[c].at # "idle" /\ (call[c].day = d \/ (Kind(c) # "charge" /\ JobOf(c) = j))

(* EXEC of caller c on the key of day d and, for a refund, the marker of j. *)
Written(c, d) ==
  call' = [x \in Callers |->
             IF x = c THEN Idle
             ELSE IF Watches(x, d, JobOf(c)) THEN [call[x] EXCEPT !.at = "dirty"]
             ELSE call[x]]

Begin(c, d) == call' = [call EXCEPT ![c] = [at |-> "clean", day |-> d, seen |-> Floor(counter[d].n)]]

----------------------------------------------------------------------------
(* charge: the key of today, WATCH and GET.  At the limit it returns.      *)
CanCharge(j) == home[j] = "none" /\ call[<<"charge", j>>] = Idle

ChargeReads(j) ==
  /\ CanCharge(j) /\ apiRedis
  /\ counter[DayOf(now)].n < Limit
  /\ Begin(<<"charge", j>>, DayOf(now))
  /\ UNCHANGED <<now, counter, marker, memory, memMarker, apiRedis, home, day, taken,
                 faults, restarts>>

(* MULTI, INCR, EXPIRE if the count was zero, EXEC. *)
Increment(d, seen) ==
  counter' = [counter EXCEPT ![d] =
    [n |-> @.n + 1, expires |-> IF seen = 0 THEN now + DayLength ELSE @.expires]]

ChargeExecUnwatched(j) ==
  LET c == <<"charge", j>>  d == call[c].day IN
  /\ call[c].at # "idle"
  /\ Increment(d, call[c].seen)
  /\ Written(c, d)
  /\ home' = [home EXCEPT ![j] = "redis"] /\ day' = [day EXCEPT ![j] = d]
  /\ UNCHANGED <<now, marker, memory, memMarker, apiRedis, taken, faults, restarts>>

ChargeExec(j) ==
  LET c == <<"charge", j>>  d == call[c].day IN
  /\ call[c].at = "clean"
  /\ Increment(d, call[c].seen)
  /\ Written(c, d)
  /\ home' = [home EXCEPT ![j] = "redis"] /\ day' = [day EXCEPT ![j] = d]
  /\ UNCHANGED <<now, marker, memory, memMarker, apiRedis, taken, faults, restarts>>

LimitOnly(c) == Kind(c) = "charge" /\ counter[call[c].day].n >= Limit

(* WatchError: read again, on the key computed when the call began.  A     *)
(* charge may find the limit reached, a refund the marker set.             *)
NothingLeft(c) ==
  IF Kind(c) = "charge" THEN counter[call[c].day].n >= Limit ELSE marker[JobOf(c)] # 0

Retry(c) ==
  /\ call[c].at = "dirty" /\ (apiRedis \/ Kind(c) = "refundWorker")
  /\ IF NothingLeft(c) THEN call' = [call EXCEPT ![c] = Idle] ELSE Begin(c, call[c].day)
  /\ UNCHANGED <<now, counter, marker, memory, memMarker, apiRedis, home, day, taken,
                 faults, restarts>>

(* Another thread of the API has dropped the client meanwhile: the call    *)
(* raises, a charge then counts in memory, a refund is tried again.        *)
ClientGone(c) ==
  /\ call[c].at = "dirty" /\ ~apiRedis /\ Kind(c) # "refundWorker"
  /\ call' = [call EXCEPT ![c] = Idle]
  /\ UNCHANGED <<now, counter, marker, memory, memMarker, apiRedis, home, day, taken,
                 faults, restarts>>

(* Any other exception drops the client for good; EXEC may have run.       *)
ChargeFails(j, ran) ==
  LET c == <<"charge", j>>  d == call[c].day IN
  /\ call[c].at = "clean" /\ faults < MaxFaults
  /\ faults' = faults + 1 /\ apiRedis' = FALSE
  /\ IF ran
     THEN Increment(d, call[c].seen) /\ Written(c, d)
     ELSE call' = [call EXCEPT ![c] = Idle] /\ UNCHANGED counter
  /\ UNCHANGED <<now, marker, memory, memMarker, home, day, taken, restarts>>

InMemory(d) == IF memory[d].expires # 0 /\ now > memory[d].expires THEN Absent ELSE memory[d]

ChargeInMemory(j) ==
  LET d == DayOf(now) IN
  /\ CanCharge(j) /\ ~apiRedis
  /\ InMemory(d).n < Limit
  /\ memory' = [memory EXCEPT ![d] =
       [n |-> InMemory(d).n + 1,
        expires |-> IF InMemory(d) = Absent THEN now + DayLength ELSE @.expires]]
  /\ home' = [home EXCEPT ![j] = "memory"] /\ day' = [day EXCEPT ![j] = d]
  /\ UNCHANGED <<now, counter, marker, memMarker, apiRedis, call, taken,
                 faults, restarts>>

----------------------------------------------------------------------------
(* refund_charge_once: WATCH marker and counter; nothing to do when the    *)
(* marker is there.  The key is the one stored with the job.               *)
KeyOfToday(j) == DayOf(now)
KeyOf(j) == day[j]

UsesRedis(c) == Kind(c) = "refundWorker" \/ (Kind(c) = "refundApi" /\ apiRedis)

RefundReads(c) ==
  /\ UsesRedis(c) /\ call[c] = Idle
  /\ home[JobOf(c)] # "none" /\ marker[JobOf(c)] = 0
  /\ Begin(c, KeyOf(JobOf(c)))
  /\ UNCHANGED <<now, counter, marker, memory, memMarker, apiRedis, home, day, taken,
                 faults, restarts>>

Decremented(d, seen) ==
  counter' = IF seen > 0 THEN [counter EXCEPT ![d].n = @ - 1] ELSE counter

RefundExec(c) ==
  LET j == JobOf(c)  d == call[c].day IN
  /\ Kind(c) # "charge" /\ call[c].at = "clean"
  /\ Decremented(d, call[c].seen)
  /\ marker' = [marker EXCEPT ![j] = now + MarkerTtl]
  /\ taken' = [taken EXCEPT ![j] = IF call[c].seen > 0 THEN @ + 1 ELSE @]
  /\ Written(c, d)
  /\ UNCHANGED <<now, memory, memMarker, apiRedis, home, day, faults, restarts>>

(* Errors leave the transaction to the caller, who tries again.            *)
RefundRaises(c) ==
  /\ Kind(c) # "charge" /\ call[c].at # "idle" /\ faults < MaxFaults
  /\ faults' = faults + 1
  /\ call' = [call EXCEPT ![c] = Idle]
  /\ UNCHANGED <<now, counter, marker, memory, memMarker, apiRedis, home, day, taken,
                 restarts>>

(* The API without its client.  Reading an absent or expired counter       *)
(* changes nothing but the marker.                                         *)
RefundInMemory(j) ==
  LET d == KeyOf(j) IN
  /\ ~apiRedis /\ call[<<"refundApi", j>>] = Idle
  /\ home[j] # "none" /\ ~(memMarker[j] > now)
  /\ memMarker' = [memMarker EXCEPT ![j] = now + MarkerTtl]
  /\ IF InMemory(d).n > 0
     THEN memory' = [memory EXCEPT ![d].n = @ - 1]
     ELSE UNCHANGED memory
  /\ UNCHANGED <<now, counter, marker, apiRedis, call, home, day, taken, faults, restarts>>

----------------------------------------------------------------------------
(* Keys expire; a transaction that watches one is aborted.                 *)
Tick ==
  LET t == now + 1
      gone == {d \in Days : counter[d].expires # 0 /\ counter[d].expires <= t}
      late == {j \in Jobs : marker[j] # 0 /\ marker[j] <= t} IN
  /\ t <= MaxTime
  /\ now' = t
  /\ counter' = [d \in Days |-> IF d \in gone THEN Absent ELSE counter[d]]
  /\ marker' = [j \in Jobs |-> IF j \in late THEN 0 ELSE marker[j]]
  /\ call' = [c \in Callers |->
       IF call[c].at # "idle" /\ (call[c].day \in gone \/ (Kind(c) # "charge" /\ JobOf(c) \in late))
       THEN [call[c] EXCEPT !.at = "dirty"] ELSE call[c]]
  /\ UNCHANGED <<memory, memMarker, apiRedis, home, day, taken, faults, restarts>>

(* A new API process has its client again and an empty memory; the calls   *)
(* of the old one are gone.                                                *)
ApiRestart ==
  /\ restarts < MaxRestarts
  /\ restarts' = restarts + 1
  /\ apiRedis' = TRUE
  /\ memory' = [d \in Days |-> Absent] /\ memMarker' = [j \in Jobs |-> 0]
  /\ call' = [c \in Callers |-> IF Kind(c) = "refundWorker" THEN call[c] ELSE Idle]
  /\ UNCHANGED <<now, counter, marker, home, day, taken, faults>>

Init ==
  /\ now = 0 /\ apiRedis = TRUE /\ faults = 0 /\ restarts = 0
  /\ counter = [d \in Days |-> Absent] /\ memory = [d \in Days |-> Absent]
  /\ marker = [j \in Jobs |-> 0] /\ memMarker = [j \in Jobs |-> 0]
  /\ call = [c \in Callers |-> Idle]
  /\ home = [j \in Jobs |-> "none"] /\ day = [j \in Jobs |-> 0]
  /\ taken = [j \in Jobs |-> 0]

Next ==
  \/ Tick \/ ApiRestart
  \/ \E j \in Jobs : \/ ChargeReads(j) \/ ChargeExec(j) \/ ChargeInMemory(j) \/ RefundInMemory(j)
                     \/ \E ran \in BOOLEAN : ChargeFails(j, ran)
  \/ \E c \in Callers : Retry(c) \/ ClientGone(c) \/ RefundReads(c) \/ RefundExec(c) \/ RefundRaises(c)

Spec == Init /\ [][Next]_vars

----------------------------------------------------------------------------
TypeOK ==
  /\ now \in 0..MaxTime /\ apiRedis \in BOOLEAN
  /\ counter \in [Days -> [n : Nat, expires : Nat]]
  /\ memory \in [Days -> [n : Nat, expires : Nat]]
  /\ marker \in [Jobs -> Nat] /\ memMarker \in [Jobs -> Nat]
  /\ call \in [Callers -> [at : {"idle", "clean", "dirty"}, day : Days, seen : Nat]]
  /\ home \in [Jobs -> {"none", "redis", "memory"}] /\ day \in [Jobs -> Days]
  /\ taken \in [Jobs -> Nat]
  /\ faults \in 0..MaxFaults /\ restarts \in 0..MaxRestarts

(* Jobs that hold a slot of day d in Redis. *)
Holding(d) == {j \in Jobs : home[j] = "redis" /\ day[j] = d /\ taken[j] = 0}

(* While a day lasts and no call has failed, its counter is the number of  *)
(* jobs that hold a slot: it does not expire too early, and no refund of   *)
(* another day or second refund of a job is taken off it.  Every counter,  *)
(* also one that a late refund finds expired, will expire.                 *)
CounterExact ==
  /\ faults = 0 => counter[DayOf(now)].n = Cardinality(Holding(DayOf(now)))
  /\ \A d \in Days : counter[d].n # 0 => counter[d].expires # 0

(* However many admissions and refunds run at once, the jobs charged in    *)
(* Redis never hold more than the day's limit.                             *)
LimitHolds == faults = 0 => Cardinality(Holding(DayOf(now))) <= Limit

(* Whatever fails and however often it is tried again, by both processes,  *)
(* a job takes one off the counter of its day at most once while the day   *)
(* lasts.                                                                  *)
RefundedOnce == \A j \in Jobs : day[j] = DayOf(now) => taken[j] <= 1

=============================================================================
