---------------------------- MODULE QuotaProofs ----------------------------
(***************************************************************************)
(* Proofs about Quota, for any jobs, limit, clock and fault bounds.        *)
(*                                                                         *)
(* The argument has three layers.  A transaction that is still clean has   *)
(* read what is there (Fresh), which is what WATCH is for.  From the       *)
(* lifetimes, a counter outlives its day and a marker the day of its       *)
(* charge (Lasting, Marked).  As long as no call has failed, each step     *)
(* that moves the counter of today then moves the set of jobs that hold a  *)
(* slot with it (Exact).                                                   *)
(***************************************************************************)
EXTENDS Quota, FiniteSetTheorems, TLAPS

Today == DayOf(now)
EndOf(d) == (d + 1) * DayLength

\* A clean transaction has seen the counter as it is, a charge below the
\* limit, a refund without its marker.
Fresh ==
  \A c \in Callers : call[c].at = "clean" =>
    /\ call[c].seen = counter[call[c].day].n
    /\ Kind(c) = "charge" => call[c].seen < Limit
    /\ Kind(c) # "charge" => marker[JobOf(c)] = 0

\* Whose transactions there are: a charge of a job not admitted yet, a
\* refund of an admitted one on the key of its admission.
Owned ==
  \A c \in Callers : call[c].at # "idle" =>
    /\ call[c].day <= Today
    /\ Kind(c) = "charge" => home[JobOf(c)] = "none"
    /\ Kind(c) # "charge" => home[JobOf(c)] # "none" /\ call[c].day = day[JobOf(c)]

\* Jobs are refunded after they are charged, and charged in the past.
Admitted ==
  \A j \in Jobs :
    /\ home[j] = "none" => taken[j] = 0
    /\ home[j] # "none" => day[j] <= Today

\* A counter above zero will expire, but not before its day has ended, and
\* days to come have none.
Lasting ==
  \A d \in Days :
    /\ counter[d].n # 0 => counter[d].expires # 0
    /\ counter[d].expires # 0 => counter[d].expires > now /\ counter[d].expires >= EndOf(d)
    /\ d > Today => counter[d].n = 0

\* A job refunded on the day of its charge has a marker for the rest of it.
Marked ==
  \A j \in Jobs : day[j] = Today /\ taken[j] # 0 =>
    taken[j] = 1 /\ marker[j] >= EndOf(day[j])

Bounded == \A d \in Days : counter[d].n <= Limit

Undisturbed == faults = 0 => apiRedis /\ \A j \in Jobs : home[j] # "memory"

Exact ==
  faults = 0 => /\ IsFiniteSet(Holding(Today))
                /\ counter[Today].n = Cardinality(Holding(Today))

\* Markers live at least as long as a day, as with the defaults of
\* config.py: CONVERSION_JOB_TTL_S is a day unless the operator sets it.
MarkersLast == MarkerTtl >= DayLength

Transactions == TypeOK /\ Fresh /\ Owned /\ Admitted
QuotaInv == Transactions /\ Lasting /\ Bounded /\ Marked /\ Undisturbed /\ Exact
-----------------------------------------------------------------------------
(* Callers and days.                                                       *)

LEMMA CallerFacts ==
  /\ \A c \in Callers : /\ Kind(c) \in {"charge", "refundApi", "refundWorker"}
                        /\ JobOf(c) \in Jobs
                        /\ Kind(c) = "charge" => c = <<"charge", JobOf(c)>>
  /\ \A j \in Jobs : /\ <<"charge", j>> \in Callers
                     /\ Kind(<<"charge", j>>) = "charge" /\ JobOf(<<"charge", j>>) = j
                     /\ <<"refundApi", j>> \in Callers
                     /\ Kind(<<"refundApi", j>>) = "refundApi" /\ JobOf(<<"refundApi", j>>) = j
BY DEF Callers, Kind, JobOf

LEMMA DayBounds ==
  ASSUME NEW t \in Nat
  PROVE  /\ DayOf(t) \in Nat
         /\ DayOf(t) * DayLength <= t /\ t < EndOf(DayOf(t))
         /\ EndOf(DayOf(t)) = DayOf(t) * DayLength + DayLength
<1>1. DayLength \in Nat \ {0}
  BY ConstantsAssumption
<1>2. /\ t \div DayLength \in Nat
      /\ (t \div DayLength) * DayLength <= t
      /\ t < (t \div DayLength) * DayLength + DayLength
  BY <1>1
<1>3. ((t \div DayLength) + 1) * DayLength = (t \div DayLength) * DayLength + DayLength
  BY <1>1, <1>2
<1> QED
  BY <1>2, <1>3 DEF DayOf, EndOf

\* The clock only moves on, and days with it.
LEMMA DaysGrow ==
  ASSUME NEW s \in Nat, NEW t \in Nat, s <= t
  PROVE  DayOf(s) <= DayOf(t)
<1> DEFINE p == DayOf(s)
           q == DayOf(t)
<1>1. /\ p \in Nat /\ q \in Nat /\ DayLength \in Nat \ {0}
      /\ p * DayLength <= s /\ t < q * DayLength + DayLength
  BY DayBounds, ConstantsAssumption
<1>2. SUFFICES ASSUME q + 1 <= p PROVE FALSE
  BY <1>1
<1>3. (q + 1) * DayLength <= p * DayLength
  BY <1>1, <1>2
<1>4. (q + 1) * DayLength = q * DayLength + DayLength
  BY <1>1
<1> QED
  BY <1>1, <1>3, <1>4

LEMMA DaysInRange ==
  ASSUME NEW t \in 0..MaxTime
  PROVE  DayOf(t) \in Days /\ t \in Nat
<1>1. MaxTime \in Nat /\ t \in Nat /\ t <= MaxTime
  BY ConstantsAssumption
<1> QED
  BY <1>1, DaysGrow, DayBounds DEF Days

\* An end of day that has passed is the end of a day before.
LEMMA EndsPass ==
  ASSUME NEW t \in Nat, NEW d \in Nat, EndOf(d) <= t
  PROVE  d < DayOf(t)
<1> DEFINE q == DayOf(t)
<1>1. /\ q \in Nat /\ DayLength \in Nat \ {0} /\ t < EndOf(q)
  BY DayBounds, ConstantsAssumption
<1>2. SUFFICES ASSUME q <= d PROVE FALSE
  BY <1>1
<1>3. (q + 1) * DayLength <= (d + 1) * DayLength
  BY <1>1, <1>2
<1> QED
  BY <1>1, <1>3 DEF EndOf

LEMMA EndsGrow ==
  ASSUME NEW d \in Nat, NEW e \in Nat, d <= e
  PROVE  EndOf(d) \in Nat /\ EndOf(d) <= EndOf(e)
BY ConstantsAssumption DEF EndOf
-----------------------------------------------------------------------------
(* Types and transactions.                                                 *)

LEMMA StartsTyped == Init => TypeOK
BY ConstantsAssumption, DaysInRange DEF Init, TypeOK, Idle, Absent, Days, Callers

\* What EXEC does to the calls: its own ends, those that watch what it
\* writes are to be repeated, the others go on.
LEMMA ExecAborts ==
  ASSUME TypeOK, NEW c \in Callers, NEW d, Written(c, d), NEW x \in Callers
  PROVE  /\ call'[x].at = "clean" => /\ call'[x] = call[x] /\ x # c
                                     /\ call[x].day # d
                                     /\ Kind(x) # "charge" => JobOf(x) # JobOf(c)
         /\ call'[x].at # "idle" => call[x].at # "idle" /\ call'[x].day = call[x].day /\ x # c
         /\ call'[x] \in [at : {"idle", "clean", "dirty"}, day : Days, seen : Nat]
<1>1. /\ call[x] \in [at : {"idle", "clean", "dirty"}, day : Days, seen : Nat]
      /\ Idle \in [at : {"idle", "clean", "dirty"}, day : Days, seen : Nat]
  BY DaysInRange, ConstantsAssumption, DayBounds DEF TypeOK, Idle, Days
<1>2. call'[x] = IF x = c THEN Idle
                 ELSE IF Watches(x, d, JobOf(c)) THEN [call[x] EXCEPT !.at = "dirty"]
                 ELSE call[x]
  BY DEF Written
<1>3. CASE x = c
  BY <1>1, <1>2, <1>3 DEF Idle
<1>4. CASE x # c /\ Watches(x, d, JobOf(c))
  BY <1>1, <1>2, <1>4 DEF Watches
<1>5. CASE x # c /\ ~Watches(x, d, JobOf(c))
  BY <1>1, <1>2, <1>5 DEF Watches
<1> QED
  BY <1>3, <1>4, <1>5
-----------------------------------------------------------------------------
(* Each action keeps types and transactions.                               *)

\* A call that begins or reads again (ChargeReads, Retry, RefundReads).
LEMMA BeginningKeeps ==
  ASSUME Transactions, NEW c \in Callers, NEW d \in Days, Begin(c, d), d <= Today,
         Kind(c) = "charge" => home[JobOf(c)] = "none" /\ counter[d].n < Limit,
         Kind(c) # "charge" => /\ home[JobOf(c)] # "none" /\ d = day[JobOf(c)]
                               /\ marker[JobOf(c)] = 0,
         UNCHANGED <<now, counter, marker, memory, memMarker, apiRedis, home, day, taken,
                     faults, restarts>>
  PROVE  Transactions'
<1> USE DEF Transactions
<1>1. /\ counter[d].n \in Nat /\ Floor(counter[d].n) = counter[d].n
      /\ call' = [call EXCEPT ![c] = [at |-> "clean", day |-> d, seen |-> counter[d].n]]
  <2>1. counter[d].n \in Nat
    BY DEF TypeOK
  <2>2. Floor(counter[d].n) = counter[d].n
    BY <2>1 DEF Floor
  <2> QED
    BY <2>1, <2>2 DEF Begin
<1>2. TypeOK'
  BY <1>1 DEF TypeOK
<1>3. \A x \in Callers : x # c => call'[x] = call[x]
  BY <1>1 DEF TypeOK
<1>4. call'[c] = [at |-> "clean", day |-> d, seen |-> counter[d].n]
  BY <1>1 DEF TypeOK
<1>5. Fresh'
  BY <1>3, <1>4 DEF Fresh
<1>6. Owned'
  BY <1>3, <1>4 DEF Owned, Today
<1>7. Admitted'
  BY DEF Admitted, Today
<1> QED
  BY <1>2, <1>5, <1>6, <1>7

\* A call that ends, or all calls of a process that dies, with nothing done.
LEMMA EndingKeeps ==
  ASSUME Transactions, TypeOK', \A c \in Callers : call'[c] = call[c] \/ call'[c] = Idle,
         UNCHANGED <<now, counter, marker, home, day, taken>>
  PROVE  Transactions'
<1> USE DEF Transactions
<1>1. Fresh'
  BY DEF Fresh, Idle
<1>2. Owned'
  BY DEF Owned, Today, Idle
<1>3. Admitted'
  BY DEF Admitted, Today
<1> QED
  BY <1>1, <1>2, <1>3

\* Raising the counter of the day of a clean charge.
LEMMA IncrementTyped ==
  ASSUME TypeOK, NEW d \in Days, NEW seen \in Nat, Increment(d, seen)
  PROVE  /\ counter' \in [Days -> [n : Nat, expires : Nat]]
         /\ \A e \in Days : e # d => counter'[e] = counter[e]
         /\ counter'[d].n = counter[d].n + 1
         /\ counter'[d].expires = IF seen = 0 THEN now + DayLength ELSE counter[d].expires
<1>1. /\ counter[d] \in [n : Nat, expires : Nat] /\ now \in Nat /\ DayLength \in Nat
      /\ counter \in [Days -> [n : Nat, expires : Nat]]
  BY ConstantsAssumption DEF TypeOK
<1> QED
  BY <1>1 DEF Increment

LEMMA ChargeExecKeeps ==
  ASSUME Transactions, NEW j \in Jobs, ChargeExec(j)
  PROVE  Transactions'
<1> DEFINE c == <<"charge", j>>
           d == call[c].day
<1> USE DEF Transactions
<1>0. c \in Callers /\ Kind(c) = "charge" /\ JobOf(c) = j
  BY CallerFacts
<1>1. /\ d \in Days /\ d <= Today /\ home[j] = "none" /\ call[c].seen \in Nat
      /\ Increment(d, call[c].seen) /\ Written(c, d)
      /\ home' = [home EXCEPT ![j] = "redis"] /\ day' = [day EXCEPT ![j] = d]
      /\ UNCHANGED <<now, marker, memory, memMarker, apiRedis, taken, faults, restarts>>
  BY <1>0 DEF ChargeExec, TypeOK, Owned
<1>2. /\ counter' \in [Days -> [n : Nat, expires : Nat]]
      /\ \A e \in Days : e # d => counter'[e] = counter[e]
  BY <1>1, IncrementTyped
<1>3. \A x \in Callers :
        /\ call'[x].at = "clean" => /\ call'[x] = call[x] /\ x # c /\ call[x].day # d
                                    /\ Kind(x) # "charge" => JobOf(x) # j
        /\ call'[x].at # "idle" => call[x].at # "idle" /\ call'[x].day = call[x].day /\ x # c
        /\ call'[x] \in [at : {"idle", "clean", "dirty"}, day : Days, seen : Nat]
  BY <1>0, <1>1, ExecAborts
<1>4. TypeOK'
  <2>1. call' \in [Callers -> [at : {"idle", "clean", "dirty"}, day : Days, seen : Nat]]
    BY <1>1, <1>3 DEF Written
  <2> QED
    BY <1>1, <1>2, <2>1 DEF TypeOK
<1>5. Fresh'
  <2>1. \A x \in Callers : call[x].day \in Days
    BY DEF TypeOK
  <2> QED
    BY <1>1, <1>2, <1>3, <2>1 DEF Fresh
<1>6. Owned'
  <2>1. \A x \in Callers : Kind(x) = "charge" /\ x # c => JobOf(x) # j
    BY CallerFacts
  <2>2. \A x \in Callers : JobOf(x) \in Jobs
    BY CallerFacts
  <2>3. \A k \in Jobs : k # j => home'[k] = home[k] /\ day'[k] = day[k]
    BY <1>1 DEF TypeOK
  <2>4. Today' = Today
    BY <1>1 DEF Today
  <2>5. \A x \in Callers : call[x].at # "idle" /\ Kind(x) # "charge" => JobOf(x) # j
    BY <1>1 DEF Owned
  <2> QED
    BY <1>3, <2>1, <2>2, <2>3, <2>4, <2>5 DEF Owned
<1>7. Admitted'
  BY <1>1 DEF Admitted, TypeOK, Today
<1> QED
  BY <1>4, <1>5, <1>6, <1>7

LEMMA ChargeFailsKeeps ==
  ASSUME Transactions, NEW j \in Jobs, NEW ran \in BOOLEAN, ChargeFails(j, ran)
  PROVE  Transactions'
<1> DEFINE c == <<"charge", j>>
           d == call[c].day
<1> USE DEF Transactions
<1>0. c \in Callers /\ Kind(c) = "charge" /\ JobOf(c) = j
  BY CallerFacts
<1>1. /\ d \in Days /\ call[c].seen \in Nat /\ faults' \in 0..MaxFaults /\ apiRedis' = FALSE
      /\ UNCHANGED <<now, marker, memory, memMarker, home, day, taken, restarts>>
  BY <1>0, ConstantsAssumption DEF ChargeFails, TypeOK
<1>2. CASE ran
  <2>1. Increment(d, call[c].seen) /\ Written(c, d)
    BY <1>2 DEF ChargeFails
  <2>2. /\ counter' \in [Days -> [n : Nat, expires : Nat]]
        /\ \A e \in Days : e # d => counter'[e] = counter[e]
    BY <1>1, <2>1, IncrementTyped
  <2>3. \A x \in Callers :
          /\ call'[x].at = "clean" => call'[x] = call[x] /\ call[x].day # d
          /\ call'[x].at # "idle" => call[x].at # "idle" /\ call'[x].day = call[x].day
          /\ call'[x] \in [at : {"idle", "clean", "dirty"}, day : Days, seen : Nat]
    BY <1>0, <2>1, ExecAborts
  <2>4. TypeOK'
    <3>1. call' \in [Callers -> [at : {"idle", "clean", "dirty"}, day : Days, seen : Nat]]
      BY <2>1, <2>3 DEF Written
    <3> QED
      BY <1>1, <2>2, <3>1 DEF TypeOK
  <2>5. \A x \in Callers : call[x].day \in Days
    BY DEF TypeOK
  <2>6. Fresh'
    BY <1>1, <2>2, <2>3, <2>5 DEF Fresh
  <2>7. Owned' /\ Admitted'
    BY <1>1, <2>3 DEF Owned, Admitted, Today
  <2> QED
    BY <2>4, <2>6, <2>7
<1>3. CASE ~ran
  <2>1. call' = [call EXCEPT ![c] = Idle] /\ counter' = counter
    BY <1>3 DEF ChargeFails
  <2>2. Idle \in [at : {"idle", "clean", "dirty"}, day : Days, seen : Nat]
    BY ConstantsAssumption, DaysInRange, DayBounds DEF Idle, Days
  <2>3. TypeOK' /\ \A x \in Callers : call'[x] = call[x] \/ call'[x] = Idle
    BY <1>0, <1>1, <2>1, <2>2 DEF TypeOK
  <2> QED
    BY <1>1, <2>1, <2>3, EndingKeeps
<1> QED
  BY <1>2, <1>3
LEMMA RefundExecKeeps ==
  ASSUME Transactions, NEW c \in Callers, RefundExec(c)
  PROVE  Transactions'
<1> DEFINE j == JobOf(c)
           d == call[c].day
           seen == call[c].seen
<1> USE DEF Transactions
<1>1. /\ j \in Jobs /\ d \in Days /\ seen \in Nat /\ seen = counter[d].n
      /\ Kind(c) # "charge" /\ home[j] # "none" /\ Decremented(d, seen) /\ Written(c, d)
      /\ marker' = [marker EXCEPT ![j] = now + MarkerTtl]
      /\ taken' = [taken EXCEPT ![j] = IF seen > 0 THEN @ + 1 ELSE @]
      /\ UNCHANGED <<now, memory, memMarker, apiRedis, home, day, faults, restarts>>
  BY CallerFacts DEF RefundExec, TypeOK, Owned, Fresh
<1>2. /\ counter' \in [Days -> [n : Nat, expires : Nat]]
      /\ \A e \in Days : e # d => counter'[e] = counter[e]
  <2>1. counter \in [Days -> [n : Nat, expires : Nat]] /\ counter[d] \in [n : Nat, expires : Nat]
    BY <1>1 DEF TypeOK
  <2> QED
    BY <1>1, <2>1 DEF Decremented
<1>3. \A x \in Callers :
        /\ call'[x].at = "clean" => /\ call'[x] = call[x] /\ call[x].day # d
                                    /\ Kind(x) # "charge" => JobOf(x) # j
        /\ call'[x].at # "idle" => call[x].at # "idle" /\ call'[x].day = call[x].day
        /\ call'[x] \in [at : {"idle", "clean", "dirty"}, day : Days, seen : Nat]
  BY <1>1, ExecAborts
<1>4. TypeOK'
  <2>1. call' \in [Callers -> [at : {"idle", "clean", "dirty"}, day : Days, seen : Nat]]
    BY <1>1, <1>3 DEF Written
  <2>2. marker' \in [Jobs -> Nat] /\ taken' \in [Jobs -> Nat]
    BY <1>1, ConstantsAssumption DEF TypeOK
  <2> QED
    BY <1>1, <1>2, <2>1, <2>2 DEF TypeOK
<1>5. Fresh'
  <2>1. \A x \in Callers : call[x].day \in Days /\ JobOf(x) \in Jobs
    BY CallerFacts DEF TypeOK
  <2>2. \A k \in Jobs : k # j => marker'[k] = marker[k]
    BY <1>1 DEF TypeOK
  <2> QED
    BY <1>2, <1>3, <2>1, <2>2 DEF Fresh
<1>6. Owned'
  BY <1>1, <1>3 DEF Owned, Today
<1>7. Admitted'
  BY <1>1 DEF Admitted, TypeOK, Today
<1> QED
  BY <1>4, <1>5, <1>6, <1>7

LEMMA TickKeeps ==
  ASSUME Transactions, Tick
  PROVE  Transactions'
<1> USE DEF Transactions
<1>1. /\ now' = now + 1 /\ now' \in 0..MaxTime /\ now \in 0..MaxTime
      /\ UNCHANGED <<memory, memMarker, apiRedis, home, day, taken, faults, restarts>>
  BY ConstantsAssumption DEF Tick, TypeOK
<1> DEFINE gone == {d \in Days : counter[d].expires # 0 /\ counter[d].expires <= now + 1}
           late == {j \in Jobs : marker[j] # 0 /\ marker[j] <= now + 1}
<1>2. /\ counter' = [d \in Days |-> IF d \in gone THEN Absent ELSE counter[d]]
      /\ marker' = [j \in Jobs |-> IF j \in late THEN 0 ELSE marker[j]]
      /\ call' = [c \in Callers |->
           IF /\ call[c].at # "idle"
              /\ call[c].day \in gone \/ (Kind(c) # "charge" /\ JobOf(c) \in late)
           THEN [call[c] EXCEPT !.at = "dirty"] ELSE call[c]]
  BY DEF Tick
<1>3. \A c \in Callers :
        /\ call'[c].day = call[c].day /\ call[c].day \in Days
        /\ call'[c] \in [at : {"idle", "clean", "dirty"}, day : Days, seen : Nat]
        /\ call'[c].at = "idle" <=> call[c].at = "idle"
        /\ call'[c].at = "clean" => /\ call'[c] = call[c] /\ call[c].day \notin gone
                                    /\ Kind(c) # "charge" => JobOf(c) \notin late
  <2>1. TAKE c \in Callers
  <2>2. call[c] \in [at : {"idle", "clean", "dirty"}, day : Days, seen : Nat]
    BY DEF TypeOK
  <2> QED
    BY <1>2, <2>2
<1>4. TypeOK'
  <2>1. call' \in [Callers -> [at : {"idle", "clean", "dirty"}, day : Days, seen : Nat]]
    BY <1>2, <1>3
  <2>2. counter' \in [Days -> [n : Nat, expires : Nat]] /\ marker' \in [Jobs -> Nat]
    BY <1>2 DEF TypeOK, Absent
  <2> QED
    BY <1>1, <2>1, <2>2 DEF TypeOK
<1>5. Fresh'
  <2>1. \A c \in Callers : JobOf(c) \in Jobs
    BY CallerFacts
  <2> QED
    BY <1>2, <1>3, <2>1 DEF Fresh
<1>6. Today \in Nat /\ Today' \in Nat /\ Today <= Today'
  BY <1>1, DaysGrow, DaysInRange, DayBounds DEF Today
<1>7. \A c \in Callers : call[c].day \in Nat
  BY <1>3 DEF Days
<1>8. Owned'
  BY <1>1, <1>3, <1>6, <1>7 DEF Owned
<1>9. Admitted'
  BY <1>1, <1>6 DEF Admitted, TypeOK, Days
<1> QED
  BY <1>4, <1>5, <1>8, <1>9

LEMMA MemoryKeeps ==
  ASSUME Transactions, NEW j \in Jobs, ChargeInMemory(j) \/ RefundInMemory(j)
  PROVE  Transactions'
<1> USE DEF Transactions
<1>1. now \in Nat /\ Today \in Days /\ DayLength \in Nat /\ MarkerTtl \in Nat
  BY DaysInRange, ConstantsAssumption DEF Today, TypeOK
<1>2. \A d \in Days : /\ memory[d] \in [n : Nat, expires : Nat]
                      /\ InMemory(d) \in [n : Nat, expires : Nat]
                      /\ InMemory(d).n > 0 => InMemory(d) = memory[d]
  BY DEF InMemory, Absent, TypeOK
<1>3. CASE ChargeInMemory(j)
  <2>1. /\ home[j] = "none" /\ call[<<"charge", j>>] = Idle
        /\ UNCHANGED <<now, counter, marker, memMarker, apiRedis, call, taken, faults, restarts>>
        /\ home' = [home EXCEPT ![j] = "memory"] /\ day' = [day EXCEPT ![j] = Today]
    BY <1>3 DEF ChargeInMemory, CanCharge, Today
  <2>2. memory' \in [Days -> [n : Nat, expires : Nat]]
    BY <1>1, <1>2, <1>3 DEF ChargeInMemory, Today, TypeOK
  <2>3. TypeOK'
    BY <1>1, <2>1, <2>2 DEF TypeOK
  <2>4. \A c \in Callers : call[c].at # "idle" => JobOf(c) \in Jobs /\ JobOf(c) # j
    BY <2>1, CallerFacts DEF Owned, Idle
  <2>5. \A k \in Jobs : k # j => home'[k] = home[k] /\ day'[k] = day[k]
    BY <2>1 DEF TypeOK
  <2>6. Owned'
    BY <2>1, <2>4, <2>5 DEF Owned, Today
  <2>7. Fresh'
    BY <2>1 DEF Fresh
  <2>8. Admitted'
    BY <1>1, <2>1 DEF Admitted, Today, TypeOK, Days
  <2> QED
    BY <2>3, <2>6, <2>7, <2>8
<1>4. CASE RefundInMemory(j)
  <2>1. /\ day[j] \in Days
        /\ UNCHANGED <<now, counter, marker, apiRedis, call, home, day, taken, faults, restarts>>
        /\ memMarker' = [memMarker EXCEPT ![j] = now + MarkerTtl]
        /\ \/ memory[day[j]].n > 0 /\ memory' = [memory EXCEPT ![day[j]].n = @ - 1]
           \/ memory' = memory
    BY <1>2, <1>4 DEF RefundInMemory, KeyOf, TypeOK
  <2>2. memory' \in [Days -> [n : Nat, expires : Nat]]
    <3>1. /\ memory \in [Days -> [n : Nat, expires : Nat]]
          /\ memory[day[j]] \in [n : Nat, expires : Nat]
      BY <2>1 DEF TypeOK
    <3>2. CASE memory[day[j]].n > 0 /\ memory' = [memory EXCEPT ![day[j]].n = @ - 1]
      BY <2>1, <3>1, <3>2
    <3> QED
      BY <2>1, <3>1, <3>2
  <2>3. TypeOK'
    BY <1>1, <2>1, <2>2 DEF TypeOK
  <2> QED
    BY <2>1, <2>3 DEF Fresh, Owned, Admitted, Today
<1> QED
  BY <1>3, <1>4

LEMMA RestartKeeps ==
  ASSUME Transactions, ApiRestart
  PROVE  Transactions'
<1> USE DEF Transactions
<1>1. /\ \A c \in Callers : call'[c] = call[c] \/ call'[c] = Idle
      /\ UNCHANGED <<now, counter, marker, home, day, taken>>
  BY DEF ApiRestart
<1>2. TypeOK'
  <2>1. Idle \in [at : {"idle", "clean", "dirty"}, day : Days, seen : Nat]
    BY ConstantsAssumption, DaysInRange, DayBounds DEF Idle, Days
  <2>2. call' \in [Callers -> [at : {"idle", "clean", "dirty"}, day : Days, seen : Nat]]
    BY <2>1 DEF ApiRestart, TypeOK
  <2>3. restarts' \in 0..MaxRestarts
    BY ConstantsAssumption DEF ApiRestart, TypeOK
  <2> QED
    BY <2>2, <2>3 DEF ApiRestart, TypeOK, Absent
<1> QED
  BY <1>1, <1>2, EndingKeeps
\* Types and transactions are kept by every step.
LEMMA TransactionsStep == Transactions /\ [Next]_vars => Transactions'
<1> SUFFICES ASSUME Transactions, [Next]_vars PROVE Transactions'
  OBVIOUS
<1> USE DEF Transactions
<1>1. Today \in Days /\ Today \in Nat
  BY DaysInRange, DayBounds DEF Today, TypeOK
<1>2. \A c \in Callers : /\ call[c].day \in Days
                         /\ JobOf(c) \in Jobs /\ day[JobOf(c)] \in Days
  BY CallerFacts DEF TypeOK
<1>3. Idle \in [at : {"idle", "clean", "dirty"}, day : Days, seen : Nat]
  BY ConstantsAssumption, DaysInRange, DayBounds DEF Idle, Days
<1>4. ASSUME NEW c \in Callers, call' = [call EXCEPT ![c] = Idle], faults' \in 0..MaxFaults,
             UNCHANGED <<now, counter, marker, memory, memMarker, apiRedis, home, day, taken,
                         restarts>>
      PROVE  Transactions'
  <2>1. TypeOK' /\ \A x \in Callers : call'[x] = call[x] \/ call'[x] = Idle
    BY <1>3, <1>4 DEF TypeOK
  <2> QED
    BY <1>4, <2>1, EndingKeeps
<1>5. CASE Tick
  BY <1>5, TickKeeps
<1>6. CASE ApiRestart
  BY <1>6, RestartKeeps
<1>7. ASSUME NEW j \in Jobs, ChargeReads(j)
      PROVE  Transactions'
  <2> DEFINE c == <<"charge", j>>
  <2>1. c \in Callers /\ Kind(c) = "charge" /\ JobOf(c) = j
    BY CallerFacts
  <2>2. /\ Begin(c, Today) /\ home[j] = "none" /\ counter[Today].n < Limit /\ Today <= Today
        /\ UNCHANGED <<now, counter, marker, memory, memMarker, apiRedis, home, day, taken,
                       faults, restarts>>
    BY <1>1, <1>7 DEF ChargeReads, CanCharge, Today
  <2> HIDE DEF Transactions, c
  <2> QED
    BY <1>1, <2>1, <2>2, BeginningKeeps
<1>8. ASSUME NEW j \in Jobs,
             \/ ChargeExec(j) \/ ChargeInMemory(j) \/ RefundInMemory(j)
             \/ \E ran \in BOOLEAN : ChargeFails(j, ran)
      PROVE  Transactions'
  BY <1>8, ChargeExecKeeps, MemoryKeeps, ChargeFailsKeeps
<1>9. ASSUME NEW c \in Callers, Retry(c)
      PROVE  Transactions'
  <2>1. /\ call[c].at # "idle" /\ faults' \in 0..MaxFaults
        /\ UNCHANGED <<now, counter, marker, memory, memMarker, apiRedis, home, day, taken,
                       faults, restarts>>
    BY <1>9 DEF Retry, TypeOK
  <2>2. CASE NothingLeft(c)
    BY <1>4, <1>9, <2>1, <2>2 DEF Retry
  <2>3. CASE ~NothingLeft(c)
    <3>1. Begin(c, call[c].day) /\ call[c].day <= Today
      BY <1>9, <2>1, <2>3 DEF Retry, Owned
    <3>2. Kind(c) = "charge" => home[JobOf(c)] = "none" /\ counter[call[c].day].n < Limit
      <4>1. counter[call[c].day].n \in Nat /\ Limit \in Nat
        BY <1>2, ConstantsAssumption DEF TypeOK
      <4> QED
        BY <2>1, <2>3, <4>1 DEF NothingLeft, Owned
    <3>3. Kind(c) # "charge" => /\ home[JobOf(c)] # "none" /\ call[c].day = day[JobOf(c)]
                                /\ marker[JobOf(c)] = 0
      BY <2>1, <2>3 DEF NothingLeft, Owned
    <3> HIDE DEF Transactions
    <3> QED
      BY <1>2, <2>1, <3>1, <3>2, <3>3, BeginningKeeps
  <2> QED
    BY <2>2, <2>3
<1>10. ASSUME NEW c \in Callers, ClientGone(c) \/ RefundRaises(c)
       PROVE  Transactions'
  <2>1. /\ call' = [call EXCEPT ![c] = Idle] /\ faults' \in 0..MaxFaults
        /\ UNCHANGED <<now, counter, marker, memory, memMarker, apiRedis, home, day, taken,
                       restarts>>
    BY <1>10, ConstantsAssumption DEF ClientGone, RefundRaises, TypeOK
  <2> QED
    BY <1>4, <2>1
<1>11. ASSUME NEW c \in Callers, RefundReads(c)
       PROVE  Transactions'
  <2>1. /\ Kind(c) # "charge" /\ home[JobOf(c)] # "none" /\ marker[JobOf(c)] = 0
        /\ Begin(c, day[JobOf(c)])
        /\ UNCHANGED <<now, counter, marker, memory, memMarker, apiRedis, home, day, taken,
                       faults, restarts>>
    BY <1>11 DEF RefundReads, UsesRedis, KeyOf
  <2>2. day[JobOf(c)] \in Days /\ day[JobOf(c)] <= Today
    BY <1>2, <2>1 DEF Admitted
  <2> HIDE DEF Transactions
  <2> QED
    BY <2>1, <2>2, BeginningKeeps
<1>12. ASSUME NEW c \in Callers, RefundExec(c)
       PROVE  Transactions'
  BY <1>12, RefundExecKeeps
<1>13. CASE UNCHANGED vars
  BY <1>13 DEF vars, TypeOK, Fresh, Owned, Admitted, Today
<1> QED
  BY <1>5, <1>6, <1>7, <1>8, <1>9, <1>10, <1>11, <1>12, <1>13 DEF Next

LEMMA StartsClean == Init => Transactions
<1>1. Init => Fresh /\ Owned /\ Admitted
  BY DEF Init, Fresh, Owned, Admitted, Idle
<1> QED
  BY <1>1, StartsTyped DEF Transactions

\* Every variable keeps its type, whatever fails and expires: no counter in
\* Redis is ever taken below zero (quota.py, refund_charge_once).
THEOREM TypeCorrect == Spec => []TypeOK
<1>1. Spec => []Transactions
  BY StartsClean, TransactionsStep, PTL DEF Spec
<1>2. Transactions => TypeOK
  BY DEF Transactions
<1> QED
  BY <1>1, <1>2, PTL
-----------------------------------------------------------------------------
(* Lifetimes.                                                              *)

\* Only six actions touch what the user is charged; the others leave it.
Ledger == <<now, counter, marker, home, day, taken>>

LEMMA StepShapes ==
  ASSUME TypeOK, [Next]_vars
  PROVE  \/ UNCHANGED Ledger /\ (faults' = 0 => faults = 0 /\ (apiRedis => apiRedis'))
         \/ Tick
         \/ \E j \in Jobs : \/ ChargeExec(j) \/ ChargeInMemory(j)
                            \/ \E ran \in BOOLEAN : ran /\ ChargeFails(j, ran)
         \/ \E c \in Callers : RefundExec(c)
<1> USE DEF Ledger
<1>1. faults \in Nat
  BY ConstantsAssumption DEF TypeOK
<1>2. CASE ApiRestart
  BY <1>2 DEF ApiRestart
<1>3. ASSUME NEW j \in Jobs, ChargeReads(j) \/ RefundInMemory(j)
      PROVE  UNCHANGED Ledger /\ faults' = faults /\ apiRedis' = apiRedis
  BY <1>3 DEF ChargeReads, RefundInMemory
<1>4. ASSUME NEW j \in Jobs, NEW ran \in BOOLEAN, ChargeFails(j, ran), ~ran
      PROVE  UNCHANGED Ledger /\ faults' # 0
  BY <1>1, <1>4 DEF ChargeFails
<1>5. ASSUME NEW c \in Callers, Retry(c) \/ ClientGone(c) \/ RefundReads(c)
      PROVE  UNCHANGED Ledger /\ faults' = faults /\ apiRedis' = apiRedis
  BY <1>5 DEF Retry, ClientGone, RefundReads
<1>6. ASSUME NEW c \in Callers, RefundRaises(c)
      PROVE  UNCHANGED Ledger /\ faults' # 0
  BY <1>1, <1>6 DEF RefundRaises
<1>7. CASE UNCHANGED vars
  BY <1>7 DEF vars
<1> QED
  BY <1>2, <1>3, <1>4, <1>5, <1>6, <1>7 DEF Next

\* A clean charge puts one on the counter of its day, which it has found
\* below the limit; the day is not one to come.
Raised(j, d) ==
  /\ d \in Days /\ d <= Today
  /\ counter' \in [Days -> [n : Nat, expires : Nat]]
  /\ \A e \in Days : e # d => counter'[e] = counter[e]
  /\ counter[d].n < Limit /\ counter'[d].n = counter[d].n + 1
  /\ counter'[d].expires = IF counter[d].n = 0 THEN now + DayLength ELSE counter[d].expires
  /\ home[j] = "none"

LEMMA ChargeRaises ==
  ASSUME Transactions, NEW j \in Jobs,
         ChargeExec(j) \/ \E ran \in BOOLEAN : ran /\ ChargeFails(j, ran)
  PROVE  Raised(j, call[<<"charge", j>>].day)
<1> DEFINE c == <<"charge", j>>
           d == call[c].day
<1>1. c \in Callers /\ Kind(c) = "charge" /\ JobOf(c) = j
  BY CallerFacts
<1>2. call[c].at = "clean" /\ Increment(d, call[c].seen)
  BY DEF ChargeExec, ChargeFails
<1>3. /\ d \in Days /\ call[c].seen \in Nat /\ d <= Today /\ home[j] = "none"
      /\ call[c].seen = counter[d].n /\ counter[d].n < Limit
  BY <1>1, <1>2 DEF Transactions, TypeOK, Fresh, Owned
<1> QED
  BY <1>2, <1>3, IncrementTyped DEF Raised, Transactions

\* A clean refund takes one off the counter of the day of its charge, unless
\* nothing is left, and marks the job.
Lowered(j, d) ==
  /\ j \in Jobs /\ d \in Days /\ day[j] = d /\ home[j] # "none" /\ marker[j] = 0
  /\ counter' \in [Days -> [n : Nat, expires : Nat]]
  /\ \A e \in Days : e # d => counter'[e] = counter[e]
  /\ counter'[d].expires = counter[d].expires
  /\ counter'[d].n = IF counter[d].n > 0 THEN counter[d].n - 1 ELSE 0
  /\ marker' = [marker EXCEPT ![j] = now + MarkerTtl]
  /\ taken' = [taken EXCEPT ![j] = IF counter[d].n > 0 THEN taken[j] + 1 ELSE taken[j]]
  /\ UNCHANGED <<now, apiRedis, home, day, faults>>

LEMMA RefundLowers ==
  ASSUME Transactions, NEW c \in Callers, RefundExec(c)
  PROVE  Lowered(JobOf(c), call[c].day)
<1> DEFINE j == JobOf(c)
           d == call[c].day
<1>1. /\ j \in Jobs /\ d \in Days /\ day[j] = d /\ home[j] # "none" /\ marker[j] = 0
      /\ call[c].seen = counter[d].n
      /\ counter[d] \in [n : Nat, expires : Nat] /\ counter \in [Days -> [n : Nat, expires : Nat]]
  BY CallerFacts DEF RefundExec, Transactions, TypeOK, Fresh, Owned
<1>2. counter' = IF counter[d].n > 0 THEN [counter EXCEPT ![d].n = @ - 1] ELSE counter
  BY <1>1 DEF RefundExec, Decremented
<1>3. /\ counter' \in [Days -> [n : Nat, expires : Nat]]
      /\ \A e \in Days : e # d => counter'[e] = counter[e]
      /\ counter'[d].expires = counter[d].expires
      /\ counter'[d].n = IF counter[d].n > 0 THEN counter[d].n - 1 ELSE 0
  BY <1>1, <1>2
<1>4. /\ marker' = [marker EXCEPT ![j] = now + MarkerTtl]
      /\ taken' = [taken EXCEPT ![j] = IF counter[d].n > 0 THEN taken[j] + 1 ELSE taken[j]]
      /\ UNCHANGED <<now, apiRedis, home, day, faults>>
  BY <1>1 DEF RefundExec
<1> QED
  BY <1>1, <1>3, <1>4 DEF Lowered

\* A tick removes exactly what has expired.
LEMMA TickExpires ==
  ASSUME TypeOK, Tick
  PROVE  /\ now \in Nat /\ now' = now + 1 /\ now' \in 0..MaxTime
         /\ Today \in Nat /\ Today' \in Nat /\ Today <= Today'
         /\ \A d \in Days :
              IF counter[d].expires # 0 /\ counter[d].expires <= now + 1
              THEN counter'[d] = Absent ELSE counter'[d] = counter[d]
         /\ \A j \in Jobs :
              IF marker[j] # 0 /\ marker[j] <= now + 1
              THEN marker'[j] = 0 ELSE marker'[j] = marker[j]
         /\ UNCHANGED <<home, day, taken, faults, apiRedis>>
<1>1. now \in 0..MaxTime /\ now' = now + 1 /\ now' \in 0..MaxTime
  BY ConstantsAssumption DEF Tick, TypeOK
<1>2. Today \in Nat /\ Today' \in Nat /\ Today <= Today'
  BY <1>1, DaysGrow, DaysInRange, DayBounds DEF Today
<1> QED
  BY <1>1, <1>2 DEF Tick

Lifetimes == Lasting /\ Bounded

LEMMA LifetimesStep == Transactions /\ Lifetimes /\ [Next]_vars => Lifetimes'
<1> SUFFICES ASSUME Transactions, Lifetimes, [Next]_vars PROVE Lifetimes'
  OBVIOUS
<1> USE DEF Lifetimes
<1>1. /\ TypeOK /\ now \in Nat /\ Today \in Nat /\ Limit \in Nat \ {0} /\ DayLength \in Nat \ {0}
      /\ \A d \in Days : d \in Nat /\ counter[d] \in [n : Nat, expires : Nat] /\ EndOf(d) \in Nat
  <2>1. TypeOK /\ now \in Nat /\ Today \in Nat /\ Limit \in Nat \ {0} /\ DayLength \in Nat \ {0}
    BY DayBounds, ConstantsAssumption DEF Transactions, TypeOK, Today
  <2>2. \A d \in Days : d \in Nat /\ counter[d] \in [n : Nat, expires : Nat]
    <3>1. \A d \in Days : d \in Nat
      BY DEF Days
    <3> QED
      BY <2>1, <3>1 DEF TypeOK
  <2>3. \A d \in Nat : EndOf(d) \in Nat
    BY EndsGrow
  <2> QED
    BY <2>1, <2>2, <2>3
<1>2. CASE UNCHANGED Ledger
  BY <1>2 DEF Ledger, Lasting, Bounded, Today
<1>3. CASE Tick
  <2>1. ASSUME NEW d \in Days, counter'[d] # Absent
        PROVE  counter'[d] = counter[d] /\ (counter[d].expires # 0 => counter[d].expires > now')
    BY <1>1, <1>3, <2>1, TickExpires
  <2>2. /\ Today' \in Nat /\ Today <= Today'
    BY <1>1, <1>3, TickExpires
  <2> QED
    BY <1>1, <2>1, <2>2 DEF Lasting, Bounded, Absent
<1>4. ASSUME NEW j \in Jobs, ChargeExec(j) \/ \E ran \in BOOLEAN : ran /\ ChargeFails(j, ran)
      PROVE  Lifetimes'
  <2>1. PICK d \in Days : Raised(j, d)
    BY <1>4, ChargeRaises DEF Raised
  <2>2. now' = now /\ Today' = Today
    BY <1>4 DEF ChargeExec, ChargeFails, Today
  <2>3. now + DayLength >= EndOf(d)
    <3>1. EndOf(d) <= EndOf(Today) /\ EndOf(Today) = Today * DayLength + DayLength
          /\ Today * DayLength <= now
      BY <1>1, <2>1, EndsGrow, DayBounds DEF Today, Raised
    <3>2. Today * DayLength \in Nat
      BY <1>1
    <3> QED
      BY <1>1, <3>1, <3>2
  <2>4. \A e \in Days : counter'[e] \in [n : Nat, expires : Nat]
    BY <2>1 DEF Raised
  <2> QED
    BY <1>1, <2>1, <2>2, <2>3, <2>4 DEF Raised, Lasting, Bounded
<1>5. ASSUME NEW j \in Jobs, ChargeInMemory(j)
      PROVE  Lifetimes'
  BY <1>5 DEF ChargeInMemory, Lasting, Bounded, Today
<1>6. ASSUME NEW c \in Callers, RefundExec(c)
      PROVE  Lifetimes'
  <2>1. PICK j \in Jobs, d \in Days : Lowered(j, d)
    BY <1>6, RefundLowers DEF Lowered
  <2> QED
    BY <1>1, <2>1 DEF Lowered, Lasting, Bounded, Today
<1> QED
  BY <1>1, <1>2, <1>3, <1>4, <1>5, <1>6, StepShapes
\* No counter outlives its day without an expiry, none is above the limit:
\* what a charge or a refund reads, also after an error or a restart, is a
\* count the day can have (quota.py, charge).
THEOREM CountersExpire == Spec => [](Lasting /\ Bounded)
<1>1. Init => Lifetimes
  BY ConstantsAssumption DEF Init, Lifetimes, Lasting, Bounded, Absent
<1>2. Spec => [](Transactions /\ Lifetimes)
  BY <1>1, StartsClean, TransactionsStep, LifetimesStep, PTL DEF Spec
<1> QED
  BY <1>2, PTL DEF Lifetimes
-----------------------------------------------------------------------------
(* Refunds.                                                                *)

LEMMA MarkedStep ==
  ASSUME MarkersLast
  PROVE  Transactions /\ Marked /\ [Next]_vars => Marked'
<1> SUFFICES ASSUME Transactions, Marked, [Next]_vars PROVE Marked'
  OBVIOUS
<1>1. /\ TypeOK /\ now \in Nat /\ Today \in Nat /\ MarkerTtl \in Nat /\ DayLength \in Nat
  BY DayBounds, ConstantsAssumption DEF Transactions, TypeOK, Today
<1>2. \A j \in Jobs : day[j] \in Nat /\ taken[j] \in Nat /\ marker[j] \in Nat
  <2>1. \A d \in Days : d \in Nat
    BY DEF Days
  <2> QED
    BY <1>1, <2>1 DEF TypeOK
<1>3. CASE UNCHANGED Ledger
  BY <1>3 DEF Ledger, Marked, Today
<1>4. CASE Tick
  <2>1. SUFFICES ASSUME NEW j \in Jobs, day'[j] = Today', taken'[j] # 0
                 PROVE  taken'[j] = 1 /\ marker'[j] >= EndOf(day'[j])
    BY DEF Marked
  <2>2. /\ day' = day /\ taken' = taken /\ Today' \in Nat /\ Today <= Today' /\ now' \in Nat
        /\ IF marker[j] # 0 /\ marker[j] <= now' THEN marker'[j] = 0 ELSE marker'[j] = marker[j]
    BY <1>1, <1>4, TickExpires
  <2>3. day[j] <= Today
    BY <2>1, <2>2 DEF Transactions, Admitted
  <2>4. day[j] = Today
    BY <1>1, <1>2, <2>1, <2>2, <2>3
  <2>5. taken[j] = 1 /\ marker[j] >= EndOf(day[j])
    BY <2>1, <2>2, <2>4 DEF Marked
  <2>6. now' < EndOf(day[j]) /\ EndOf(day[j]) \in Nat
    BY <1>2, <2>1, <2>2, DayBounds, EndsGrow DEF Today
  <2> QED
    BY <1>2, <2>2, <2>5, <2>6
<1>5. ASSUME NEW j \in Jobs, ChargeExec(j) \/ ChargeInMemory(j)
      PROVE  Marked'
  <2>1. home[j] = "none" /\ taken[j] = 0
    <3>1. home[j] = "none"
      BY <1>5, ChargeRaises DEF ChargeInMemory, CanCharge, Raised
    <3> QED
      BY <3>1 DEF Transactions, Admitted
  <2>2. /\ now' = now /\ taken' = taken /\ marker' = marker
        /\ \A k \in Jobs : k # j => day'[k] = day[k]
    BY <1>1, <1>5 DEF ChargeExec, ChargeInMemory, TypeOK
  <2> QED
    BY <2>1, <2>2 DEF Marked, Today
<1>6. ASSUME NEW j \in Jobs, NEW ran \in BOOLEAN, ChargeFails(j, ran)
      PROVE  Marked'
  BY <1>6 DEF ChargeFails, Marked, Today
<1>7. ASSUME NEW c \in Callers, RefundExec(c)
      PROVE  Marked'
  <2>1. PICK j \in Jobs, d \in Days : Lowered(j, d)
    BY <1>7, RefundLowers DEF Lowered
  <2>2. /\ day[j] = d /\ marker[j] = 0 /\ now' = now /\ day' = day /\ Today' = Today
        /\ marker'[j] = now + MarkerTtl
        /\ taken'[j] = taken[j] \/ taken'[j] = taken[j] + 1
        /\ \A k \in Jobs : k # j => marker'[k] = marker[k] /\ taken'[k] = taken[k]
    BY <1>1, <2>1 DEF Lowered, TypeOK, Today
  <2>3. ASSUME day[j] = Today
        PROVE  taken[j] = 0 /\ now + MarkerTtl >= EndOf(day[j])
    <3>1. EndOf(Today) = Today * DayLength + DayLength /\ Today * DayLength <= now
          /\ now < EndOf(Today) /\ EndOf(Today) \in Nat /\ Today * DayLength \in Nat
      BY <1>1, DayBounds, EndsGrow DEF Today
    <3>2. now + MarkerTtl >= EndOf(day[j])
      BY <1>1, <2>3, <3>1 DEF MarkersLast
    <3>3. taken[j] = 0
      BY <1>1, <2>2, <2>3, <3>1 DEF Marked
    <3> QED
      BY <3>2, <3>3
  <2> QED
    BY <1>2, <2>2, <2>3 DEF Marked
<1> QED
  BY <1>1, <1>3, <1>4, <1>5, <1>6, <1>7, StepShapes

\* A job gives at most one slot back on the day it was charged, whatever
\* fails and however often either process tries again: if its marker lives
\* as long as the day (quota.py, refund_charge_once).
THEOREM SlotReturnedOnce ==
  ASSUME MarkersLast
  PROVE  Spec => []RefundedOnce
<1>1. Init => Marked
  BY DEF Init, Marked
<1>2. Transactions /\ Marked => RefundedOnce
  <2>1. Marked /\ (\A j \in Jobs : taken[j] \in Nat) => RefundedOnce
    BY DEF Marked, RefundedOnce, Today
  <2> QED
    BY <2>1 DEF Transactions, TypeOK
<1> QED
  BY <1>1, <1>2, StartsClean, TransactionsStep, MarkedStep, PTL DEF Spec
-----------------------------------------------------------------------------
(* The counter of today.                                                   *)

Counted == Undisturbed /\ Exact

LEMMA UndisturbedStep == TypeOK /\ Undisturbed /\ [Next]_vars => Undisturbed'
<1> SUFFICES ASSUME TypeOK, Undisturbed, [Next]_vars, faults' = 0
             PROVE  apiRedis' /\ \A j \in Jobs : home'[j] # "memory"
  BY DEF Undisturbed
<1>1. CASE UNCHANGED Ledger /\ faults = 0 /\ (apiRedis => apiRedis')
  BY <1>1 DEF Undisturbed, Ledger
<1>2. CASE Tick
  BY <1>2 DEF Tick, Undisturbed
<1>3. ASSUME NEW j \in Jobs, ChargeExec(j)
      PROVE  apiRedis' /\ \A k \in Jobs : home'[k] # "memory"
  BY <1>3 DEF ChargeExec, Undisturbed, TypeOK
<1>4. ASSUME NEW j \in Jobs, ChargeInMemory(j) \/ \E ran \in BOOLEAN : ChargeFails(j, ran)
      PROVE  FALSE
  <2>1. faults \in Nat
    BY ConstantsAssumption DEF TypeOK
  <2> QED
    BY <1>4, <2>1 DEF ChargeInMemory, ChargeFails, Undisturbed
<1>5. ASSUME NEW c \in Callers, RefundExec(c)
      PROVE  apiRedis' /\ \A k \in Jobs : home'[k] # "memory"
  BY <1>5 DEF RefundExec, Undisturbed
<1> QED
  BY <1>1, <1>2, <1>3, <1>4, <1>5, StepShapes

LEMMA ExactStep ==
  ASSUME Transactions, Lifetimes, Marked, Undisturbed, Exact, [Next]_vars, faults' = 0
  PROVE  IsFiniteSet(Holding(Today))' /\ (counter[Today].n = Cardinality(Holding(Today)))'
<1> DEFINE held == Holding(Today)
<1>1. /\ TypeOK /\ now \in Nat /\ Today \in Nat /\ Today \in Days
      /\ \A d \in Days : counter[d].n \in Nat
  BY DaysInRange, DayBounds DEF Transactions, TypeOK, Today
<1>2. faults = 0 =>
        /\ IsFiniteSet(held) /\ counter[Today].n = Cardinality(held)
        /\ apiRedis /\ \A j \in Jobs : home[j] # "memory"
  BY DEF Exact, Undisturbed
<1>3. CASE UNCHANGED Ledger /\ faults = 0
  <2>1. held' = held /\ counter' = counter /\ Today' = Today
    BY <1>3 DEF Ledger, Holding, Today
  <2> QED
    BY <1>2, <1>3, <2>1
<1>4. CASE Tick
  <2>1. /\ UNCHANGED <<home, day, taken>> /\ faults = 0 /\ now' \in Nat
        /\ Today' \in Nat /\ Today <= Today' /\ Today' \in Days
        /\ \A d \in Days :
             IF counter[d].expires # 0 /\ counter[d].expires <= now'
             THEN counter'[d] = Absent ELSE counter'[d] = counter[d]
    BY <1>1, <1>4, TickExpires, DaysInRange DEF Today
  <2>2. CASE Today' = Today
    <3>1. counter[Today].expires # 0 => counter[Today].expires > now'
      <4>1. now' < EndOf(Today)
        BY <2>1, <2>2, DayBounds DEF Today
      <4>2. counter[Today].expires # 0 => counter[Today].expires >= EndOf(Today)
        BY <1>1 DEF Lifetimes, Lasting
      <4>3. counter[Today].expires \in Nat /\ EndOf(Today) \in Nat
        BY <1>1, EndsGrow DEF TypeOK
      <4> QED
        BY <2>1, <4>1, <4>2, <4>3
    <3>2. counter[Today].expires \in Nat
      BY <1>1 DEF TypeOK
    <3>3. counter'[Today] = counter[Today]
      BY <1>1, <2>1, <3>1, <3>2
    <3>4. held' = held
      BY <2>1, <2>2 DEF Holding
    <3> QED
      BY <1>2, <2>1, <2>2, <3>3, <3>4
  <2>3. CASE Today' # Today
    <3>1. Today' > Today
      BY <1>1, <2>1, <2>3
    <3>2. held' = {}
      <4>1. \A j \in Jobs : home[j] = "redis" => day[j] <= Today
        BY DEF Transactions, Admitted
      <4>2. \A j \in Jobs : home[j] = "redis" => day[j] # Today'
        <5>1. \A j \in Jobs : day[j] \in Nat
          BY <1>1 DEF TypeOK, Days
        <5> QED
          BY <1>1, <2>1, <3>1, <4>1, <5>1
      <4> QED
        BY <2>1, <4>2 DEF Holding
    <3>3. counter'[Today'].n = 0
      BY <2>1, <3>1 DEF Lifetimes, Lasting, Absent
    <3> QED
      BY <3>2, <3>3, FS_EmptySet
  <2> QED
    BY <2>2, <2>3
<1>5. ASSUME NEW j \in Jobs, ChargeExec(j)
      PROVE  IsFiniteSet(held)' /\ (counter[Today].n = Cardinality(held))'
  <2> DEFINE d == call[<<"charge", j>>].day
  <2>1. /\ Raised(j, d) /\ faults = 0 /\ taken' = taken /\ now' = now /\ Today' = Today
        /\ home' = [home EXCEPT ![j] = "redis"] /\ day' = [day EXCEPT ![j] = d]
    BY <1>5, ChargeRaises DEF ChargeExec, Today
  <2>2. taken[j] = 0 /\ j \notin held
    BY <2>1 DEF Raised, Transactions, Admitted, Holding
  <2>3. CASE d = Today
    <3>1. held' = held \cup {j}
      BY <1>1, <2>1, <2>2, <2>3 DEF Holding, TypeOK
    <3>2. IsFiniteSet(held') /\ Cardinality(held') = Cardinality(held) + 1
      BY <1>2, <2>1, <2>2, <3>1, FS_AddElement
    <3> QED
      BY <1>2, <2>1, <2>3, <3>2 DEF Raised
  <2>4. CASE d # Today
    <3>1. held' = held
      BY <1>1, <2>1, <2>2, <2>4 DEF Holding, TypeOK
    <3> QED
      BY <1>1, <1>2, <2>1, <2>4, <3>1 DEF Raised
  <2> QED
    BY <2>3, <2>4
<1>6. ASSUME NEW j \in Jobs, ChargeInMemory(j) \/ \E ran \in BOOLEAN : ChargeFails(j, ran)
      PROVE  FALSE
  <2>1. faults \in Nat
    BY <1>1, ConstantsAssumption DEF TypeOK
  <2> QED
    BY <1>2, <1>6, <2>1 DEF ChargeInMemory, ChargeFails
<1>7. ASSUME NEW c \in Callers, RefundExec(c)
      PROVE  IsFiniteSet(held)' /\ (counter[Today].n = Cardinality(held))'
  <2>1. PICK j \in Jobs, d \in Days : Lowered(j, d)
    BY <1>7, RefundLowers DEF Lowered
  <2>2. /\ day[j] = d /\ marker[j] = 0 /\ home[j] = "redis" /\ faults = 0
        /\ Today' = Today /\ home' = home /\ day' = day
        /\ \A k \in Jobs : k # j => taken'[k] = taken[k]
        /\ taken'[j] = IF counter[d].n > 0 THEN taken[j] + 1 ELSE taken[j]
    BY <1>1, <1>2, <2>1 DEF Lowered, TypeOK, Today
  <2>3. CASE d = Today
    <3>1. taken[j] = 0
      <4>1. taken[j] # 0 => marker[j] >= EndOf(Today)
        BY <2>2, <2>3 DEF Marked
      <4>2. EndOf(Today) \in Nat /\ EndOf(Today) > 0
        BY <1>1, DayBounds, EndsGrow DEF Today
      <4> QED
        BY <2>2, <4>1, <4>2
    <3>2. j \in held
      BY <2>2, <2>3, <3>1 DEF Holding
    <3>3. counter[d].n > 0
      <4>1. Cardinality(held) # 0
        BY <1>2, <2>2, <3>2, FS_EmptySet
      <4> QED
        BY <1>1, <1>2, <2>2, <2>3, <4>1
    <3>4. held' = held \ {j}
      BY <2>2, <2>3, <3>1, <3>3 DEF Holding
    <3>5. IsFiniteSet(held') /\ Cardinality(held') = Cardinality(held) - 1
      BY <1>2, <2>2, <3>2, <3>4, FS_RemoveElement
    <3> QED
      BY <1>2, <2>1, <2>2, <2>3, <3>3, <3>5 DEF Lowered
  <2>4. CASE d # Today
    <3>1. held' = held
      BY <2>2, <2>4 DEF Holding
    <3> QED
      BY <1>1, <1>2, <2>1, <2>2, <2>4, <3>1 DEF Lowered
  <2> QED
    BY <2>3, <2>4
<1> QED
  BY <1>1, <1>3, <1>4, <1>5, <1>6, <1>7, StepShapes

\* QuotaInv is inductive when markers last.
LEMMA QuotaInvariant ==
  ASSUME MarkersLast
  PROVE  Spec => []QuotaInv
<1>1. Init => Lifetimes /\ Marked /\ Undisturbed /\ Exact
  <2>1. Init => Lifetimes /\ Marked /\ Undisturbed
    BY ConstantsAssumption DEF Init, Lifetimes, Lasting, Bounded, Absent, Marked, Undisturbed
  <2>2. Init => Holding(Today) = {} /\ Today \in Days /\ counter[Today].n = 0
    BY ConstantsAssumption, DaysInRange DEF Init, Holding, Absent, Today
  <2> QED
    BY <2>1, <2>2, FS_EmptySet DEF Exact
<1>2. QuotaInv /\ [Next]_vars => QuotaInv'
  <2> SUFFICES ASSUME QuotaInv, [Next]_vars PROVE QuotaInv'
    OBVIOUS
  <2>1. Transactions /\ Lifetimes /\ Marked /\ Undisturbed /\ Exact /\ TypeOK
    BY DEF QuotaInv, Lifetimes, Transactions
  <2>2. Transactions' /\ Lifetimes' /\ Marked' /\ Undisturbed'
    BY <2>1, TransactionsStep, LifetimesStep, MarkedStep, UndisturbedStep
  <2>3. Exact'
    BY <2>1, ExactStep DEF Exact
  <2> QED
    BY <2>2, <2>3 DEF QuotaInv, Lifetimes
<1>3. Init => QuotaInv
  BY <1>1, StartsClean DEF QuotaInv, Lifetimes
<1> QED
  BY <1>2, <1>3, PTL DEF Spec

\* As long as no call to Redis has failed, the counter of the day is the
\* number of jobs that hold a slot, however charges and refunds of both
\* processes interleave and whenever keys expire; and a counter above zero
\* always has an expiry (quota.py, charge and refund_charge_once).
THEOREM CounterIsExact ==
  ASSUME MarkersLast
  PROVE  Spec => []CounterExact
<1>1. QuotaInv => CounterExact
  BY DEF QuotaInv, Exact, Lasting, CounterExact, Today
<1> QED
  BY <1>1, QuotaInvariant, PTL

\* The jobs that hold a slot of the day are never more than its limit
\* (quota.py, charge).
THEOREM LimitIsHeld ==
  ASSUME MarkersLast
  PROVE  Spec => []LimitHolds
<1>1. QuotaInv => LimitHolds
  <2> SUFFICES ASSUME QuotaInv, faults = 0 PROVE Cardinality(Holding(Today)) <= Limit
    BY DEF LimitHolds, Today
  <2>1. Today \in Days
    BY DaysInRange DEF QuotaInv, Transactions, TypeOK, Today
  <2> QED
    BY <2>1 DEF QuotaInv, Exact, Bounded
<1> QED
  BY <1>1, QuotaInvariant, PTL
=============================================================================
