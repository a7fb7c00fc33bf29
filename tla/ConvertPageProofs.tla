------------------------- MODULE ConvertPageProofs -------------------------
(***************************************************************************)
(* Safety of the page /convert, for any files, any number of submissions,  *)
(* any number of overlapping activations of the poll and of failed reads.  *)
(*                                                                         *)
(* First the list of jobs alone (JobList), then the page as an             *)
(* implementation of it, and last the dialog: it lists everything under    *)
(* submission, and a file of which the user knows a job only beside a      *)
(* namesake (Beside); rows, jobs and previews correspond (Corresponds).    *)
(***************************************************************************)
EXTENDS ConvertPage, FiniteSetTheorems, SequenceTheorems, TLAPS

(* What a poll has collected is never older than what the row shows, and   *)
(* only the one poll under way has collected anything.                     *)
PollInv ==
  /\ TypeOK
  /\ OnePoll
  /\ \A p \in Polls : poll[p].active => polling
  /\ \A p \in Polls : ~poll[p].active => poll[p].todo = {} /\ DOMAIN poll[p].patches = {}
  /\ \A j \in Jobs : shown[j] <= server[j]
  /\ \A p \in Polls : \A j \in DOMAIN poll[p].patches :
       \/ poll[p].patches[j] = NoRead
       \/ shown[j] <= poll[p].patches[j] /\ poll[p].patches[j] <= server[j]

ListInv == PollInv /\ ActiveIsPolled

(* A map of patches is a function over jobs into statuses.                 *)
LEMMA PatchMapIntro ==
  ASSUME NEW S \in SUBSET Jobs, NEW f \in [S -> Statuses]
  PROVE  f \in PatchMaps
BY DEF PatchMaps

LEMMA PatchMapElim ==
  ASSUME NEW f \in PatchMaps
  PROVE  f \in [DOMAIN f -> Statuses] /\ DOMAIN f \subseteq Jobs
BY DEF PatchMaps

LEMMA IdleIsTyped ==
  /\ Idle \in [todo : SUBSET rows, patches : PatchMaps, active : BOOLEAN]
  /\ Idle.todo = {} /\ DOMAIN Idle.patches = {} /\ Idle.active = FALSE
<1> DEFINE none == [j \in {} |-> 0]
<1>0. none \in [{} -> Statuses] /\ DOMAIN none = {}
  OBVIOUS
<1> HIDE DEF none
<1>1. none \in PatchMaps
  BY <1>0 DEF PatchMaps
<1>2. Idle = [todo |-> {}, patches |-> none, active |-> FALSE]
  BY DEF Idle, none
<1> QED
  BY <1>0, <1>1, <1>2

LEMMA Initially == Init => ListInv
<1> SUFFICES ASSUME Init PROVE ListInv
  OBVIOUS
<1>2. \A p \in Polls : ~poll[p].active /\ poll[p].todo = {} /\ DOMAIN poll[p].patches = {}
  BY IdleIsTyped DEF Init
<1>1. TypeOK
  <2>1. poll \in [Polls -> [todo : SUBSET rows, patches : PatchMaps, active : BOOLEAN]]
    BY IdleIsTyped DEF Init
  <2>2. 0 \in Progress /\ 0 \in 0..MaxErrors
    BY ConstantsAssumption DEF Progress
  <2>3. \A p \in Polls : DOMAIN poll[p].patches \subseteq rows
    BY <1>2
  <2>4. server \in [Jobs -> Progress] /\ shown \in [Jobs -> Progress]
    BY <2>2 DEF Init
  <2>5. rows \subseteq Jobs /\ failing \subseteq rows /\ expanded \subseteq rows
    BY DEF Init
  <2>6. timer \in BOOLEAN /\ polling \in BOOLEAN /\ mounted \in BOOLEAN
    BY DEF Init
  <2>7. errors \in 0..MaxErrors
    BY <2>2 DEF Init
  <2> QED
    BY <2>1, <2>3, <2>4, <2>5, <2>6, <2>7 DEF TypeOK
<1>3. \A j \in Jobs : shown[j] <= server[j]
  <2> TAKE j \in Jobs
  <2>1. shown[j] = server[j] /\ shown[j] \in Nat
    BY DEF Init
  <2> QED
    BY <2>1
<1>4. ActiveIsPolled
  BY DEF Init, ActiveIsPolled, ActiveRows
<1>5. OnePoll
  BY <1>2 DEF OnePoll
<1>6. \A p \in Polls : \A j \in DOMAIN poll[p].patches :
       \/ poll[p].patches[j] = NoRead
       \/ shown[j] <= poll[p].patches[j] /\ poll[p].patches[j] <= server[j]
  BY <1>2
<1> QED
  BY <1>1, <1>2, <1>3, <1>4, <1>5, <1>6 DEF ListInv, PollInv

(* One read adds one patch to the poll it belongs to.                      *)
LEMMA Collected ==
  ASSUME TypeOK, NEW p \in Polls, NEW j \in poll[p].todo, NEW answer \in Statuses,
         Collect(p, j, answer)
  PROVE  /\ poll' \in [Polls -> [todo : SUBSET rows, patches : PatchMaps, active : BOOLEAN]]
         /\ \A q \in Polls \ {p} : poll'[q] = poll[q]
         /\ poll'[p].active = poll[p].active
         /\ poll'[p].todo \subseteq poll[p].todo
         /\ DOMAIN poll'[p].patches = DOMAIN poll[p].patches \cup {j}
         /\ \A k \in DOMAIN poll'[p].patches :
              poll'[p].patches[k] = IF k = j THEN answer ELSE poll[p].patches[k]
<1> DEFINE old == poll[p].patches
           new == [k \in DOMAIN old \cup {j} |-> IF k = j THEN answer ELSE old[k]]
<1>0. poll \in [Polls -> [todo : SUBSET rows, patches : PatchMaps, active : BOOLEAN]]
  BY DEF TypeOK
<1>1. old \in PatchMaps /\ j \in rows /\ rows \subseteq Jobs
  BY <1>0 DEF TypeOK
<1>2. new \in PatchMaps
  <2>1. old \in [DOMAIN old -> Statuses] /\ DOMAIN old \subseteq Jobs
    BY <1>1, PatchMapElim
  <2>2. new \in [DOMAIN old \cup {j} -> Statuses]
    BY <2>1
  <2> QED
    BY <1>1, <2>1, <2>2, PatchMapIntro
<1>3. poll' = [poll EXCEPT ![p] = [todo |-> poll[p].todo \ {j}, patches |-> new,
                                   active |-> poll[p].active]]
  BY <1>0 DEF Collect
<1>4. poll'[p] = [todo |-> poll[p].todo \ {j}, patches |-> new, active |-> poll[p].active]
  BY <1>0, <1>3
<1> HIDE DEF new
<1>5. DOMAIN new = DOMAIN old \cup {j}
       /\ \A k \in DOMAIN new : new[k] = IF k = j THEN answer ELSE old[k]
  BY DEF new
<1>6. poll' \in [Polls -> [todo : SUBSET rows, patches : PatchMaps, active : BOOLEAN]]
  BY <1>0, <1>2, <1>3
<1> QED
  BY <1>0, <1>3, <1>4, <1>5, <1>6

LEMMA Finished ==
  ASSUME TypeOK, NEW p \in Polls, Finish(p)
  PROVE  /\ polling' = FALSE
         /\ poll' \in [Polls -> [todo : SUBSET rows, patches : PatchMaps, active : BOOLEAN]]
         /\ \A q \in Polls \ {p} : poll'[q] = poll[q]
         /\ poll'[p].active = FALSE /\ poll'[p].todo = {} /\ DOMAIN poll'[p].patches = {}
BY IdleIsTyped DEF Finish, TypeOK

(* What ApplyPoll writes to the rows is at least what they showed and at   *)
(* most what the server has reached.                                       *)
LEMMA PatchedBounds ==
  ASSUME PollInv, NEW p \in Polls
  PROVE  /\ Patched(p) \in [Jobs -> Progress]
         /\ \A j \in Jobs : shown[j] <= Patched(p)[j] /\ Patched(p)[j] <= server[j]
<1>0. /\ shown \in [Jobs -> Progress] /\ server \in [Jobs -> Progress]
      /\ poll[p].patches \in PatchMaps /\ Done \in Nat
  BY ConstantsAssumption DEF PollInv, TypeOK
<1>1. poll[p].patches \in [DOMAIN poll[p].patches -> Statuses]
  BY <1>0, PatchMapElim
<1>2. ASSUME NEW j \in Jobs
      PROVE  /\ Patched(p)[j] \in Progress
             /\ shown[j] <= Patched(p)[j] /\ Patched(p)[j] <= server[j]
  <2>1. CASE j \in rows \cap DOMAIN poll[p].patches /\ poll[p].patches[j] # NoRead
    <3>1. Patched(p)[j] = poll[p].patches[j]
      BY <2>1 DEF Patched
    <3>2. poll[p].patches[j] \in Progress
      BY <1>1, <2>1 DEF Statuses
    <3>3. shown[j] <= poll[p].patches[j] /\ poll[p].patches[j] <= server[j]
      BY <2>1 DEF PollInv
    <3> QED
      BY <3>1, <3>2, <3>3
  <2>2. CASE ~(j \in rows \cap DOMAIN poll[p].patches /\ poll[p].patches[j] # NoRead)
    <3>1. Patched(p)[j] = shown[j]
      BY <2>2 DEF Patched
    <3>2. shown[j] \in Progress /\ shown[j] \in Nat /\ shown[j] <= server[j]
      BY <1>0 DEF PollInv, Progress
    <3> QED
      BY <3>1, <3>2
  <2> QED
    BY <2>1, <2>2
<1> QED
  BY <1>2 DEF Patched

----------------------------------------------------------------------------
(* The poll in flight adds a patch.                                        *)
LEMMA CollectKeeps ==
  ASSUME PollInv, NEW p \in Polls, NEW j \in poll[p].todo,
         NEW answer \in Statuses,
         answer = NoRead \/ (shown[j] <= answer /\ answer <= server[j]),
         Collect(p, j, answer),
         UNCHANGED <<server, rows, shown, failing, expanded, timer, polling, mounted>>,
         errors' \in 0..MaxErrors
  PROVE  PollInv'
<1>0. TypeOK
  BY DEF PollInv
<1>1. /\ poll' \in [Polls -> [todo : SUBSET rows, patches : PatchMaps, active : BOOLEAN]]
      /\ \A q \in Polls \ {p} : poll'[q] = poll[q]
      /\ poll'[p].active = poll[p].active
      /\ poll'[p].todo \subseteq poll[p].todo
      /\ DOMAIN poll'[p].patches = DOMAIN poll[p].patches \cup {j}
      /\ \A k \in DOMAIN poll'[p].patches :
           poll'[p].patches[k] = IF k = j THEN answer ELSE poll[p].patches[k]
  BY <1>0, Collected
<1>2. poll[p].active /\ j \in rows
  BY <1>0 DEF PollInv, TypeOK
<1>3. \A q \in Polls : poll'[q].active = poll[q].active
  BY <1>1
<1>4. \A q \in Polls : DOMAIN poll'[q].patches \subseteq rows
  <2> TAKE q \in Polls
  <2>1. DOMAIN poll[q].patches \subseteq rows
    BY <1>0 DEF TypeOK
  <2> QED
    BY <1>1, <1>2, <2>1
<1>5. TypeOK'
  BY <1>0, <1>1, <1>4 DEF TypeOK
<1>6. OnePoll'
  BY <1>3 DEF PollInv, OnePoll
<1>7. \A q \in Polls : poll'[q].active => polling'
  BY <1>3 DEF PollInv
<1>8. \A q \in Polls : ~poll'[q].active => poll'[q].todo = {} /\ DOMAIN poll'[q].patches = {}
  BY <1>1, <1>2 DEF PollInv
<1>9. ASSUME NEW q \in Polls, NEW k \in DOMAIN poll'[q].patches
      PROVE  \/ poll'[q].patches[k] = NoRead
             \/ shown[k] <= poll'[q].patches[k] /\ poll'[q].patches[k] <= server[k]
  <2>1. CASE q # p
    BY <1>1, <1>9, <2>1 DEF PollInv
  <2>2. CASE q = p /\ k = j
    BY <1>1, <1>9, <2>2
  <2>3. CASE q = p /\ k # j
    <3>1. k \in DOMAIN poll[p].patches /\ poll'[p].patches[k] = poll[p].patches[k]
      BY <1>1, <1>9, <2>3
    <3> QED
      BY <2>3, <3>1 DEF PollInv
  <2> QED
    BY <2>1, <2>2, <2>3
<1>10. \A k \in Jobs : shown'[k] <= server'[k]
  BY DEF PollInv
<1>11. \A q \in Polls : \A k \in DOMAIN poll'[q].patches :
         \/ poll'[q].patches[k] = NoRead'
         \/ shown'[k] <= poll'[q].patches[k] /\ poll'[q].patches[k] <= server'[k]
  BY <1>9 DEF NoRead
<1> QED
  BY <1>5, <1>6, <1>7, <1>8, <1>10, <1>11 DEF PollInv

(* The poll in flight ends; the rows may have taken over its patches.      *)
LEMMA FinishKeeps ==
  ASSUME PollInv, NEW p \in Polls, poll[p].active, Finish(p),
         UNCHANGED <<server, rows, expanded, mounted, errors>>,
         shown' \in [Jobs -> Progress],
         \A j \in Jobs : shown'[j] <= server[j],
         failing' \subseteq rows, timer' \in BOOLEAN
  PROVE  PollInv'
<1>0. TypeOK
  BY DEF PollInv
<1>1. /\ polling' = FALSE
      /\ poll' \in [Polls -> [todo : SUBSET rows, patches : PatchMaps, active : BOOLEAN]]
      /\ \A q \in Polls \ {p} : poll'[q] = poll[q]
      /\ poll'[p].active = FALSE /\ poll'[p].todo = {} /\ DOMAIN poll'[p].patches = {}
  BY <1>0, Finished
<1>2. \A q \in Polls : /\ poll'[q].active = FALSE /\ poll'[q].todo = {}
                       /\ DOMAIN poll'[q].patches = {}
  <2> TAKE q \in Polls
  <2>1. CASE q = p
    BY <1>1, <2>1
  <2>2. CASE q # p
    <3>1. ~poll[q].active /\ poll'[q] = poll[q]
      BY <1>1, <2>2 DEF PollInv, OnePoll
    <3>2. poll[q].active \in BOOLEAN
      BY <1>0 DEF TypeOK
    <3> QED
      BY <3>1, <3>2 DEF PollInv
  <2> QED
    BY <2>1, <2>2
<1>3. TypeOK'
  <2>1. \A q \in Polls : DOMAIN poll'[q].patches \subseteq rows'
    BY <1>2
  <2> QED
    BY <1>0, <1>1, <2>1 DEF TypeOK
<1>4. OnePoll' /\ \A q \in Polls : poll'[q].active => polling'
  BY <1>2 DEF OnePoll
<1>5. \A q \in Polls : \A j \in DOMAIN poll'[q].patches :
         \/ poll'[q].patches[j] = NoRead'
         \/ shown'[j] <= poll'[q].patches[j] /\ poll'[q].patches[j] <= server'[j]
  BY <1>2
<1>6. \A q \in Polls : ~poll'[q].active => poll'[q].todo = {} /\ DOMAIN poll'[q].patches = {}
  BY <1>2
<1> QED
  BY <1>3, <1>4, <1>5, <1>6 DEF PollInv

(* Steps that touch neither the polls nor what the rows show.              *)
LEMMA OtherKeeps ==
  ASSUME PollInv, TypeOK', UNCHANGED <<poll, shown, polling>>,
         \A j \in Jobs : server'[j] \in Nat /\ server[j] <= server'[j]
  PROVE  PollInv'
<1>1. \A j \in Jobs : shown[j] \in Nat /\ server[j] \in Nat
  BY ConstantsAssumption DEF PollInv, TypeOK, Progress
<1>2. \A j \in Jobs : shown'[j] <= server'[j]
  BY <1>1 DEF PollInv
<1>3. ASSUME NEW p \in Polls, NEW j \in DOMAIN poll[p].patches, poll[p].patches[j] # NoRead
      PROVE  shown[j] <= poll[p].patches[j] /\ poll[p].patches[j] <= server'[j]
  <2>1. j \in Jobs /\ poll[p].patches[j] \in Statuses
    <3>1. poll[p].patches \in PatchMaps
      BY DEF PollInv, TypeOK
    <3> QED
      BY <1>3, <3>1, PatchMapElim
  <2>2. poll[p].patches[j] \in Nat
    BY <1>3, <2>1, ConstantsAssumption DEF Statuses, Progress
  <2>3. shown[j] <= poll[p].patches[j] /\ poll[p].patches[j] <= server[j]
    BY <1>3 DEF PollInv
  <2> QED
    BY <1>1, <2>1, <2>2, <2>3
<1>4. \A p \in Polls : \A j \in DOMAIN poll'[p].patches :
         \/ poll'[p].patches[j] = NoRead'
         \/ shown'[j] <= poll'[p].patches[j] /\ poll'[p].patches[j] <= server'[j]
  BY <1>3 DEF NoRead
<1> QED
  BY <1>2, <1>4 DEF PollInv, OnePoll

(* No step lowers what a row shows, and all keep the invariant.            *)
StepSafe == PollInv' /\ \A j \in Jobs : shown'[j] >= shown[j]

LEMMA NextIsSafe ==
  ASSUME PollInv, Next
  PROVE  StepSafe
<1>0. /\ TypeOK
      /\ \A j \in Jobs : shown[j] \in Nat /\ server[j] \in Progress /\ server[j] \in Nat
      /\ Done \in Nat /\ MaxErrors \in Nat /\ errors \in Nat
  BY ConstantsAssumption DEF PollInv, TypeOK, Progress
<1>1. CASE HandleSubmitted
  <2>1. TypeOK'
    <3>1. rows' \subseteq Jobs /\ rows \subseteq rows'
      BY <1>0, <1>1 DEF HandleSubmitted, TypeOK
    <3>2. poll \in [Polls -> [todo : SUBSET rows', patches : PatchMaps, active : BOOLEAN]]
      BY <1>0, <3>1 DEF TypeOK
    <3> QED
      BY <1>0, <1>1, <3>1, <3>2 DEF HandleSubmitted, TypeOK
  <2> QED
    BY <1>0, <1>1, <2>1, OtherKeeps DEF HandleSubmitted, StepSafe
<1>2. CASE Unmount
  <2>1. TypeOK'
    BY <1>0, <1>2 DEF Unmount, TypeOK
  <2> QED
    BY <1>0, <1>2, <2>1, OtherKeeps DEF Unmount, StepSafe
<1>3. ASSUME NEW j \in Jobs, ToggleReport(j)
      PROVE  StepSafe
  <2>1. TypeOK'
    BY <1>0, <1>3 DEF ToggleReport, TypeOK
  <2> QED
    BY <1>0, <1>3, <2>1, OtherKeeps DEF ToggleReport, StepSafe
<1>4. ASSUME NEW j \in Jobs, ServerAdvances(j)
      PROVE  StepSafe
  <2>1. PICK v \in (server[j] + 1)..Done : server' = [server EXCEPT ![j] = v]
    BY <1>4 DEF ServerAdvances
  <2>2. v \in Progress /\ server[j] <= v
    BY <1>0, <2>1 DEF Progress
  <2>3. TypeOK'
    BY <1>0, <1>4, <2>1, <2>2 DEF ServerAdvances, TypeOK
  <2>4. \A k \in Jobs : server'[k] \in Nat /\ server[k] <= server'[k]
    BY <1>0, <2>1, <2>2 DEF TypeOK, Progress
  <2> QED
    BY <1>0, <1>4, <2>3, <2>4, OtherKeeps DEF ServerAdvances, StepSafe
<1>5. ASSUME NEW p \in Polls, Tick(p)
      PROVE  StepSafe
  <2>1. /\ poll'[p].active = TRUE /\ poll'[p].todo \subseteq rows
        /\ poll'[p].patches = Idle.patches
        /\ \A q \in Polls \ {p} : poll'[q] = poll[q]
        /\ poll' \in [Polls -> [todo : SUBSET rows, patches : PatchMaps, active : BOOLEAN]]
    BY <1>0, <1>5, IdleIsTyped DEF Tick, TypeOK, ActiveRows, Idle
  <2>2. DOMAIN poll'[p].patches = {}
    BY <2>1, IdleIsTyped
  <2>3. TypeOK'
    <3>1. \A q \in Polls : DOMAIN poll'[q].patches \subseteq rows
      BY <1>0, <2>1, <2>2 DEF TypeOK
    <3> QED
      BY <1>0, <1>5, <2>1, <3>1 DEF Tick, TypeOK
  <2>4. OnePoll' /\ polling' = TRUE
    <3>1. \A q \in Polls : ~poll[q].active
      BY <1>5 DEF Tick, PollInv
    <3> QED
      BY <1>5, <2>1, <3>1 DEF Tick, OnePoll
  <2>5. \A q \in Polls : ~poll'[q].active => poll'[q].todo = {} /\ DOMAIN poll'[q].patches = {}
    BY <2>1 DEF PollInv
  <2>6. \A q \in Polls : \A j \in DOMAIN poll'[q].patches :
          \/ poll'[q].patches[j] = NoRead'
          \/ shown'[j] <= poll'[q].patches[j] /\ poll'[q].patches[j] <= server'[j]
    <3>1. \A q \in Polls : q = p \/ poll'[q] = poll[q]
      BY <2>1
    <3>2. shown' = shown /\ server' = server /\ NoRead' = NoRead
      BY <1>5 DEF Tick, NoRead
    <3> QED
      BY <2>2, <3>1, <3>2 DEF PollInv
  <2>7. \A j \in Jobs : shown'[j] <= server'[j]
    BY <1>5 DEF Tick, PollInv
  <2>8. \A j \in Jobs : shown'[j] >= shown[j]
    BY <1>0, <1>5 DEF Tick
  <2>9. PollInv'
    BY <2>3, <2>4, <2>5, <2>6, <2>7 DEF PollInv
  <2> QED
    BY <2>8, <2>9 DEF StepSafe
<1>6. ASSUME NEW p \in Polls, NEW j \in Jobs, ReadStatus(p, j)
      PROVE  StepSafe
  <2>1. server[j] \in Statuses /\ shown[j] <= server[j] /\ server[j] <= server[j]
    BY <1>0 DEF Statuses, PollInv
  <2>2. errors' \in 0..MaxErrors
    BY <1>0, <1>6 DEF ReadStatus, TypeOK
  <2>3. PollInv'
    BY <1>6, <2>1, <2>2, CollectKeeps DEF ReadStatus
  <2> QED
    BY <1>0, <1>6, <2>3 DEF ReadStatus, StepSafe
<1>7. ASSUME NEW p \in Polls, NEW j \in Jobs, ReadFails(p, j)
      PROVE  StepSafe
  <2>1. NoRead \in Statuses
    BY DEF Statuses
  <2>2. errors' \in 0..MaxErrors
    BY <1>0, <1>7 DEF ReadFails
  <2>3. /\ j \in poll[p].todo /\ Collect(p, j, NoRead)
        /\ UNCHANGED <<server, rows, shown, failing, expanded, timer, polling, mounted>>
    BY <1>7 DEF ReadFails
  <2>4. PollInv'
    BY <2>1, <2>2, <2>3, CollectKeeps
  <2> QED
    BY <1>0, <2>3, <2>4 DEF StepSafe
<1>8. ASSUME NEW p \in Polls, AbandonPoll(p)
      PROVE  StepSafe
  <2>1. PollInv'
    BY <1>0, <1>8, FinishKeeps DEF AbandonPoll, PollInv, TypeOK
  <2> QED
    BY <1>0, <1>8, <2>1 DEF AbandonPoll, StepSafe
<1>9. ASSUME NEW p \in Polls, ApplyPoll(p)
      PROVE  StepSafe
  <2>1. /\ shown' \in [Jobs -> Progress]
        /\ \A j \in Jobs : shown[j] <= shown'[j] /\ shown'[j] <= server[j]
    BY <1>9, PatchedBounds DEF ApplyPoll
  <2>2. failing' \subseteq rows
    BY <1>0, <1>9 DEF ApplyPoll, FailedReads, TypeOK
  <2>3. timer' \in BOOLEAN
    BY <1>9 DEF ApplyPoll
  <2>4. PollInv'
    BY <1>9, <2>1, <2>2, <2>3, FinishKeeps DEF ApplyPoll
  <2>5. \A j \in Jobs : shown'[j] \in Nat
    BY <2>1, ConstantsAssumption DEF Progress
  <2> QED
    BY <1>0, <2>1, <2>4, <2>5 DEF StepSafe
<1> QED
  BY <1>1, <1>2, <1>3, <1>4, <1>5, <1>6, <1>7, <1>8, <1>9 DEF Next

(* An active row keeps the timer, since a row that a poll leaves           *)
(* unfinished was unfinished before it.                                    *)
LEMMA TimerKept ==
  ASSUME PollInv, ActiveIsPolled, Next
  PROVE  ActiveIsPolled'
<1>0. StepSafe /\ TypeOK /\ Done \in Nat
  BY NextIsSafe, ConstantsAssumption DEF PollInv
<1>1. CASE UNCHANGED <<rows, shown, timer, mounted>>
  BY <1>1 DEF ActiveIsPolled, ActiveRows, IsTerminal
<1>2. CASE HandleSubmitted
  BY <1>2 DEF HandleSubmitted, ActiveIsPolled
<1>3. CASE Unmount
  BY <1>3 DEF Unmount, ActiveIsPolled
<1>4. ASSUME NEW p \in Polls, ApplyPoll(p)
      PROVE  ActiveIsPolled'
  <2> SUFFICES ASSUME mounted', NEW j \in rows', shown'[j] # Done
      PROVE  timer'
    BY DEF ActiveIsPolled, ActiveRows, IsTerminal
  <2>1. j \in rows /\ j \in Jobs /\ mounted
    BY <1>0, <1>4 DEF ApplyPoll, TypeOK
  <2>2. shown[j] # Done
    <3>1. shown[j] \in 0..Done /\ shown'[j] \in 0..Done /\ shown[j] <= shown'[j]
      BY <1>0, <2>1 DEF StepSafe, PollInv, TypeOK, Progress
    <3> QED
      BY <1>0, <3>1
  <2>3. timer
    BY <2>1, <2>2 DEF ActiveIsPolled, ActiveRows, IsTerminal
  <2>4. shown' = Patched(p)
    BY <1>4 DEF ApplyPoll
  <2> QED
    BY <1>4, <2>1, <2>3, <2>4 DEF ApplyPoll
<1> QED
  BY <1>1, <1>2, <1>3, <1>4 DEF Next, ToggleReport, ServerAdvances, Tick, ReadStatus,
     ReadFails, AbandonPoll

LEMMA Inductive == ListInv /\ [Next]_vars => ListInv'
<1>1. ASSUME ListInv, Next PROVE ListInv'
  BY <1>1, NextIsSafe, TimerKept DEF ListInv, StepSafe
<1>2. ASSUME ListInv, UNCHANGED vars PROVE ListInv'
  BY <1>2 DEF vars, ListInv, PollInv, TypeOK, OnePoll, ActiveIsPolled, ActiveRows, IsTerminal,
     NoRead
<1> QED
  BY <1>1, <1>2

LEMMA ListInvariance == Spec => []ListInv
BY Initially, Inductive, PTL DEF Spec

LEMMA ListNeverOlder == Spec => NeverOlder
<1>1. ListInv /\ [Next]_vars => [\A j \in Jobs : shown'[j] >= shown[j]]_vars
  BY NextIsSafe DEF ListInv, StepSafe
<1> QED
  BY <1>1, ListInvariance, PTL DEF Spec, NeverOlder

----------------------------------------------------------------------------
(* What happens in the dialog adds jobs to the list or leaves it alone.    *)
LEMMA PageStep == [PageNext]_<<vars, dialogVars>> => [Next]_vars
<1> SUFFICES ASSUME [PageNext]_<<vars, dialogVars>> PROVE [Next]_vars
  OBVIOUS
<1>1. CASE UseDialog
  BY <1>1 DEF UseDialog
<1>2. CASE UploadEnds
  BY <1>2 DEF UploadEnds, Next
<1>3. CASE UseList
  BY <1>3 DEF UseList, Next
<1>4. ASSUME NEW j \in Jobs, ServerConverts(j) PROVE Next
  BY <1>4 DEF ServerConverts, Next
<1>5. CASE UNCHANGED <<vars, dialogVars>>
  BY <1>5
<1> QED
  BY <1>1, <1>2, <1>3, <1>4, <1>5 DEF PageNext

(* The page with its dialog implements the list of jobs.                   *)
THEOREM PageImplementsList == PageSpec => Spec
BY PageStep, PTL DEF PageSpec, PageInit, Spec

(* An unfinished row is always polled while the page is open, whatever     *)
(* ended while a poll was under way.                                       *)
THEOREM ActiveRowsArePolled == PageSpec => []ActiveIsPolled
BY PageImplementsList, ListInvariance, PTL DEF ListInv

(* The flag keeps polls apart whatever the interval and the answers do.    *)
THEOREM PollsDoNotOverlap == PageSpec => []OnePoll
BY PageImplementsList, ListInvariance, PTL DEF ListInv, PollInv

(* No answer takes a row back to an older status.                          *)
THEOREM RowsNeverAge == PageSpec => NeverOlder
BY PageImplementsList, ListNeverOlder, PTL

----------------------------------------------------------------------------
(* Lists cut down to some of their places, and put together.               *)

(* The instance counts as the theorems about finite sets do.               *)
LEMMA Counting == \A S : Dialog!Cardinality(S) = Cardinality(S)
BY DEF Cardinality, Dialog!Cardinality

(* The ranks of some places are 1, 2, ... up to their number.              *)
LEMMA RankBijection ==
  ASSUME NEW n \in Nat, NEW places \in SUBSET (1..n)
  PROVE  /\ Cardinality(places) \in Nat /\ Cardinality(places) <= n
         /\ \A i \in places : Dialog!Rank(places, i) \in 1..Cardinality(places)
         /\ \A i, k \in places : Dialog!Rank(places, i) = Dialog!Rank(places, k) => i = k
         /\ \A r \in 1..Cardinality(places) : \E i \in places : Dialog!Rank(places, i) = r
<1> DEFINE upto(i) == {k \in places : k <= i}
           size == Cardinality(places)
           rank == [i \in places |-> Cardinality(upto(i))]
<1>1. IsFiniteSet(places) /\ size \in Nat /\ size <= n
  <2>1. IsFiniteSet(1..n) /\ Cardinality(1..n) = n
    BY FS_Interval
  <2> QED
    BY <2>1, FS_Subset, FS_CardinalityType
<1>2. \A i \in places : i \in Nat
  OBVIOUS
<1>3. \A i \in places : Dialog!Rank(places, i) = Cardinality(upto(i))
  BY Counting DEF Dialog!Rank
<1>4. ASSUME NEW i \in places
      PROVE  /\ IsFiniteSet(upto(i)) /\ Cardinality(upto(i)) \in Nat
             /\ Cardinality(upto(i)) \in 1..size
  <2>1. upto(i) \in SUBSET places /\ i \in upto(i)
    BY <1>2
  <2>2. IsFiniteSet(upto(i)) /\ Cardinality(upto(i)) <= size
    BY <1>1, <2>1, FS_Subset
  <2>3. Cardinality(upto(i)) \in Nat /\ Cardinality(upto(i)) # 0
    BY <2>1, <2>2, FS_CardinalityType, FS_EmptySet
  <2> HIDE DEF upto, size
  <2> QED
    BY <1>1, <2>2, <2>3
<1>5. ASSUME NEW i \in places, NEW m \in places, Cardinality(upto(i)) = Cardinality(upto(m))
      PROVE  i = m
  <2>1. ASSUME NEW a \in places, NEW b \in places, a < b,
               Cardinality(upto(a)) = Cardinality(upto(b))
        PROVE  FALSE
    <3>1. \A k \in places : k <= a => k <= b
      <4> TAKE k \in places
      <4>1. k \in Nat /\ a \in Nat /\ b \in Nat
        BY <1>2
      <4> QED
        BY <2>1, <4>1
    <3>2. upto(a) \in SUBSET upto(b)
      BY <3>1
    <3>3. upto(b) = upto(a)
      BY <1>4, <2>1, <3>2, FS_Subset
    <3>4. b \in upto(b) /\ b \notin upto(a)
      BY <1>2, <2>1
    <3> QED
      BY <3>3, <3>4
  <2>2. i < m \/ m < i \/ i = m
    BY <1>2
  <2> HIDE DEF upto
  <2> QED
    BY <1>5, <2>1, <2>2
<1>6. rank \in Injection(places, 1..size)
  <2>1. rank \in [places -> 1..size]
    BY <1>4
  <2>2. \A i, k \in places : rank[i] = rank[k] => i = k
    BY <1>5
  <2> HIDE DEF rank
  <2> QED
    BY <2>1, <2>2 DEF Injection, IsInjective
<1>7. IsFiniteSet(1..size) /\ Cardinality(1..size) = size
  <2> HIDE DEF size
  <2> QED
    BY <1>1, FS_Interval
<1>8. rank \in Surjection(places, 1..size)
  BY <1>6, <1>7, FS_Injection
<1>9. \A r \in 1..size : \E i \in places : rank[i] = r
  <2> HIDE DEF rank
  <2> QED
    BY <1>8 DEF Surjection
<1>10. \A r \in 1..size : \E i \in places : Dialog!Rank(places, i) = r
  BY <1>3, <1>9
<1>11. \A i, k \in places : Dialog!Rank(places, i) = Dialog!Rank(places, k) => i = k
  BY <1>3, <1>5
<1>12. \A i \in places : Dialog!Rank(places, i) \in 1..size
  BY <1>3, <1>4
<1> QED
  BY <1>1, <1>10, <1>11, <1>12

(* A list cut down holds the members at these places, one each.            *)
LEMMA FilteredList ==
  ASSUME NEW T, NEW list \in Seq(T), NEW places \in SUBSET DOMAIN list
  PROVE  /\ Dialog!Filtered(list, places) \in Seq(T)
         /\ Len(Dialog!Filtered(list, places)) = Cardinality(places)
         /\ DOMAIN Dialog!Filtered(list, places) = 1..Cardinality(places)
         /\ Cardinality(places) \in Nat
         /\ \A i \in places : /\ Dialog!Rank(places, i) \in 1..Cardinality(places)
                              /\ Dialog!Filtered(list, places)[Dialog!Rank(places, i)] = list[i]
         /\ \A r \in 1..Cardinality(places) :
              \E i \in places : /\ Dialog!Rank(places, i) = r
                                /\ Dialog!Filtered(list, places)[r] = list[i]
<1> DEFINE size == Cardinality(places)
           place(r) == CHOOSE i \in places : Dialog!Rank(places, i) = r
           cut == [r \in 1..size |-> list[place(r)]]
<1>0. Len(list) \in Nat /\ DOMAIN list = 1..Len(list) /\ list \in [1..Len(list) -> T]
  BY LenProperties
<1>1. /\ size \in Nat
      /\ \A i \in places : Dialog!Rank(places, i) \in 1..size
      /\ \A i, k \in places : Dialog!Rank(places, i) = Dialog!Rank(places, k) => i = k
      /\ \A r \in 1..size : \E i \in places : Dialog!Rank(places, i) = r
  BY <1>0, RankBijection
<1>2. Dialog!Filtered(list, places) = cut
  BY Counting DEF Dialog!Filtered
<1>3. \A r \in 1..size : place(r) \in places /\ Dialog!Rank(places, place(r)) = r
  BY <1>1
<1>4. \A i \in places : place(Dialog!Rank(places, i)) = i
  BY <1>1, <1>3
<1> HIDE DEF place, size
<1>5. cut \in [1..size -> T]
  BY <1>0, <1>3
<1>6. cut \in Seq(T) /\ DOMAIN cut = 1..size /\ Len(cut) = size
  BY <1>1, <1>5, IsASeq, LenProperties
<1>7. \A i \in places : Dialog!Rank(places, i) \in 1..size /\ cut[Dialog!Rank(places, i)] = list[i]
  BY <1>1, <1>4
<1>8. \A r \in 1..size : \E i \in places : Dialog!Rank(places, i) = r /\ cut[r] = list[i]
  BY <1>3
<1> QED
  BY <1>1, <1>2, <1>6, <1>7, <1>8 DEF size

(* A list cut down has no member twice if the list has none.               *)
LEMMA FilteredOnce ==
  ASSUME NEW T, NEW list \in Seq(T), NEW places \in SUBSET DOMAIN list,
         Dialog!IsInjective(list)
  PROVE  Dialog!IsInjective(Dialog!Filtered(list, places))
<1> DEFINE cut == Dialog!Filtered(list, places)
<1> SUFFICES ASSUME NEW r \in DOMAIN cut, NEW q \in DOMAIN cut, cut[r] = cut[q]
             PROVE  r = q
  BY DEF Dialog!IsInjective
<1>1. PICK i \in places : Dialog!Rank(places, i) = r /\ cut[r] = list[i]
  BY FilteredList
<1>2. PICK k \in places : Dialog!Rank(places, k) = q /\ cut[q] = list[k]
  BY FilteredList
<1>3. i = k
  BY <1>1, <1>2 DEF Dialog!IsInjective
<1> QED
  BY <1>1, <1>2, <1>3

LEMMA RangeWithin ==
  ASSUME NEW T, NEW list \in Seq(T)
  PROVE  /\ Len(list) \in Nat /\ DOMAIN list = 1..Len(list)
         /\ \A i \in DOMAIN list : list[i] \in T
         /\ Dialog!Range(list) \subseteq T
         /\ Dialog!Range(list) = {list[i] : i \in DOMAIN list}
<1>1. Len(list) \in Nat /\ DOMAIN list = 1..Len(list) /\ list \in [1..Len(list) -> T]
  BY LenProperties
<1> QED
  BY <1>1 DEF Dialog!Range

LEMMA EmptyList ==
  ASSUME NEW T
  PROVE  /\ <<>> \in Seq(T) /\ Len(<<>>) = 0 /\ DOMAIN <<>> = {}
         /\ Dialog!Range(<<>>) = {} /\ Dialog!IsInjective(<<>>)
<1>1. <<>> \in Seq(T) /\ Len(<<>>) = 0 /\ DOMAIN <<>> = {}
  BY EmptySeq
<1> QED
  BY <1>1 DEF Dialog!Range, Dialog!IsInjective

(* Members of two lists one after the other.                               *)
LEMMA Joined ==
  ASSUME NEW T, NEW s \in Seq(T), NEW t \in Seq(T)
  PROVE  /\ s \o t \in Seq(T) /\ Len(s \o t) = Len(s) + Len(t)
         /\ DOMAIN (s \o t) = 1..(Len(s) + Len(t))
         /\ \A i \in 1..Len(s) : i \in DOMAIN (s \o t) /\ (s \o t)[i] = s[i]
         /\ \A i \in 1..Len(t) : Len(s) + i \in DOMAIN (s \o t) /\ (s \o t)[Len(s) + i] = t[i]
         /\ \A i \in DOMAIN (s \o t) :
              \/ i \in 1..Len(s)
              \/ \E k \in 1..Len(t) : i = Len(s) + k
         /\ Dialog!Range(s \o t) = Dialog!Range(s) \cup Dialog!Range(t)
<1> DEFINE both == s \o t
<1>1. /\ Len(s) \in Nat /\ Len(t) \in Nat /\ DOMAIN s = 1..Len(s) /\ DOMAIN t = 1..Len(t)
      /\ both \in Seq(T) /\ Len(both) = Len(s) + Len(t)
  BY LenProperties, ConcatProperties
<1>2. DOMAIN both = 1..(Len(s) + Len(t))
  BY <1>1, LenProperties
<1>3. \A i \in 1..(Len(s) + Len(t)) : both[i] = IF i <= Len(s) THEN s[i] ELSE t[i - Len(s)]
  BY ConcatProperties
<1> HIDE DEF both
<1>4. \A i \in 1..Len(s) : i \in DOMAIN both /\ both[i] = s[i]
  BY <1>1, <1>2, <1>3
<1>5. \A i \in 1..Len(t) : Len(s) + i \in DOMAIN both /\ both[Len(s) + i] = t[i]
  <2> TAKE i \in 1..Len(t)
  <2>1. Len(s) + i \in 1..(Len(s) + Len(t)) /\ ~(Len(s) + i <= Len(s)) /\ Len(s) + i - Len(s) = i
    BY <1>1
  <2> QED
    BY <1>2, <1>3, <2>1
<1>6. ASSUME NEW i \in DOMAIN both
      PROVE  i \in 1..Len(s) \/ \E k \in 1..Len(t) : i = Len(s) + k
  <2>1. i \in 1..Len(s) \/ (i - Len(s) \in 1..Len(t) /\ i = Len(s) + (i - Len(s)))
    BY <1>1, <1>2
  <2> QED
    BY <2>1
<1>7. {both[i] : i \in DOMAIN both} = {s[i] : i \in DOMAIN s} \cup {t[i] : i \in DOMAIN t}
  <2>1. ASSUME NEW i \in DOMAIN both
        PROVE  (\E k \in DOMAIN s : both[i] = s[k]) \/ (\E k \in DOMAIN t : both[i] = t[k])
    BY <1>1, <1>4, <1>5, <1>6
  <2>2. \A k \in DOMAIN s : \E i \in DOMAIN both : both[i] = s[k]
    BY <1>1, <1>4
  <2>3. \A k \in DOMAIN t : \E i \in DOMAIN both : both[i] = t[k]
    BY <1>1, <1>5
  <2> QED
    BY <2>1, <2>2, <2>3
<1> QED
  BY <1>1, <1>2, <1>4, <1>5, <1>6, <1>7 DEF Dialog!Range, both

LEMMA JoinedOnce ==
  ASSUME NEW T, NEW s \in Seq(T), NEW t \in Seq(T),
         Dialog!IsInjective(s), Dialog!IsInjective(t),
         Dialog!Range(s) \cap Dialog!Range(t) = {}
  PROVE  Dialog!IsInjective(s \o t)
<1> DEFINE both == s \o t
<1>0. /\ Len(s) \in Nat /\ Len(t) \in Nat /\ DOMAIN s = 1..Len(s) /\ DOMAIN t = 1..Len(t)
      /\ \A i \in 1..Len(s) : both[i] = s[i]
      /\ \A i \in 1..Len(t) : both[Len(s) + i] = t[i]
      /\ \A i \in DOMAIN both : i \in 1..Len(s) \/ \E k \in 1..Len(t) : i = Len(s) + k
  BY Joined, LenProperties
<1>1. \A i \in 1..Len(s), k \in 1..Len(t) : s[i] # t[k]
  BY <1>0 DEF Dialog!Range
<1> HIDE DEF both
<1> SUFFICES ASSUME NEW a \in DOMAIN both, NEW b \in DOMAIN both, both[a] = both[b]
             PROVE  a = b
  BY DEF both, Dialog!IsInjective
<1>2. CASE a \in 1..Len(s) /\ b \in 1..Len(s)
  BY <1>0, <1>2 DEF Dialog!IsInjective
<1>3. ASSUME NEW i \in 1..Len(t), NEW k \in 1..Len(t), a = Len(s) + i, b = Len(s) + k
      PROVE  a = b
  <2>1. t[i] = t[k]
    BY <1>0, <1>3
  <2>2. i = k
    BY <1>0, <2>1 DEF Dialog!IsInjective
  <2> QED
    BY <1>3, <2>2
<1>4. ASSUME NEW i \in 1..Len(t), a = Len(s) + i, b \in 1..Len(s)
      PROVE  FALSE
  BY <1>0, <1>1, <1>4
<1>5. ASSUME NEW i \in 1..Len(t), b = Len(s) + i, a \in 1..Len(s)
      PROVE  FALSE
  BY <1>0, <1>1, <1>5
<1> QED
  BY <1>0, <1>2, <1>3, <1>4, <1>5
----------------------------------------------------------------------------
(* The types of the dialog.                                                *)

Lists == files \in Seq(picked) /\ submitted \in Seq(picked) /\ admitted \in Seq(picked)

DialogTyped == Dialog!TypeOK /\ Lists

(* What the dialog does with the files while the page is open.             *)
LEMMA ListingsAreLists ==
  ASSUME NEW list \in Dialog!Listings
  PROVE  list \in Seq(Files \ picked) /\ Dialog!IsInjective(list)
<1>1. /\ list \in UNION {[1..n -> Files \ picked] : n \in 1..MaxFiles}
      /\ Dialog!IsInjective(list)
  BY DEF Dialog!Listings
<1>2. PICK n \in 1..MaxFiles : list \in [1..n -> Files \ picked]
  BY <1>1
<1>3. n \in Nat
  BY <1>2, PageAssumption
<1> QED
  BY <1>1, <1>2, <1>3, IsASeq

LEMMA Widened ==
  ASSUME Lists, NEW more, picked \subseteq more
  PROVE  files \in Seq(more) /\ submitted \in Seq(more) /\ admitted \in Seq(more)
BY SeqMonotonic DEF Lists

LEMMA SelectingTyped ==
  ASSUME DialogTyped, NEW list \in Dialog!Listings, NEW known, Dialog!HandleFiles(list, known)
  PROVE  DialogTyped'
<1>1. list \in Seq(Files \ picked)
  BY ListingsAreLists
<1>2. Dialog!Range(list) \subseteq Files \ picked /\ picked' = picked \cup Dialog!Range(list)
  BY <1>1, RangeWithin DEF Dialog!HandleFiles
<1>3. list \in Seq(picked')
  <2>1. Len(list) \in Nat /\ DOMAIN list = 1..Len(list) /\ list \in [1..Len(list) -> Files \ picked]
    BY <1>1, LenProperties
  <2>2. \A i \in 1..Len(list) : list[i] \in picked'
    BY <1>2, <2>1 DEF Dialog!Range
  <2>3. list \in [1..Len(list) -> picked']
    BY <2>1, <2>2
  <2> QED
    BY <2>1, <2>3, IsASeq
<1>4. Lists'
  <2>1. files \in Seq(picked') /\ submitted \in Seq(picked') /\ admitted \in Seq(picked')
    BY <1>2, Widened DEF DialogTyped
  <2>2. files \o list \in Seq(picked')
    BY <1>3, <2>1, Joined
  <2>3. files' \in {files, files \o list} /\ submitted' = submitted /\ admitted' = admitted
    BY DEF Dialog!HandleFiles
  <2> QED
    BY <2>1, <2>2, <2>3 DEF Lists
<1>5. Dialog!TypeOK'
  <2>1. /\ Dialog!Range(files') \subseteq picked' /\ Dialog!Range(admitted') \subseteq picked'
        /\ Dialog!Range(submitted') \subseteq picked'
    BY <1>4, RangeWithin DEF Lists
  <2>2. picked' \subseteq Files
    BY <1>2 DEF DialogTyped, Dialog!TypeOK
  <2>3. message' \in {{"limit"}, {}}
    BY DEF Dialog!HandleFiles
  <2>4. handed' \subseteq [job : 1..Len(admitted'), file : picked']
    BY <1>2 DEF Dialog!HandleFiles, DialogTyped, Dialog!TypeOK
  <2>5. /\ open /\ open' = open /\ uploading' = uploading /\ submitted' = submitted
        /\ UNCHANGED <<name, needsVision, admitted, lost, bulk, submits>>
    BY DEF Dialog!HandleFiles
  <2> QED
    BY <2>1, <2>2, <2>3, <2>4, <2>5 DEF DialogTyped, Dialog!TypeOK
<1> QED
  BY <1>4, <1>5 DEF DialogTyped

LEMMA ResetTyped ==
  ASSUME Dialog!Reset, picked' = picked
  PROVE  /\ files' = <<>> /\ submitted' = <<>> /\ uploading' = FALSE
         /\ files' \in Seq(picked') /\ submitted' \in Seq(picked')
         /\ Dialog!Range(files') = {} /\ Dialog!Range(submitted') = {}
         /\ message' = {} /\ needsVision' = FALSE
BY EmptyList DEF Dialog!Reset

LEMMA UseTyped ==
  ASSUME DialogTyped, UseDialog
  PROVE  DialogTyped'
<1>1. CASE Dialog!OpenDialog
  BY <1>1 DEF Dialog!OpenDialog, DialogTyped, Lists, Dialog!TypeOK
<1>2. CASE Dialog!CloseDialog
  <2>1. /\ Dialog!Reset /\ open' = FALSE
        /\ UNCHANGED <<name, picked, admitted, lost, bulk, handed, submits>>
    BY <1>2 DEF Dialog!CloseDialog
  <2> QED
    BY <2>1, ResetTyped DEF DialogTyped, Lists, Dialog!TypeOK
<1>3. CASE Dialog!SelectFiles \/ Dialog!DropFiles
  BY <1>3, SelectingTyped DEF Dialog!SelectFiles, Dialog!DropFiles
<1>4. CASE Dialog!HandleSubmit
  <2>1. submits' \in 0..MaxSubmits
    BY <1>4, PageAssumption DEF Dialog!HandleSubmit, DialogTyped, Dialog!TypeOK
  <2> QED
    BY <1>4, <2>1 DEF Dialog!HandleSubmit, DialogTyped, Lists, Dialog!TypeOK
<1> QED
  BY <1>1, <1>2, <1>3, <1>4 DEF UseDialog

----------------------------------------------------------------------------
(* The jobs an answer brings.                                              *)

(* Every file admitted gets a place of its own after the earlier jobs, and *)
(* that place holds the file.                                              *)
LEMMA BulkAdmits ==
  ASSUME Lists, NEW answer \in Dialog!Answers
  PROVE  /\ admitted \o Dialog!AdmittedOf(answer) \in Seq(picked)
         /\ DOMAIN admitted \subseteq DOMAIN (admitted \o Dialog!AdmittedOf(answer))
         /\ \A j \in DOMAIN admitted :
              (admitted \o Dialog!AdmittedOf(answer))[j] = admitted[j]
         /\ \A i \in Dialog!Admitted(answer) :
              /\ i \in DOMAIN submitted
              /\ Dialog!Job(answer, i) \in
                   DOMAIN (admitted \o Dialog!AdmittedOf(answer)) \ DOMAIN admitted
              /\ (admitted \o Dialog!AdmittedOf(answer))[Dialog!Job(answer, i)] = submitted[i]
         /\ \A j \in DOMAIN (admitted \o Dialog!AdmittedOf(answer)) \ DOMAIN admitted :
              \E i \in Dialog!Admitted(answer) : j = Dialog!Job(answer, i)
<1> DEFINE A == Dialog!Admitted(answer)
           new == Dialog!AdmittedOf(answer)
           all == admitted \o new
           c == Cardinality(A)
<1>0. /\ admitted \in Seq(picked) /\ submitted \in Seq(picked)
      /\ Len(admitted) \in Nat /\ DOMAIN admitted = 1..Len(admitted)
  BY LenProperties DEF Lists
<1>1. A \in SUBSET DOMAIN submitted
  BY DEF Dialog!Answers, Dialog!Admitted
<1>2. /\ new \in Seq(picked) /\ Len(new) = c /\ c \in Nat
      /\ \A i \in A : Dialog!Rank(A, i) \in 1..c /\ new[Dialog!Rank(A, i)] = submitted[i]
      /\ \A r \in 1..c : \E i \in A : Dialog!Rank(A, i) = r
  BY <1>0, <1>1, FilteredList DEF Dialog!AdmittedOf
<1>3. \A i \in A : Dialog!Job(answer, i) = Len(admitted) + Dialog!Rank(A, i)
  BY DEF Dialog!Job
<1> HIDE DEF A, new, c
<1>4. /\ all \in Seq(picked) /\ DOMAIN all = 1..(Len(admitted) + c)
      /\ \A j \in 1..Len(admitted) : j \in DOMAIN all /\ all[j] = admitted[j]
      /\ \A r \in 1..c : Len(admitted) + r \in DOMAIN all /\ all[Len(admitted) + r] = new[r]
      /\ \A j \in DOMAIN all : j \in 1..Len(admitted) \/ \E r \in 1..c : j = Len(admitted) + r
  <2>1. /\ all \in Seq(picked) /\ DOMAIN all = 1..(Len(admitted) + Len(new))
        /\ \A j \in 1..Len(admitted) : j \in DOMAIN all /\ all[j] = admitted[j]
        /\ \A r \in 1..Len(new) : /\ Len(admitted) + r \in DOMAIN all
                                 /\ all[Len(admitted) + r] = new[r]
        /\ \A j \in DOMAIN all : \/ j \in 1..Len(admitted)
                                \/ \E r \in 1..Len(new) : j = Len(admitted) + r
    <3>1. admitted \in Seq(picked) /\ new \in Seq(picked)
      BY <1>0, <1>2
    <3> QED
      BY <3>1, Joined
  <2> HIDE DEF all
  <2> QED
    BY <1>2, <2>1
<1> HIDE DEF all
<1>5. \A i \in A : /\ Dialog!Job(answer, i) \in DOMAIN all \ DOMAIN admitted
                   /\ all[Dialog!Job(answer, i)] = submitted[i]
  <2> TAKE i \in A
  <2>1. Dialog!Rank(A, i) \in 1..c
    BY <1>2
  <2>2. Len(admitted) + Dialog!Rank(A, i) \notin 1..Len(admitted)
    BY <1>0, <1>2, <2>1
  <2> QED
    BY <1>0, <1>2, <1>3, <1>4, <2>1, <2>2
<1>6. \A j \in DOMAIN all \ DOMAIN admitted : \E i \in A : j = Dialog!Job(answer, i)
  <2> TAKE j \in DOMAIN all \ DOMAIN admitted
  <2>1. PICK r \in 1..c : j = Len(admitted) + r
    BY <1>0, <1>4
  <2>2. PICK i \in A : Dialog!Rank(A, i) = r
    BY <1>2
  <2> QED
    BY <1>3, <2>1, <2>2
<1>7. DOMAIN admitted \subseteq DOMAIN all /\ \A j \in DOMAIN admitted : all[j] = admitted[j]
  BY <1>0, <1>4
<1> QED
  BY <1>1, <1>4, <1>5, <1>6, <1>7 DEF A, new, all

LEMMA SingleAdmits ==
  ASSUME Lists, Len(submitted) = 1
  PROVE  /\ submitted[1] \in picked /\ 1 \in DOMAIN submitted
         /\ Append(admitted, submitted[1]) \in Seq(picked)
         /\ DOMAIN Append(admitted, submitted[1]) = DOMAIN admitted \cup {Len(admitted) + 1}
         /\ Len(admitted) + 1 \notin DOMAIN admitted
         /\ \A j \in DOMAIN admitted : Append(admitted, submitted[1])[j] = admitted[j]
         /\ Append(admitted, submitted[1])[Len(admitted) + 1] = submitted[1]
<1> DEFINE f == submitted[1]
<1>1. /\ admitted \in Seq(picked) /\ Len(admitted) \in Nat
      /\ DOMAIN admitted = 1..Len(admitted) /\ DOMAIN submitted = 1..1
      /\ f \in picked
  <2>1. admitted \in Seq(picked) /\ submitted \in Seq(picked)
    BY DEF Lists
  <2>2. Len(admitted) \in Nat /\ DOMAIN admitted = 1..Len(admitted)
    BY <2>1, LenProperties
  <2>3. DOMAIN submitted = 1..1 /\ submitted \in [1..1 -> picked]
    BY <2>1, LenProperties
  <2> QED
    BY <2>1, <2>2, <2>3
<1> HIDE DEF f
<1>2. /\ Append(admitted, f) \in Seq(picked) /\ Len(Append(admitted, f)) = Len(admitted) + 1
      /\ \A i \in 1..Len(admitted) : Append(admitted, f)[i] = admitted[i]
      /\ Append(admitted, f)[Len(admitted) + 1] = f
  BY <1>1, AppendProperties
<1>3. DOMAIN Append(admitted, f) = 1..(Len(admitted) + 1)
  BY <1>2, LenProperties
<1>4. 1..(Len(admitted) + 1) = 1..Len(admitted) \cup {Len(admitted) + 1}
  BY <1>1
<1>5. Len(admitted) + 1 \notin 1..Len(admitted)
  BY <1>1
<1> QED
  BY <1>1, <1>2, <1>3, <1>4, <1>5 DEF f

(* Jobs of which the answer is lost come after the earlier ones.           *)
LEMMA FailureAdmits ==
  ASSUME Lists, NEW n \in 0..Len(submitted)
  PROVE  /\ admitted \o SubSeq(submitted, 1, n) \in Seq(picked)
         /\ DOMAIN (admitted \o SubSeq(submitted, 1, n)) =
              DOMAIN admitted \cup (Len(admitted) + 1)..(Len(admitted) + n)
         /\ DOMAIN admitted \cap (Len(admitted) + 1)..(Len(admitted) + n) = {}
         /\ \A j \in DOMAIN admitted : (admitted \o SubSeq(submitted, 1, n))[j] = admitted[j]
<1> DEFINE part == SubSeq(submitted, 1, n)
<1>1. /\ admitted \in Seq(picked) /\ submitted \in Seq(picked)
      /\ Len(admitted) \in Nat /\ Len(submitted) \in Nat
      /\ DOMAIN admitted = 1..Len(admitted) /\ n \in Nat
  BY LenProperties DEF Lists
<1>2. part \in Seq(picked) /\ Len(part) = n
  <2>1. CASE n = 0
    BY <1>1, <2>1, SubSeqEmpty, EmptySeq
  <2>2. CASE n # 0
    BY <1>1, <2>2, SubSeqProperties
  <2> QED
    BY <2>1, <2>2
<1> HIDE DEF part
<1>3. /\ admitted \o part \in Seq(picked) /\ DOMAIN (admitted \o part) = 1..(Len(admitted) + n)
      /\ \A j \in 1..Len(admitted) : (admitted \o part)[j] = admitted[j]
  <2>1. /\ admitted \o part \in Seq(picked)
        /\ DOMAIN (admitted \o part) = 1..(Len(admitted) + Len(part))
        /\ \A j \in 1..Len(admitted) : (admitted \o part)[j] = admitted[j]
    <3>1. admitted \in Seq(picked) /\ part \in Seq(picked)
      BY <1>1, <1>2
    <3> QED
      BY <3>1, Joined
  <2> QED
    BY <1>2, <2>1
<1>4. 1..(Len(admitted) + n) = 1..Len(admitted) \cup (Len(admitted) + 1)..(Len(admitted) + n)
  BY <1>1
<1>5. 1..Len(admitted) \cap (Len(admitted) + 1)..(Len(admitted) + n) = {}
  BY <1>1
<1> QED
  BY <1>1, <1>3, <1>4, <1>5 DEF part
(* What every end of an upload does to the types.                          *)
LEMMA EndTyped ==
  ASSUME DialogTyped, uploading, UNCHANGED <<name, picked, submits>>,
         uploading' = FALSE, submitted' = <<>>,
         open' \in BOOLEAN, needsVision' \in BOOLEAN,
         open' = open \/ files' = <<>>,
         files' \in Seq(picked), admitted' \in Seq(picked),
         message' \subseteq Names \cup {"limit", "request"},
         handed' \subseteq [job : DOMAIN admitted', file : picked],
         lost' \subseteq DOMAIN admitted', bulk' \subseteq DOMAIN admitted'
  PROVE  DialogTyped'
<1>1. Lists'
  BY EmptyList DEF Lists
<1>2. /\ Dialog!Range(files') \subseteq picked' /\ Dialog!Range(admitted') \subseteq picked'
      /\ Dialog!Range(submitted') \subseteq picked' /\ DOMAIN admitted' = 1..Len(admitted')
  BY <1>1, RangeWithin DEF Lists
<1>3. open /\ open \in BOOLEAN /\ picked \subseteq Files /\ submits \in 0..MaxSubmits
      /\ name \in [Files -> Names]
  BY DEF DialogTyped, Dialog!TypeOK
<1>4. uploading' = (submitted' # <<>>) /\ (uploading' => open') /\ (~open' => files' = <<>>)
  BY <1>3
<1>5. Dialog!TypeOK'
  BY <1>2, <1>3, <1>4 DEF Dialog!TypeOK
<1> QED
  BY <1>1, <1>5 DEF DialogTyped

LEMMA NamesOfSubmitted ==
  ASSUME DialogTyped
  PROVE  \A i \in DOMAIN submitted : submitted[i] \in Files /\ name[submitted[i]] \in Names
<1>1. \A i \in DOMAIN submitted : submitted[i] \in picked
  BY RangeWithin DEF DialogTyped, Lists
<1> QED
  BY <1>1 DEF DialogTyped, Dialog!TypeOK

LEMMA HandedTyped ==
  ASSUME DialogTyped, NEW more, DOMAIN admitted \subseteq more
  PROVE  /\ handed \subseteq [job : more, file : picked] /\ lost \subseteq more
         /\ bulk \subseteq more
<1>1. DOMAIN admitted = 1..Len(admitted)
  BY RangeWithin DEF DialogTyped, Lists
<1> QED
  BY <1>1 DEF DialogTyped, Dialog!TypeOK

LEMMA SingleTyped ==
  ASSUME DialogTyped, NEW outcome, Dialog!SingleAnswered(outcome)
  PROVE  DialogTyped'
<1>0. /\ uploading /\ Len(submitted) = 1 /\ UNCHANGED <<name, picked, lost, bulk, submits>>
      /\ Lists /\ needsVision \in BOOLEAN /\ open \in BOOLEAN
  BY DEF Dialog!SingleAnswered, DialogTyped, Dialog!TypeOK
<1>1. CASE outcome = "admitted"
  <2>1. /\ admitted' = Append(admitted, submitted[1])
        /\ handed' = handed \cup {[job |-> Len(admitted) + 1, file |-> submitted[1]]}
        /\ Dialog!Reset /\ open' = FALSE
    BY <1>1 DEF Dialog!SingleAnswered
  <2>2. /\ admitted' \in Seq(picked) /\ DOMAIN admitted \subseteq DOMAIN admitted'
        /\ Len(admitted) + 1 \in DOMAIN admitted' /\ submitted[1] \in picked
    BY <1>0, <2>1, SingleAdmits
  <2>3. /\ handed' \subseteq [job : DOMAIN admitted', file : picked]
        /\ lost' \subseteq DOMAIN admitted' /\ bulk' \subseteq DOMAIN admitted'
    BY <1>0, <2>1, <2>2, HandedTyped
  <2>4. /\ files' = <<>> /\ submitted' = <<>> /\ uploading' = FALSE
        /\ files' \in Seq(picked) /\ message' = {} /\ needsVision' = FALSE
    BY <1>0, <2>1, ResetTyped
  <2> QED
    BY <1>0, <2>1, <2>2, <2>3, <2>4, EndTyped
<1>2. CASE outcome # "admitted"
  <2>1. /\ message' = {name[submitted[1]]}
        /\ needsVision' = (needsVision \/ outcome = "scanned")
        /\ uploading' = FALSE /\ submitted' = <<>>
        /\ UNCHANGED <<open, files, admitted, handed>>
    BY <1>2 DEF Dialog!SingleAnswered
  <2>2. name[submitted[1]] \in Names
    BY <1>0, SingleAdmits, NamesOfSubmitted
  <2>3. /\ handed' \subseteq [job : DOMAIN admitted', file : picked]
        /\ lost' \subseteq DOMAIN admitted' /\ bulk' \subseteq DOMAIN admitted'
    BY <1>0, <2>1, HandedTyped
  <2>4. files' \in Seq(picked) /\ admitted' \in Seq(picked)
    BY <1>0, <2>1 DEF Lists
  <2> QED
    BY <1>0, <2>1, <2>2, <2>3, <2>4, EndTyped
<1> QED
  BY <1>1, <1>2

(* Rows are made of admitted files of the submission.                      *)
LEMMA RowsTyped ==
  ASSUME DialogTyped, NEW answer \in Dialog!Answers
  PROVE  Dialog!RowsOf(answer) \subseteq
           [job : DOMAIN (admitted \o Dialog!AdmittedOf(answer)), file : picked]
<1> SUFFICES ASSUME NEW i \in Dialog!Admitted(answer), NEW k \in Dialog!FirstEcho(i)
             PROVE  [job |-> Dialog!Job(answer, i), file |-> submitted[k]] \in
                      [job : DOMAIN (admitted \o Dialog!AdmittedOf(answer)), file : picked]
  BY DEF Dialog!RowsOf
<1>1. Dialog!Job(answer, i) \in DOMAIN (admitted \o Dialog!AdmittedOf(answer))
  BY BulkAdmits DEF DialogTyped
<1>2. k \in DOMAIN submitted
  BY DEF Dialog!FirstEcho
<1>3. submitted[k] \in picked
  BY <1>2, RangeWithin DEF DialogTyped, Lists
<1> QED
  BY <1>1, <1>3

LEMMA BulkTyped ==
  ASSUME DialogTyped, NEW answer \in Dialog!Answers, Dialog!BulkAnswered(answer)
  PROVE  DialogTyped'
<1>0. /\ uploading /\ UNCHANGED <<name, picked, lost, submits>>
      /\ Lists /\ needsVision \in BOOLEAN /\ open \in BOOLEAN
      /\ admitted' = admitted \o Dialog!AdmittedOf(answer)
      /\ handed' = handed \cup Dialog!RowsOf(answer)
      /\ bulk' = bulk \cup {Dialog!Job(answer, i) : i \in Dialog!Admitted(answer)}
  BY DEF Dialog!BulkAnswered, DialogTyped, Dialog!TypeOK
<1>1. admitted' \in Seq(picked) /\ DOMAIN admitted \subseteq DOMAIN admitted'
  BY <1>0, BulkAdmits
<1>2. /\ handed' \subseteq [job : DOMAIN admitted', file : picked]
      /\ lost' \subseteq DOMAIN admitted' /\ bulk' \subseteq DOMAIN admitted'
  <2>1. \A i \in Dialog!Admitted(answer) : Dialog!Job(answer, i) \in DOMAIN admitted'
    BY <1>0, BulkAdmits
  <2>2. /\ handed \subseteq [job : DOMAIN admitted', file : picked]
        /\ lost \subseteq DOMAIN admitted' /\ bulk \subseteq DOMAIN admitted'
    BY <1>1, HandedTyped
  <2>3. Dialog!RowsOf(answer) \subseteq [job : DOMAIN admitted', file : picked]
    BY <1>0, RowsTyped
  <2> QED
    BY <1>0, <2>1, <2>2, <2>3
<1>3. CASE \E i \in Dialog!Failed(answer) : answer[i] = "scanned"
  <2> DEFINE places == {k \in DOMAIN files :
                          \E i \in Dialog!Failed(answer) : Dialog!Echoes(files[k], i)}
  <2>1. /\ files' = Dialog!Filtered(files, places)
        /\ message' = {name[submitted[i]] : i \in Dialog!Failed(answer)}
        /\ needsVision' = TRUE /\ uploading' = FALSE /\ submitted' = <<>>
        /\ UNCHANGED open
    BY <1>3 DEF Dialog!BulkAnswered
  <2>2. files' \in Seq(picked)
    <3>1. files \in Seq(picked) /\ places \in SUBSET DOMAIN files
      BY <1>0 DEF Lists
    <3> HIDE DEF places
    <3> QED
      BY <2>1, <3>1, FilteredList
  <2>3. message' \subseteq Names
    BY <2>1, NamesOfSubmitted DEF Dialog!Failed, Dialog!Answers
  <2> HIDE DEF places
  <2> QED
    BY <1>0, <1>1, <1>2, <2>1, <2>2, <2>3, EndTyped
<1>4. CASE ~\E i \in Dialog!Failed(answer) : answer[i] = "scanned"
  <2>1. Dialog!Reset /\ open' = FALSE
    BY <1>4 DEF Dialog!BulkAnswered
  <2>2. /\ files' = <<>> /\ submitted' = <<>> /\ uploading' = FALSE
        /\ files' \in Seq(picked) /\ message' = {} /\ needsVision' = FALSE
    BY <1>0, <2>1, ResetTyped
  <2> QED
    BY <1>0, <1>1, <1>2, <2>1, <2>2, EndTyped
<1> QED
  BY <1>3, <1>4

(* How many jobs a failed submission leaves on the server.                 *)
LEMMA FailureShape ==
  ASSUME DialogTyped, Dialog!SubmitFails
  PROVE  \E n \in 0..Len(submitted) :
           /\ admitted' = admitted \o SubSeq(submitted, 1, n)
           /\ lost' = lost \cup (Len(admitted) + 1)..(Len(admitted) + n)
<1>1. Len(submitted) \in Nat
  BY RangeWithin DEF DialogTyped, Lists
<1>2. 0 \in 0..Len(submitted)
  BY <1>1
<1> QED
  BY <1>2 DEF Dialog!SubmitFails

LEMMA FailureTyped ==
  ASSUME DialogTyped, Dialog!SubmitFails
  PROVE  DialogTyped'
<1>0. /\ uploading /\ uploading' = FALSE /\ submitted' = <<>>
      /\ message' \subseteq {"request"}
      /\ UNCHANGED <<name, open, files, needsVision, picked, bulk, handed, submits>>
      /\ Lists /\ needsVision \in BOOLEAN /\ open \in BOOLEAN
  BY DEF Dialog!SubmitFails, DialogTyped, Dialog!TypeOK
<1>1. PICK n \in 0..Len(submitted) :
        /\ admitted' = admitted \o SubSeq(submitted, 1, n)
        /\ lost' = lost \cup (Len(admitted) + 1)..(Len(admitted) + n)
  BY FailureShape
<1>2. /\ admitted' \in Seq(picked) /\ DOMAIN admitted \subseteq DOMAIN admitted'
      /\ (Len(admitted) + 1)..(Len(admitted) + n) \subseteq DOMAIN admitted'
  BY <1>0, <1>1, FailureAdmits
<1>3. /\ handed' \subseteq [job : DOMAIN admitted', file : picked]
      /\ lost' \subseteq DOMAIN admitted' /\ bulk' \subseteq DOMAIN admitted'
  BY <1>0, <1>1, <1>2, HandedTyped
<1>4. files' \in Seq(picked)
  BY <1>0 DEF Lists
<1> QED
  BY <1>0, <1>2, <1>3, <1>4, EndTyped
LEMMA PageTyped ==
  ASSUME DialogTyped, [PageNext]_<<vars, dialogVars>>
  PROVE  DialogTyped' /\ name' = name
<1>1. CASE UseDialog
  <2>1. name' = name
    BY <1>1 DEF UseDialog, Dialog!OpenDialog, Dialog!CloseDialog, Dialog!SelectFiles,
       Dialog!DropFiles, Dialog!HandleFiles, Dialog!HandleSubmit
  <2> QED
    BY <1>1, <2>1, UseTyped
<1>2. CASE UploadEnds
  <2>1. name' = name
    BY <1>2 DEF UploadEnds, Dialog!SingleAnswered, Dialog!BulkAnswered, Dialog!SubmitFails
  <2> QED
    BY <1>2, <2>1, SingleTyped, BulkTyped, FailureTyped DEF UploadEnds
<1>3. CASE UNCHANGED dialogVars
  BY <1>3 DEF dialogVars, DialogTyped, Lists, Dialog!TypeOK
<1> QED
  BY <1>1, <1>2, <1>3 DEF PageNext, UseList, ServerConverts

LEMMA PageInitially ==
  ASSUME PageInit
  PROVE  ListInv /\ DialogTyped
<1>1. Init /\ Dialog!Init
  BY DEF PageInit
<1>2. /\ name \in [Files -> Names]
      /\ open = FALSE /\ files = <<>> /\ uploading = FALSE /\ submitted = <<>>
      /\ needsVision = FALSE /\ message = {} /\ picked = {}
      /\ admitted = <<>> /\ lost = {} /\ bulk = {} /\ handed = {} /\ submits = 0
  BY <1>1 DEF Dialog!Init
<1>3. Lists /\ Dialog!Range(<<>>) = {}
  BY <1>2, EmptyList DEF Lists
<1>4. 0 \in 0..MaxSubmits
  BY PageAssumption
<1> QED
  BY <1>1, <1>2, <1>3, <1>4, Initially DEF DialogTyped, Dialog!TypeOK

(* Every variable of the page keeps its type, the files of the dialog      *)
(* among them.                                                             *)
THEOREM TypeCorrect == PageSpec => [](TypeOK /\ Dialog!TypeOK)
<1>1. PageSpec => []DialogTyped
  BY PageInitially, PageTyped, PTL DEF PageSpec
<1> QED
  BY <1>1, PageImplementsList, ListInvariance, PTL DEF ListInv, PollInv, DialogTyped

----------------------------------------------------------------------------
(* What the dialog offers, what it has sent and what the user knows to be  *)
(* admitted: a file under submission is listed until the answer comes, and *)
(* one that the answer leaves in the list though it was admitted has a     *)
(* namesake there.                                                         *)
Beside ==
  /\ Dialog!IsInjective(files) /\ Dialog!IsInjective(submitted)
  /\ Dialog!Range(submitted) \subseteq Dialog!Range(files)
  /\ OnlyNamesakesRemain

DialogInv == DialogTyped /\ Beside

LEMMA ToldWithin ==
  ASSUME DialogTyped
  PROVE  Told \subseteq picked /\ lost \subseteq DOMAIN admitted
BY RangeWithin DEF DialogTyped, Lists, Told, Dialog!Answered, Dialog!TypeOK

(* An answer that arrives tells of the jobs it adds.                       *)
LEMMA AnswerTells ==
  ASSUME DialogTyped, lost' = lost, DOMAIN admitted \subseteq DOMAIN admitted',
         \A j \in DOMAIN admitted : admitted'[j] = admitted[j]
  PROVE  /\ Dialog!Answered' = Dialog!Answered \cup (DOMAIN admitted' \ DOMAIN admitted)
         /\ Told' = Told \cup {admitted'[j] : j \in DOMAIN admitted' \ DOMAIN admitted}
<1>1. Dialog!Answered' = Dialog!Answered \cup (DOMAIN admitted' \ DOMAIN admitted)
  BY ToldWithin DEF Dialog!Answered
<1>2. \A j \in Dialog!Answered : admitted'[j] = admitted[j]
  BY DEF Dialog!Answered
<1> QED
  BY <1>1, <1>2 DEF Told

LEMMA FailureTellsNothing ==
  ASSUME DialogTyped, Dialog!SubmitFails
  PROVE  /\ Dialog!Answered' = Dialog!Answered /\ Told' = Told
         /\ \A j \in Dialog!Answered : admitted'[j] = admitted[j]
<1>1. PICK n \in 0..Len(submitted) :
        /\ admitted' = admitted \o SubSeq(submitted, 1, n)
        /\ lost' = lost \cup (Len(admitted) + 1)..(Len(admitted) + n)
  BY FailureShape
<1> DEFINE new == (Len(admitted) + 1)..(Len(admitted) + n)
<1>2. /\ DOMAIN admitted' = DOMAIN admitted \cup new /\ DOMAIN admitted \cap new = {}
      /\ \A j \in DOMAIN admitted : admitted'[j] = admitted[j]
  BY <1>1, FailureAdmits DEF DialogTyped
<1>3. lost' = lost \cup new /\ lost \subseteq DOMAIN admitted
  BY <1>1, ToldWithin
<1> HIDE DEF new
<1>4. Dialog!Answered' = Dialog!Answered
  BY <1>2, <1>3 DEF Dialog!Answered
<1>5. \A j \in Dialog!Answered : admitted'[j] = admitted[j]
  BY <1>2 DEF Dialog!Answered
<1> QED
  BY <1>4, <1>5 DEF Told

(* Nothing listed and nothing known: no file has to have a namesake.       *)
LEMMA EmptyBeside ==
  ASSUME files' = <<>>, submitted' = <<>>
  PROVE  Beside'
BY EmptyList DEF Beside, OnlyNamesakesRemain

(* New selections are new to the list and to the user.                     *)
LEMMA SelectingBeside ==
  ASSUME DialogInv, NEW list \in Dialog!Listings, NEW known, Dialog!HandleFiles(list, known)
  PROVE  Beside'
<1>1. list \in Seq(Files \ picked) /\ Dialog!IsInjective(list)
  BY ListingsAreLists
<1>2. Dialog!Range(list) \cap picked = {} /\ \A k \in DOMAIN list : list[k] \notin picked
  BY <1>1, RangeWithin
<1>3. /\ files \in Seq(picked) /\ Dialog!Range(files) \subseteq picked /\ Told \subseteq picked
      /\ DOMAIN files = 1..Len(files)
  BY RangeWithin, ToldWithin DEF DialogInv, DialogTyped, Lists
<1>4. files \in Seq(Files) /\ list \in Seq(Files) /\ DOMAIN list = 1..Len(list)
  BY <1>1, <1>3, SeqMonotonic, RangeWithin DEF DialogInv, DialogTyped, Dialog!TypeOK
<1>5. /\ Dialog!IsInjective(files \o list)
      /\ Dialog!Range(files \o list) = Dialog!Range(files) \cup Dialog!Range(list)
  <2>1. Dialog!Range(files) \cap Dialog!Range(list) = {}
    BY <1>2, <1>3
  <2>2. Dialog!IsInjective(files)
    BY DEF DialogInv, Beside
  <2> QED
    BY <1>1, <1>4, <2>1, <2>2, Joined, JoinedOnce
<1>6. files' \in {files, files \o list} /\ UNCHANGED <<name, submitted, admitted, lost>>
  BY DEF Dialog!HandleFiles
<1>7. Told' = Told
  BY <1>6 DEF Told, Dialog!Answered
<1> DEFINE both == files \o list
<1>8. ASSUME NEW i \in DOMAIN both, both[i] \in Told
      PROVE  \E k \in DOMAIN both \ {i} : name[both[k]] = name[both[i]]
  <2>1. /\ \A k \in DOMAIN files : k \in DOMAIN both /\ both[k] = files[k]
        /\ \A k \in DOMAIN list : both[Len(files) + k] = list[k]
        /\ i \in DOMAIN files \/ \E k \in DOMAIN list : i = Len(files) + k
    BY <1>3, <1>4, <1>8, Joined
  <2> HIDE DEF both
  <2>2. i \in DOMAIN files
    BY <1>2, <1>3, <1>8, <2>1
  <2>3. PICK k \in DOMAIN files \ {i} : name[files[k]] = name[files[i]]
    BY <1>8, <2>1, <2>2 DEF DialogInv, Beside, OnlyNamesakesRemain
  <2> QED
    BY <2>1, <2>2, <2>3
<1>9. OnlyNamesakesRemain'
  <2>1. CASE files' = files
    BY <1>6, <1>7, <2>1 DEF DialogInv, Beside, OnlyNamesakesRemain
  <2>2. CASE files' = both
    <3> HIDE DEF both
    <3> QED
      BY <1>6, <1>7, <1>8, <2>2 DEF OnlyNamesakesRemain
  <2> QED
    BY <1>6, <2>1, <2>2
<1> QED
  BY <1>5, <1>6, <1>9 DEF DialogInv, Beside

LEMMA UseBeside ==
  ASSUME DialogInv, UseDialog
  PROVE  Beside'
<1>1. CASE Dialog!OpenDialog
  BY <1>1 DEF Dialog!OpenDialog, DialogInv, Beside, OnlyNamesakesRemain, Told, Dialog!Answered
<1>2. CASE Dialog!CloseDialog
  BY <1>2, EmptyBeside DEF Dialog!CloseDialog, Dialog!Reset
<1>3. CASE Dialog!SelectFiles \/ Dialog!DropFiles
  BY <1>3, SelectingBeside DEF Dialog!SelectFiles, Dialog!DropFiles
<1>4. CASE Dialog!HandleSubmit
  BY <1>4 DEF Dialog!HandleSubmit, DialogInv, Beside, OnlyNamesakesRemain, Told, Dialog!Answered
<1> QED
  BY <1>1, <1>2, <1>3, <1>4 DEF UseDialog

(* A listed file whose name the answer gives as failed, and which the user *)
(* knows or gets to know to be admitted, has a namesake in the list.       *)
LEMMA NamesakeListed ==
  ASSUME DialogInv, NEW answer \in Dialog!Answers, NEW i \in Dialog!Failed(answer),
         NEW k \in DOMAIN files, Dialog!Echoes(files[k], i),
         \/ files[k] \in Told
         \/ \E a \in Dialog!Admitted(answer) : files[k] = submitted[a]
  PROVE  \E m \in DOMAIN files \ {k} : name[files[m]] = name[files[k]]
<1>1. CASE files[k] \in Told
  BY <1>1 DEF DialogInv, Beside, OnlyNamesakesRemain
<1>2. ASSUME NEW a \in Dialog!Admitted(answer), files[k] = submitted[a]
      PROVE  \E m \in DOMAIN files \ {k} : name[files[m]] = name[files[k]]
  <2>1. a # i /\ a \in DOMAIN submitted /\ i \in DOMAIN submitted
    BY DEF Dialog!Admitted, Dialog!Failed, Dialog!Answers
  <2>2. submitted[i] # submitted[a]
    BY <2>1 DEF DialogInv, Beside, Dialog!IsInjective
  <2>3. PICK m \in DOMAIN files : files[m] = submitted[i]
    BY <2>1 DEF DialogInv, Beside, Dialog!Range
  <2> QED
    BY <1>2, <2>2, <2>3 DEF Dialog!Echoes
<1> QED
  BY <1>1, <1>2

(* The list is cut down by name, so that namesakes go or stay together.    *)
LEMMA BulkBeside ==
  ASSUME DialogInv, NEW answer \in Dialog!Answers, Dialog!BulkAnswered(answer)
  PROVE  Beside'
<1>0. DialogTyped /\ Beside /\ Lists
  BY DEF DialogInv, DialogTyped
<1>1. CASE ~\E i \in Dialog!Failed(answer) : answer[i] = "scanned"
  BY <1>1, EmptyBeside DEF Dialog!BulkAnswered, Dialog!Reset
<1>2. CASE \E i \in Dialog!Failed(answer) : answer[i] = "scanned"
  <2> DEFINE places == {k \in DOMAIN files :
                          \E i \in Dialog!Failed(answer) : Dialog!Echoes(files[k], i)}
  <2>1. /\ files' = Dialog!Filtered(files, places) /\ submitted' = <<>> /\ lost' = lost
        /\ admitted' = admitted \o Dialog!AdmittedOf(answer) /\ name' = name
    BY <1>2 DEF Dialog!BulkAnswered
  <2>2. places \in SUBSET DOMAIN files /\ files \in Seq(picked)
    BY <1>0 DEF Lists
  <2>3. Dialog!IsInjective(files')
    BY <1>0, <2>1, <2>2, FilteredOnce DEF Beside
  <2>4. /\ \A r \in DOMAIN files' : \E k \in places : files'[r] = files[k]
        /\ \A k \in places : \E r \in DOMAIN files' : files'[r] = files[k]
    <3> HIDE DEF places
    <3> DEFINE size == Cardinality(places)
    <3>1. /\ DOMAIN files' = 1..size
          /\ \A k \in places : /\ Dialog!Rank(places, k) \in 1..size
                               /\ files'[Dialog!Rank(places, k)] = files[k]
          /\ \A r \in 1..size : \E k \in places : files'[r] = files[k]
      BY <2>1, <2>2, FilteredList
    <3> HIDE DEF size
    <3> QED
      BY <3>1
  <2>5. Told' = Told \cup {admitted'[j] : j \in DOMAIN admitted' \ DOMAIN admitted}
    <3>1. /\ DOMAIN admitted \subseteq DOMAIN admitted'
          /\ \A j \in DOMAIN admitted : admitted'[j] = admitted[j]
      BY <1>0, <2>1, BulkAdmits
    <3> QED
      BY <1>0, <2>1, <3>1, AnswerTells
  <2>6. \A j \in DOMAIN admitted' \ DOMAIN admitted :
          \E a \in Dialog!Admitted(answer) : admitted'[j] = submitted[a]
    BY <1>0, <2>1, BulkAdmits
  <2>7. ASSUME NEW r \in DOMAIN files', files'[r] \in Told'
        PROVE  \E q \in DOMAIN files' \ {r} : name[files'[q]] = name[files'[r]]
    <3>1. PICK k \in places : files'[r] = files[k]
      BY <2>4
    <3>2. PICK i \in Dialog!Failed(answer) : Dialog!Echoes(files[k], i)
      OBVIOUS
    <3>3. PICK m \in DOMAIN files \ {k} : name[files[m]] = name[files[k]]
      <4>1. \/ files[k] \in Told
            \/ \E a \in Dialog!Admitted(answer) : files[k] = submitted[a]
        BY <2>5, <2>6, <2>7, <3>1
      <4> QED
        BY <3>2, <4>1, NamesakeListed
    <3>4. m \in places
      BY <3>2, <3>3 DEF Dialog!Echoes
    <3>5. PICK q \in DOMAIN files' : files'[q] = files[m]
      BY <2>4, <3>4
    <3>6. files[m] # files[k]
      BY <1>0, <3>3 DEF Beside, Dialog!IsInjective
    <3> QED
      BY <3>1, <3>3, <3>5, <3>6
  <2>8. OnlyNamesakesRemain'
    <3> HIDE DEF places
    <3> QED
      BY <2>1, <2>7 DEF OnlyNamesakesRemain
  <2> QED
    BY <2>1, <2>3, <2>8, EmptyList DEF Beside
<1> QED
  BY <1>1, <1>2

LEMMA UploadBeside ==
  ASSUME DialogInv, UploadEnds
  PROVE  Beside'
<1>0. DialogTyped /\ Beside
  BY DEF DialogInv
<1>1. ASSUME NEW outcome, Dialog!SingleAnswered(outcome) PROVE Beside'
  <2>1. CASE outcome = "admitted"
    BY <1>1, <2>1, EmptyBeside DEF Dialog!SingleAnswered, Dialog!Reset
  <2>2. CASE outcome # "admitted"
    <3>1. UNCHANGED <<name, files, admitted, lost>> /\ submitted' = <<>>
      BY <1>1, <2>2 DEF Dialog!SingleAnswered
    <3>2. Told' = Told
      BY <3>1 DEF Told, Dialog!Answered
    <3> QED
      BY <1>0, <3>1, <3>2, EmptyList DEF Beside, OnlyNamesakesRemain
  <2> QED
    BY <2>1, <2>2
<1>2. ASSUME NEW answer \in Dialog!Answers, Dialog!BulkAnswered(answer) PROVE Beside'
  BY <1>2, BulkBeside
<1>3. CASE Dialog!SubmitFails
  <2>1. files' = files /\ name' = name /\ submitted' = <<>>
    BY <1>3 DEF Dialog!SubmitFails
  <2>2. Told' = Told
    BY <1>0, <1>3, FailureTellsNothing
  <2> QED
    BY <1>0, <2>1, <2>2, EmptyList DEF Beside, OnlyNamesakesRemain
<1> QED
  BY <1>1, <1>2, <1>3 DEF UploadEnds

LEMMA DialogStep == DialogInv /\ [PageNext]_<<vars, dialogVars>> => DialogInv'
<1> SUFFICES ASSUME DialogInv, [PageNext]_<<vars, dialogVars>> PROVE DialogInv'
  OBVIOUS
<1>1. DialogTyped'
  BY PageTyped DEF DialogInv
<1>2. CASE UNCHANGED dialogVars
  <2>1. UNCHANGED <<name, files, submitted, admitted, lost>>
    BY <1>2 DEF dialogVars
  <2> QED
    BY <1>1, <2>1 DEF DialogInv, Beside, OnlyNamesakesRemain, Told, Dialog!Answered
<1>3. UseDialog \/ UploadEnds => Beside'
  BY UseBeside, UploadBeside
<1> QED
  BY <1>1, <1>2, <1>3 DEF PageNext, UseList, ServerConverts, DialogInv

LEMMA DialogInvariance == PageSpec => []DialogInv
<1>1. PageInit => DialogInv
  <2> SUFFICES ASSUME PageInit PROVE DialogInv
    OBVIOUS
  <2>1. files = <<>> /\ submitted = <<>>
    BY DEF PageInit, Dialog!Init
  <2> QED
    BY <2>1, PageInitially, EmptyList DEF DialogInv, Beside, OnlyNamesakesRemain
<1> QED
  BY <1>1, DialogStep, PTL DEF PageSpec

(* What the dialog offers for a retry has no job the user was told of, or  *)
(* shares its name with another file on offer, whatever the answers, the   *)
(* losses and the files picked while an upload was under way.              *)
THEOREM NamesakesRemain == PageSpec => []OnlyNamesakesRemain
<1>1. DialogInv => OnlyNamesakesRemain
  BY DEF DialogInv, Beside
<1> QED
  BY <1>1, DialogInvariance, PTL
----------------------------------------------------------------------------
(* Rows, jobs and previews.                                                *)

(* Every tracked job has its row, and the row the file of its job or one   *)
(* of the same name.                                                       *)
Corresponds ==
  /\ {h.job : h \in handed} = Tracked
  /\ rows = Tracked
  /\ RowsMatch

(* A name that comes back finds the first file that has it; one that does  *)
(* not finds none.                                                         *)
LEMMA EchoFound ==
  ASSUME DialogTyped, NEW i \in DOMAIN submitted
  PROVE  /\ \A k \in Dialog!FirstEcho(i) : /\ k \in DOMAIN submitted
                                          /\ name[submitted[k]] = name[submitted[i]]
         /\ Dialog!FirstEcho(i) # {} <=> name[submitted[i]] \notin Altered
<1> DEFINE found == {k \in DOMAIN submitted : Dialog!Echoes(submitted[k], i)}
           upto(k) == {l \in found : l <= k}
<1>0. DOMAIN submitted = 1..Len(submitted) /\ Len(submitted) \in Nat
  BY RangeWithin DEF DialogTyped, Lists
<1>1. \A k \in Dialog!FirstEcho(i) : k \in found
  BY DEF Dialog!FirstEcho
<1>2. ASSUME name[submitted[i]] \notin Altered PROVE Dialog!FirstEcho(i) # {}
  <2>1. i \in found
    BY <1>2 DEF Dialog!Echoes
  <2>2. found \in SUBSET (1..Len(submitted))
    BY <1>0
  <2>3. /\ Cardinality(found) \in Nat
        /\ \A k \in found : Dialog!Rank(found, k) \in 1..Cardinality(found)
        /\ \A k, l \in found : Dialog!Rank(found, k) = Dialog!Rank(found, l) => k = l
        /\ \A r \in 1..Cardinality(found) : \E k \in found : Dialog!Rank(found, k) = r
    <3> HIDE DEF found
    <3> QED
      BY <1>0, <2>2, RankBijection
  <2>4. 1 \in 1..Cardinality(found)
    <3> HIDE DEF found
    <3> QED
      BY <2>1, <2>3
  <2>5. PICK k \in found : Dialog!Rank(found, k) = 1
    BY <2>3, <2>4
  <2>6. ASSUME NEW l \in found, l < k PROVE FALSE
    <3>1. upto(l) \in SUBSET upto(k) /\ upto(k) \in SUBSET (1..Len(submitted))
      BY <1>0, <2>2, <2>6
    <3>2. Dialog!Rank(found, l) = Cardinality(upto(l)) /\ Cardinality(upto(k)) = 1
      BY <2>5, Counting DEF Dialog!Rank
    <3> HIDE DEF found, upto
    <3>3. IsFiniteSet(upto(k))
      <4>1. IsFiniteSet(1..Len(submitted))
        BY <1>0, FS_Interval
      <4> QED
        BY <3>1, <4>1, FS_Subset
    <3>4. Cardinality(upto(l)) <= 1
      BY <3>1, <3>2, <3>3, FS_Subset
    <3>5. Dialog!Rank(found, l) = 1
      BY <2>3, <2>6, <3>2, <3>4
    <3> QED
      BY <1>0, <2>2, <2>3, <2>5, <2>6, <3>5
  <2>7. \A l \in 1..(k - 1) : l \in DOMAIN submitted /\ l < k
    BY <1>0, <2>5
  <2>8. \A l \in 1..(k - 1) : ~Dialog!Echoes(submitted[l], i)
    BY <2>6, <2>7
  <2> QED
    BY <2>5, <2>8 DEF Dialog!FirstEcho
<1>3. ASSUME name[submitted[i]] \in Altered PROVE Dialog!FirstEcho(i) = {}
  BY <1>3 DEF Dialog!FirstEcho, Dialog!Echoes
<1> QED
  BY <1>1, <1>2, <1>3 DEF Dialog!Echoes

(* Rows of an earlier answer keep their file when jobs are added.          *)
LEMMA MatchKept ==
  ASSUME DialogTyped, Corresponds, name' = name,
         \A j \in Dialog!Answered : admitted'[j] = admitted[j] /\ (j \in bulk' <=> j \in bulk)
  PROVE  \A h \in handed : /\ name'[h.file] = name'[admitted'[h.job]]
                           /\ h.job \notin bulk' => h.file = admitted'[h.job]
<1> TAKE h \in handed
<1>1. h.job \in Dialog!Answered
  BY DEF Corresponds, Tracked
<1> QED
  BY <1>1 DEF Corresponds, RowsMatch

(* Tracked jobs stay tracked, and new ones count as they are admitted.     *)
LEMMA TrackedGrows ==
  ASSUME DialogTyped, name' = name, NEW new, new \cap Dialog!Answered = {},
         Dialog!Answered' = Dialog!Answered \cup new,
         \A j \in Dialog!Answered : admitted'[j] = admitted[j] /\ (j \in bulk' <=> j \in bulk)
  PROVE  Tracked' = Tracked \cup {j \in new : j \in bulk' => name[admitted'[j]] \notin Altered}
BY DEF Tracked

(* The page lists the jobs it was handed.                                  *)
LEMMA RowsFollow ==
  ASSUME Corresponds, UploadEnds, handed \subseteq handed'
  PROVE  rows' = {h.job : h \in handed'}
<1>1. CASE handed' = handed
  BY <1>1 DEF UploadEnds, vars, Corresponds
<1>2. CASE handed' # handed
  <2>1. rows' = rows \cup {h.job : h \in handed'}
    BY <1>2 DEF UploadEnds
  <2> QED
    BY <2>1 DEF Corresponds
<1> QED
  BY <1>1, <1>2

LEMMA SingleCorresponds ==
  ASSUME DialogTyped, Corresponds, UploadEnds, NEW outcome, Dialog!SingleAnswered(outcome)
  PROVE  Corresponds'
<1>1. CASE outcome = "admitted"
  <2> DEFINE n == Len(admitted) + 1
             new == [job |-> n, file |-> submitted[1]]
  <2>1. /\ admitted' = Append(admitted, submitted[1]) /\ handed' = handed \cup {new}
        /\ lost' = lost /\ bulk' = bulk /\ name' = name /\ Len(submitted) = 1
    BY <1>1 DEF Dialog!SingleAnswered
  <2>2. /\ DOMAIN admitted' = DOMAIN admitted \cup {n}
        /\ n \notin DOMAIN admitted
        /\ \A j \in DOMAIN admitted : admitted'[j] = admitted[j]
        /\ admitted'[n] = submitted[1]
    BY <2>1, SingleAdmits DEF DialogTyped
  <2>4. new.job = n /\ new.file = submitted[1]
    OBVIOUS
  <2> HIDE DEF new, n
  <2>3. Dialog!Answered' = Dialog!Answered \cup {n}
    <3>1. Dialog!Answered' = Dialog!Answered \cup (DOMAIN admitted' \ DOMAIN admitted)
      BY <2>1, <2>2, AnswerTells
    <3> QED
      BY <2>2, <3>1
  <2>5. n \notin bulk /\ n \notin Dialog!Answered
    BY <2>2 DEF DialogTyped, Dialog!TypeOK, Dialog!Answered
  <2>6. \A j \in Dialog!Answered : admitted'[j] = admitted[j] /\ (j \in bulk' <=> j \in bulk)
    BY <2>1, <2>2 DEF Dialog!Answered
  <2>7. Tracked' = Tracked \cup {n}
    <3>1. Tracked' = Tracked \cup
            {j \in {n} : j \in bulk' => name[admitted'[j]] \notin Altered}
      BY <2>1, <2>3, <2>6 DEF Tracked
    <3> QED
      BY <2>1, <2>5, <3>1
  <2>8. {h.job : h \in handed'} = Tracked'
    BY <2>1, <2>4, <2>7 DEF Corresponds
  <2>9. rows' = Tracked'
    BY <2>1, <2>8, RowsFollow
  <2>10. RowsMatch'
    BY <2>1, <2>2, <2>4, <2>6, MatchKept DEF RowsMatch
  <2> QED
    BY <2>8, <2>9, <2>10 DEF Corresponds
<1>2. CASE outcome # "admitted"
  <2>1. UNCHANGED <<admitted, handed, lost, bulk, name>>
    BY <1>2 DEF Dialog!SingleAnswered
  <2>2. Tracked' = Tracked /\ rows' = rows
    BY <2>1 DEF Tracked, Dialog!Answered, UploadEnds, vars
  <2> QED
    BY <2>1, <2>2 DEF Corresponds, RowsMatch
<1> QED
  BY <1>1, <1>2

LEMMA BulkCorresponds ==
  ASSUME DialogInv, Corresponds, UploadEnds,
         NEW answer \in Dialog!Answers, Dialog!BulkAnswered(answer)
  PROVE  Corresponds'
<1> DEFINE A == Dialog!Admitted(answer)
           new == Dialog!RowsOf(answer)
           brought == DOMAIN admitted' \ DOMAIN admitted
<1>0. DialogTyped /\ Lists
  BY DEF DialogInv, DialogTyped
<1>1. /\ admitted' = admitted \o Dialog!AdmittedOf(answer)
      /\ handed' = handed \cup new /\ lost' = lost /\ name' = name
      /\ bulk' = bulk \cup {Dialog!Job(answer, i) : i \in A}
  BY DEF Dialog!BulkAnswered
<1>2. /\ DOMAIN admitted \subseteq DOMAIN admitted'
      /\ \A j \in DOMAIN admitted : admitted'[j] = admitted[j]
      /\ \A i \in A : /\ i \in DOMAIN submitted
                      /\ Dialog!Job(answer, i) \in brought
                      /\ admitted'[Dialog!Job(answer, i)] = submitted[i]
      /\ \A j \in brought : \E i \in A : j = Dialog!Job(answer, i)
  BY <1>0, <1>1, BulkAdmits
<1> HIDE DEF A, brought
<1>3. ASSUME NEW i \in A
      PROVE  /\ \A k \in Dialog!FirstEcho(i) : name[submitted[k]] = name[submitted[i]]
             /\ Dialog!FirstEcho(i) # {} <=> name[submitted[i]] \notin Altered
  BY <1>0, <1>2, <1>3, EchoFound
<1>4. \A h : (h \in new) <=> \E i \in A : \E k \in Dialog!FirstEcho(i) :
                             h = [job |-> Dialog!Job(answer, i), file |-> submitted[k]]
  BY DEF Dialog!RowsOf, A
<1> HIDE DEF new
<1>5. \A h \in new : \E i \in A :
        /\ h.job = Dialog!Job(answer, i) /\ name[h.file] = name[submitted[i]]
        /\ name[submitted[i]] \notin Altered
  <2> TAKE h \in new
  <2>1. PICK i \in A : \E k \in Dialog!FirstEcho(i) :
          h = [job |-> Dialog!Job(answer, i), file |-> submitted[k]]
    BY <1>4
  <2>2. PICK k \in Dialog!FirstEcho(i) :
          h = [job |-> Dialog!Job(answer, i), file |-> submitted[k]]
    BY <2>1
  <2>3. h.job = Dialog!Job(answer, i) /\ h.file = submitted[k]
    BY <2>2
  <2> QED
    BY <1>3, <2>2, <2>3
<1>6. \A i \in A : name[submitted[i]] \notin Altered =>
                     \E h \in new : h.job = Dialog!Job(answer, i)
  <2> SUFFICES ASSUME NEW i \in A, name[submitted[i]] \notin Altered
               PROVE  \E h \in new : h.job = Dialog!Job(answer, i)
    OBVIOUS
  <2>1. PICK k \in Dialog!FirstEcho(i) : TRUE
    BY <1>3
  <2> DEFINE h == [job |-> Dialog!Job(answer, i), file |-> submitted[k]]
  <2>2. h \in new /\ h.job = Dialog!Job(answer, i)
    BY <1>4, <2>1
  <2> QED
    BY <2>2
<1>7. {h.job : h \in new} = {j \in brought : name[admitted'[j]] \notin Altered}
  <2>1. \A h \in new : h.job \in brought /\ name[admitted'[h.job]] \notin Altered
    BY <1>2, <1>5
  <2>2. ASSUME NEW j \in brought, name[admitted'[j]] \notin Altered
        PROVE  \E h \in new : h.job = j
    BY <1>2, <1>6, <2>2
  <2> QED
    BY <2>1, <2>2
<1>8. Dialog!Answered' = Dialog!Answered \cup brought /\ brought \cap Dialog!Answered = {}
  BY <1>0, <1>1, <1>2, AnswerTells DEF brought, Dialog!Answered
<1>9. brought \subseteq bulk' /\ \A j \in Dialog!Answered : j \in bulk' <=> j \in bulk
  BY <1>1, <1>2, <1>8
<1>10. Tracked' = Tracked \cup {j \in brought : name[admitted'[j]] \notin Altered}
  <2>1. \A j \in Dialog!Answered : admitted'[j] = admitted[j] /\ (j \in bulk' <=> j \in bulk)
    BY <1>2, <1>9 DEF Dialog!Answered
  <2>2. Tracked' = Tracked \cup {j \in brought : j \in bulk' => name[admitted'[j]] \notin Altered}
    BY <1>0, <1>1, <1>8, <2>1, TrackedGrows
  <2> QED
    BY <1>9, <2>2
<1>11. {h.job : h \in handed'} = Tracked'
  BY <1>1, <1>7, <1>10 DEF Corresponds
<1>12. rows' = Tracked'
  BY <1>1, <1>11, RowsFollow
<1>13. RowsMatch'
  <2>1. \A j \in Dialog!Answered : admitted'[j] = admitted[j] /\ (j \in bulk' <=> j \in bulk)
    BY <1>2, <1>9 DEF Dialog!Answered
  <2>2. \A h \in new : name'[h.file] = name'[admitted'[h.job]] /\ h.job \in bulk'
    BY <1>1, <1>2, <1>5, <1>9
  <2> QED
    BY <1>0, <1>1, <2>1, <2>2, MatchKept DEF RowsMatch
<1> QED
  BY <1>11, <1>12, <1>13 DEF Corresponds

LEMMA FailureCorresponds ==
  ASSUME DialogTyped, Corresponds, UploadEnds, Dialog!SubmitFails
  PROVE  Corresponds'
<1>1. handed' = handed /\ rows' = rows /\ bulk' = bulk /\ name' = name
  BY DEF Dialog!SubmitFails, UploadEnds, vars
<1>2. /\ Dialog!Answered' = Dialog!Answered
      /\ \A j \in Dialog!Answered : admitted'[j] = admitted[j]
  BY FailureTellsNothing
<1>3. Tracked' = Tracked
  BY <1>1, <1>2 DEF Tracked
<1>4. RowsMatch'
  BY <1>1, <1>2, MatchKept DEF RowsMatch
<1> QED
  BY <1>1, <1>3, <1>4 DEF Corresponds

LEMMA CorrespondsStep ==
  ASSUME DialogInv, Corresponds, [PageNext]_<<vars, dialogVars>>
  PROVE  Corresponds'
<1>1. CASE UseDialog
  <2>1. UNCHANGED <<rows, name, admitted, lost, bulk, handed>>
    BY <1>1 DEF UseDialog, vars, Dialog!OpenDialog, Dialog!CloseDialog, Dialog!SelectFiles,
       Dialog!DropFiles, Dialog!HandleFiles, Dialog!HandleSubmit
  <2> QED
    BY <2>1 DEF Corresponds, RowsMatch, Tracked, Dialog!Answered
<1>2. CASE UploadEnds
  BY <1>2, SingleCorresponds, BulkCorresponds, FailureCorresponds DEF UploadEnds, DialogInv
<1>3. CASE UseList \/ \E j \in Jobs : ServerConverts(j)
  <2>1. UNCHANGED <<rows, name, admitted, lost, bulk, handed>>
    BY <1>3 DEF UseList, ServerConverts, dialogVars, Unmount, ToggleReport, Tick, AbandonPoll,
       ApplyPoll, ReadStatus, ReadFails, ServerAdvances
  <2> QED
    BY <2>1 DEF Corresponds, RowsMatch, Tracked, Dialog!Answered
<1>4. CASE UNCHANGED <<vars, dialogVars>>
  BY <1>4 DEF vars, dialogVars, Corresponds, RowsMatch, Tracked, Dialog!Answered
<1> QED
  BY <1>1, <1>2, <1>3, <1>4 DEF PageNext

(* The list holds exactly the tracked jobs, each with the file it converts *)
(* or a namesake, whatever polls, failures and an unmount do between.      *)
THEOREM RowsFollowJobs == PageSpec => []RowsAreJobs
<1>1. PageInit => Corresponds
  BY DEF PageInit, Init, Dialog!Init, Corresponds, RowsMatch, Tracked, Dialog!Answered
<1>2. DialogInv /\ Corresponds /\ [PageNext]_<<vars, dialogVars>> => Corresponds'
  BY CorrespondsStep
<1>3. Corresponds => RowsAreJobs
  BY DEF Corresponds, RowsAreJobs
<1> QED
  BY <1>1, <1>2, <1>3, DialogInvariance, PTL DEF PageSpec
=============================================================================
