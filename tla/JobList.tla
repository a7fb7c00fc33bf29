------------------------------ MODULE JobList ------------------------------
(***************************************************************************)
(* The list of conversions of the page /convert                            *)
(* (frontend/app/(app)/convert/page.tsx): jobs are added by the upload     *)
(* dialog, one interval timer starts polls, a poll reads the status of     *)
(* every unfinished job one request after another and then patches the     *)
(* rows.  JavaScript runs one callback at a time, so an action is the code *)
(* between two awaits.                                                     *)
(*                                                                         *)
(* A status is abstracted to how far the job has come on the server, from  *)
(* 0 (queued, also what a row without a status shows) to Done (any         *)
(* terminal status).                                                       *)
(***************************************************************************)
EXTENDS Naturals

CONSTANTS
  Jobs,      \* jobs the dialog may hand over
  Done,      \* progress of a finished job
  Polls,     \* activations of pollActiveJobs that may be under way
  MaxErrors  \* bound on status requests that fail

ASSUME ConstantsAssumption ==
  /\ Done \in Nat \ {0} /\ MaxErrors \in Nat

VARIABLES
  server,    \* progress of every job on the server
  rows,      \* jobs in the list (jobsRef)
  shown,     \* progress each row shows
  failing,   \* rows that show a read error
  expanded,  \* rows with an open report (reportOpen)
  timer,     \* the interval timer runs (timerRef)
  polling,   \* pollInFlightRef
  poll,      \* per activation: still to be read, patches collected
  mounted,   \* mountedRef
  errors     \* failed requests so far

vars == <<server, rows, shown, failing, expanded, timer, polling, poll, mounted, errors>>

Progress == 0..Done
NoRead == Done + 1     \* a patch that carries an error and no status
Idle == [todo |-> {}, patches |-> [j \in {} |-> 0], active |-> FALSE]
Statuses == Progress \cup {NoRead}
PatchMaps == UNION {[S -> Statuses] : S \in SUBSET Jobs}

IsTerminal(j) == shown[j] = Done
ActiveRows == {j \in rows : ~IsTerminal(j)}

----------------------------------------------------------------------------
(* The dialog hands over admitted jobs, possibly after the page was left:  *)
(* its upload continues after an unmount.                                  *)
HandleSubmitted ==
  /\ \E S \in SUBSET (Jobs \ rows) : S # {} /\ rows' = rows \cup S
  /\ timer' = TRUE
  /\ UNCHANGED <<server, shown, failing, expanded, polling, poll, mounted, errors>>

TickUnguarded(p) ==
  /\ timer /\ ~poll[p].active /\ mounted
  /\ polling' = TRUE
  /\ poll' = [poll EXCEPT ![p] = [Idle EXCEPT !.todo = ActiveRows, !.active = TRUE]]
  /\ UNCHANGED <<server, rows, shown, failing, expanded, timer, mounted, errors>>

(* The interval fires; a poll in flight or an unmounted page ends it.      *)
Tick(p) ==
  /\ timer /\ ~poll[p].active
  /\ ~polling /\ mounted
  /\ polling' = TRUE
  /\ poll' = [poll EXCEPT ![p] = [Idle EXCEPT !.todo = ActiveRows, !.active = TRUE]]
  /\ UNCHANGED <<server, rows, shown, failing, expanded, timer, mounted, errors>>

(* One getConversionStatus returns; the order of the reads is not fixed    *)
(* here.  After an unmount the poll ends without touching the list.        *)
Collect(p, j, answer) ==
  poll' = [poll EXCEPT ![p] =
    [todo |-> @.todo \ {j}, active |-> @.active,
     patches |-> [k \in DOMAIN @.patches \cup {j} |-> IF k = j THEN answer ELSE @.patches[k]]]]

ReadStatus(p, j) ==
  /\ mounted /\ j \in poll[p].todo
  /\ Collect(p, j, server[j])
  /\ UNCHANGED <<server, rows, shown, failing, expanded, timer, polling, mounted, errors>>

ReadThrows(p, j) ==
  /\ mounted /\ j \in poll[p].todo /\ errors < MaxErrors
  /\ errors' = errors + 1
  /\ poll' = [poll EXCEPT ![p] = Idle]
  /\ UNCHANGED <<server, rows, shown, failing, expanded, timer, polling, mounted>>

ReadFails(p, j) ==
  /\ mounted /\ j \in poll[p].todo /\ errors < MaxErrors
  /\ errors' = errors + 1
  /\ Collect(p, j, NoRead)
  /\ UNCHANGED <<server, rows, shown, failing, expanded, timer, polling, mounted>>

Finish(p) ==
  /\ polling' = FALSE
  /\ poll' = [poll EXCEPT ![p] = Idle]

AbandonPoll(p) ==
  /\ ~mounted /\ poll[p].active
  /\ Finish(p)
  /\ UNCHANGED <<server, rows, shown, failing, expanded, timer, mounted, errors>>

(* All reads are in: patch the rows of the present list and stop the timer *)
(* when none of them is active.  A failed read keeps the last status.      *)
Patched(p) ==
  [j \in Jobs |-> IF j \in rows \cap DOMAIN poll[p].patches /\ poll[p].patches[j] # NoRead
                  THEN poll[p].patches[j] ELSE shown[j]]

FailedReads(p) == {j \in DOMAIN poll[p].patches : poll[p].patches[j] = NoRead}

ApplyPollOfPolled(p) ==
  /\ mounted /\ poll[p].active /\ poll[p].todo = {}
  /\ shown' = Patched(p)
  /\ failing' = (failing \ DOMAIN poll[p].patches) \cup FailedReads(p)
  /\ timer' = (timer /\ \E j \in DOMAIN poll[p].patches : Patched(p)[j] # Done)
  /\ Finish(p)
  /\ UNCHANGED <<server, rows, expanded, mounted, errors>>

ApplyToSnapshot(p) ==
  /\ mounted /\ poll[p].active /\ poll[p].todo = {}
  /\ rows' = {j \in rows : IsTerminal(j) \/ j \in DOMAIN poll[p].patches}
  /\ shown' = Patched(p)
  /\ failing' = (failing \ DOMAIN poll[p].patches) \cup FailedReads(p)
  /\ timer' = (timer /\ \E j \in rows' : Patched(p)[j] # Done)
  /\ Finish(p)
  /\ UNCHANGED <<server, expanded, mounted, errors>>

ApplyPoll(p) ==
  /\ mounted /\ poll[p].active /\ poll[p].todo = {}
  /\ shown' = Patched(p)
  /\ failing' = (failing \ DOMAIN poll[p].patches) \cup FailedReads(p)
  /\ timer' = (timer /\ \E j \in rows : Patched(p)[j] # Done)
  /\ Finish(p)
  /\ UNCHANGED <<server, rows, expanded, mounted, errors>>

ToggleReport(j) ==
  /\ mounted /\ j \in rows /\ IsTerminal(j)
  /\ expanded' = IF j \in expanded THEN expanded \ {j} ELSE expanded \cup {j}
  /\ UNCHANGED <<server, rows, shown, failing, timer, polling, poll, mounted, errors>>

Unmount ==
  /\ mounted
  /\ mounted' = FALSE /\ timer' = FALSE
  /\ UNCHANGED <<server, rows, shown, failing, expanded, polling, poll, errors>>

ServerAdvances(j) ==
  /\ server[j] < Done
  /\ \E v \in (server[j] + 1)..Done : server' = [server EXCEPT ![j] = v]
  /\ UNCHANGED <<rows, shown, failing, expanded, timer, polling, poll, mounted, errors>>

Init ==
  /\ server = [j \in Jobs |-> 0] /\ shown = [j \in Jobs |-> 0]
  /\ rows = {} /\ failing = {} /\ expanded = {}
  /\ timer = FALSE /\ polling = FALSE /\ mounted = TRUE
  /\ poll = [p \in Polls |-> Idle]
  /\ errors = 0

Next ==
  \/ HandleSubmitted \/ Unmount
  \/ \E j \in Jobs : ToggleReport(j) \/ ServerAdvances(j)
  \/ \E p \in Polls : \/ Tick(p) \/ AbandonPoll(p) \/ ApplyPoll(p)
                      \/ \E j \in Jobs : ReadStatus(p, j) \/ ReadFails(p, j)

Spec == Init /\ [][Next]_vars

----------------------------------------------------------------------------
TypeOK ==
  /\ server \in [Jobs -> Progress] /\ shown \in [Jobs -> Progress]
  /\ rows \subseteq Jobs /\ failing \subseteq rows /\ expanded \subseteq rows
  /\ timer \in BOOLEAN /\ polling \in BOOLEAN /\ mounted \in BOOLEAN
  /\ poll \in [Polls -> [todo : SUBSET rows, patches : PatchMaps, active : BOOLEAN]]
  /\ \A p \in Polls : DOMAIN poll[p].patches \subseteq rows
  /\ errors \in 0..MaxErrors

(* While the page is open and a row is unfinished the timer runs: a job    *)
(* added while a poll is in flight is not left behind when that poll finds *)
(* all the jobs it had asked about finished.                               *)
ActiveIsPolled == mounted /\ ActiveRows # {} => timer

(* At most one poll is under way, however slow the answers are.            *)
OnePoll == \A p, q \in Polls : poll[p].active /\ poll[q].active => p = q

(* A row never goes back to an older status than it showed: an answer that *)
(* comes late does not overwrite a newer one.                              *)
NeverOlder == [][\A j \in Jobs : shown'[j] >= shown[j]]_vars

=============================================================================
