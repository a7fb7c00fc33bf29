---------------------------- MODULE ConvertPage ----------------------------
(***************************************************************************)
(* The page /convert as a whole: the list of conversions (JobList) and the *)
(* upload dialog (UploadDialog) that feeds it through onSubmitted.  A job  *)
(* is its place in `admitted`.  The dialog lives inside the page, but an   *)
(* upload that is under way when the page is left still ends, and still    *)
(* calls onSubmitted.                                                      *)
(***************************************************************************)
EXTENDS JobList, Sequences

CONSTANTS Files, Names, Altered, MaxFiles, MaxSubmits, LostReplies

ASSUME PageAssumption ==
  /\ Jobs = 1..(MaxFiles * MaxSubmits)
  /\ Altered \subseteq Names /\ LostReplies \in BOOLEAN
  /\ MaxFiles \in Nat \ {0} /\ MaxSubmits \in Nat

VARIABLES
  name, open, files, uploading, submitted, needsVision, message, picked, admitted, lost, bulk,
  handed,  \* jobs given to onSubmitted, with the file kept for the preview
  submits

Dialog == INSTANCE UploadDialog WITH rows <- handed

dialogVars == <<name, open, files, uploading, submitted, needsVision, message, picked,
                admitted, lost, bulk, handed, submits>>

----------------------------------------------------------------------------
UseDialog ==
  /\ mounted
  /\ \/ Dialog!OpenDialog \/ Dialog!CloseDialog
     \/ Dialog!SelectFiles \/ Dialog!DropFiles \/ Dialog!HandleSubmit
  /\ UNCHANGED vars

(* An answer with new jobs hands them to the list. *)
UploadEnds ==
  /\ \/ \E outcome \in {"admitted", "scanned", "rejected"} : Dialog!SingleAnswered(outcome)
     \/ \E answer \in Dialog!Answers : Dialog!BulkAnswered(answer)
     \/ Dialog!SubmitFails
  /\ IF handed' = handed
     THEN UNCHANGED vars
     ELSE HandleSubmitted /\ rows' = rows \cup {h.job : h \in handed'}

ServerConverts(j) == j \in DOMAIN admitted /\ ServerAdvances(j) /\ UNCHANGED dialogVars

UseList ==
  /\ \/ Unmount
     \/ \E j \in Jobs : ToggleReport(j)
     \/ \E p \in Polls : \/ Tick(p) \/ AbandonPoll(p) \/ ApplyPoll(p)
                         \/ \E j \in Jobs : ReadStatus(p, j) \/ ReadFails(p, j)
  /\ UNCHANGED dialogVars

PageInit == Init /\ Dialog!Init

PageNext == UseDialog \/ UploadEnds \/ UseList \/ \E j \in Jobs : ServerConverts(j)

(* The interval fires and requests are answered (backend and service bound *)
(* theirs by timeouts), one way or the other; every job ends on the server.*)
(* Nothing is assumed of the user.                                         *)
Fairness ==
  /\ WF_vars(\E p \in Polls : Tick(p))
  /\ \A p \in Polls : /\ WF_vars(ApplyPoll(p))
                      /\ \A j \in Jobs : WF_vars(ReadStatus(p, j) \/ ReadFails(p, j))
  /\ \A j \in Jobs : WF_vars(ServerConverts(j))

PageSpec == PageInit /\ [][PageNext]_<<vars, dialogVars>> /\ Fairness

----------------------------------------------------------------------------
(* Files the user knows to be admitted.                                    *)
Told == {admitted[j] : j \in Dialog!Answered}

(* "only failed files remain for retry" (ConvertUploadDialog.tsx:106):     *)
(* nothing the dialog offers to submit has a job it was told of.           *)
OnlyFailedRemain == ~uploading => Dialog!Range(files) \cap Told = {}

(* What the filter by name leaves of that comment: an admitted file stays  *)
(* in the list only beside another file of its name, so that submitting    *)
(* the list again never converts twice a file whose name nobody shares.    *)
OnlyNamesakesRemain ==
  \A i \in DOMAIN files :
    files[i] \in Told => \E k \in DOMAIN files \ {i} : name[files[k]] = name[files[i]]

(* The jobs the page can show: all of the answers that arrived, but for    *)
(* those a bulk answer lists under an altered name.                        *)
Tracked == {j \in Dialog!Answered : j \in bulk => name[admitted[j]] \notin Altered}

(* The preview of a row shows the file its job converts, or one of the     *)
(* same name when both were submitted together.                            *)
RowsMatch ==
  \A h \in handed : /\ name[h.file] = name[admitted[h.job]]
                    /\ h.job \notin bulk => h.file = admitted[h.job]

(* "Successful jobs are still tracked" (ConvertUploadDialog.tsx:106), as   *)
(* far as names come back: the list of the page holds the tracked jobs, no *)
(* other, whatever polls end meanwhile, and each row shows its file.       *)
RowsAreJobs == rows = Tracked /\ RowsMatch

(* Every tracked job is eventually shown as finished in the list, failed   *)
(* status reads or not, unless the page is left.                           *)
EveryUploadShown ==
  \A j \in Jobs : j \in Tracked ~> (j \in rows /\ IsTerminal(j)) \/ ~mounted

=============================================================================
