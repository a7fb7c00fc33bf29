--------------------------- MODULE UploadDialog ---------------------------
(***************************************************************************)
(* The upload dialog of the page /convert                                  *)
(* (frontend/components/convert/ConvertUploadDialog.tsx), with what the    *)
(* service does to a submission.  A member of Files is one selection of    *)
(* the user; two selections may carry the same name.  The service answers  *)
(* a bulk submission with the names it was sent, and the dialog finds its  *)
(* files again by these names.  A job is its place in `admitted`.          *)
(***************************************************************************)
EXTENDS Naturals, Sequences, SequencesExt

CONSTANTS
  Files,          \* selections the user may make
  Names,          \* file names
  Altered,        \* names that do not survive the upload (multer reads them as latin1)
  MaxFiles,       \* MAX_FILES, the limit of the backend as well
  MaxSubmits,     \* bound on submissions
  LostReplies     \* a submission may fail after files were admitted

VARIABLES
  name,         \* the name of every selection
  open,         \* the dialog is open
  files,        \* the list in the dialog
  uploading,
  submitted,    \* the list as it was when the upload began
  needsVision,  \* needsVisionConfig: the link to the key settings is shown
  message,      \* what the alert names: files, "limit" or "request"
  picked,       \* selections made so far
  admitted,     \* the file of every job, in order of admission
  lost,         \* jobs whose answer did not arrive
  bulk,         \* jobs of the answers to bulk submissions
  rows,         \* jobs handed to the page, with the file kept for the preview
  submits       \* submissions so far

vars == <<name, open, files, uploading, submitted, needsVision, message, picked, admitted,
          lost, bulk, rows, submits>>

(* What one selection may bring, in any order. *)
Listings == {s \in UNION {[1..n -> Files \ picked] : n \in 1..MaxFiles} : IsInjective(s)}

----------------------------------------------------------------------------
(* What every exit from the dialog does (reset). *)
Reset ==
  /\ files' = <<>> /\ message' = {} /\ needsVision' = FALSE /\ uploading' = FALSE
  /\ submitted' = <<>>

OpenDialog ==
  /\ ~open
  /\ open' = TRUE
  /\ UNCHANGED <<name, files, uploading, submitted, needsVision, message, picked, admitted,
                 lost, bulk, rows, submits>>

CloseDialog ==
  /\ open /\ ~uploading
  /\ Reset
  /\ open' = FALSE
  /\ UNCHANGED <<name, picked, admitted, lost, bulk, rows, submits>>

(* The zone and the input stay active during an upload.  `known` is the    *)
(* length of the list the handler sees.                                    *)
HandleFiles(list, known) ==
  /\ open
  /\ picked' = picked \cup Range(list)
  /\ IF known + Len(list) > MaxFiles
     THEN message' = {"limit"} /\ UNCHANGED files
     ELSE message' = {} /\ files' = files \o list
  /\ UNCHANGED <<name, open, uploading, submitted, needsVision, admitted, lost, bulk, rows,
                 submits>>

SelectFiles == \E list \in Listings : HandleFiles(list, Len(files))

(* useCallback(..., []) keeps the handler of the first render, whose list  *)
(* was empty.                                                              *)
DropFiles == \E list \in Listings : HandleFiles(list, 0)

HandleSubmit ==
  /\ open /\ ~uploading /\ files # <<>> /\ submits < MaxSubmits
  /\ uploading' = TRUE /\ message' = {}
  /\ submitted' = files
  /\ submits' = submits + 1
  /\ UNCHANGED <<name, open, files, needsVision, picked, admitted, lost, bulk, rows>>

----------------------------------------------------------------------------
(* The answer to a submission says for each file whether it was admitted,  *)
(* refused for want of a vision key or refused for another reason.         *)
Answers == [DOMAIN submitted -> {"admitted", "scanned", "rejected"}]

Failed(answer) == {i \in DOMAIN answer : answer[i] # "admitted"}

(* A list cut down to some of its places, in order; a place comes after    *)
(* those of smaller rank.  (The provers know nothing of SelectSeq.)        *)
Rank(places, i) == Cardinality({k \in places : k <= i})
Filtered(list, places) ==
  [k \in 1..Cardinality(places) |-> list[CHOOSE i \in places : Rank(places, i) = k]]

Admitted(answer) == DOMAIN answer \ Failed(answer)

(* The files of the new jobs, in the order of the submission. *)
AdmittedOf(answer) == Filtered(submitted, Admitted(answer))

Job(answer, i) == Len(admitted) + Rank(Admitted(answer), i)

(* f carries the name under which the answer lists file i. *)
Echoes(f, i) == name[f] = name[submitted[i]] /\ name[f] \notin Altered

(* submitted.find((f) => f.name === j.filename); an entry without a match is skipped. *)
FirstEcho(i) == {k \in DOMAIN submitted : /\ Echoes(submitted[k], i)
                                         /\ \A l \in 1..(k - 1) : ~Echoes(submitted[l], i)}

RowsOf(answer) ==
  UNION {{[job |-> Job(answer, i), file |-> submitted[k]] : k \in FirstEcho(i)} :
           i \in Admitted(answer)}

(* One file goes to POST /convert, whose answer names no file. *)
SingleAnswered(outcome) ==
  /\ uploading /\ Len(submitted) = 1
  /\ IF outcome = "admitted"
     THEN /\ admitted' = Append(admitted, submitted[1])
          /\ rows' = rows \cup {[job |-> Len(admitted) + 1, file |-> submitted[1]]}
          /\ Reset /\ open' = FALSE
     ELSE /\ message' = {name[submitted[1]]}
          /\ needsVision' = (needsVision \/ outcome = "scanned")
          /\ uploading' = FALSE /\ submitted' = <<>>
          /\ UNCHANGED <<open, files, admitted, rows>>
  /\ UNCHANGED <<name, picked, lost, bulk, submits>>

BulkKeepsAll(answer) ==
  /\ uploading /\ Len(submitted) \in 2..MaxFiles
  /\ admitted' = admitted \o AdmittedOf(answer)
  /\ bulk' = bulk \cup {Job(answer, i) : i \in Admitted(answer)}
  /\ rows' = rows \cup RowsOf(answer)
  /\ IF \E i \in Failed(answer) : answer[i] = "scanned"
     THEN /\ files' = files
          /\ message' = {name[submitted[i]] : i \in Failed(answer)}
          /\ needsVision' = TRUE /\ uploading' = FALSE /\ submitted' = <<>>
          /\ UNCHANGED open
     ELSE Reset /\ open' = FALSE
  /\ UNCHANGED <<name, picked, lost, submits>>

BulkAnswered(answer) ==
  /\ uploading /\ Len(submitted) \in 2..MaxFiles
  /\ admitted' = admitted \o AdmittedOf(answer)
  /\ bulk' = bulk \cup {Job(answer, i) : i \in Admitted(answer)}
  /\ rows' = rows \cup RowsOf(answer)
  /\ IF \E i \in Failed(answer) : answer[i] = "scanned"
     THEN /\ files' = Filtered(files, {k \in DOMAIN files :
                                         \E i \in Failed(answer) : Echoes(files[k], i)})
          /\ message' = {name[submitted[i]] : i \in Failed(answer)}
          /\ needsVision' = TRUE /\ uploading' = FALSE /\ submitted' = <<>>
          /\ UNCHANGED open
     ELSE Reset /\ open' = FALSE
  /\ UNCHANGED <<name, picked, lost, submits>>

(* No usable answer: an error of the backend (too many files among them),  *)
(* an expired session, or a timeout after the service had admitted some.   *)
SubmitFails ==
  /\ uploading
  /\ \E n \in IF LostReplies /\ Len(submitted) <= MaxFiles THEN 0..Len(submitted) ELSE {0} :
       /\ admitted' = admitted \o SubSeq(submitted, 1, n)
       /\ lost' = lost \cup (Len(admitted) + 1)..(Len(admitted) + n)
  /\ message' \in {{"request"}, {}}
  /\ uploading' = FALSE /\ submitted' = <<>>
  /\ UNCHANGED <<name, open, files, needsVision, picked, bulk, rows, submits>>

Init ==
  /\ name \in [Files -> Names]
  /\ open = FALSE /\ files = <<>> /\ uploading = FALSE /\ submitted = <<>>
  /\ needsVision = FALSE /\ message = {} /\ picked = {}
  /\ admitted = <<>> /\ lost = {} /\ bulk = {} /\ rows = {} /\ submits = 0

Next ==
  \/ OpenDialog \/ CloseDialog \/ SelectFiles \/ DropFiles \/ HandleSubmit
  \/ \E outcome \in {"admitted", "scanned", "rejected"} : SingleAnswered(outcome)
  \/ \E answer \in Answers : BulkAnswered(answer)
  \/ SubmitFails

Spec == Init /\ [][Next]_vars

----------------------------------------------------------------------------
TypeOK ==
  /\ name \in [Files -> Names]
  /\ open \in BOOLEAN /\ uploading \in BOOLEAN /\ needsVision \in BOOLEAN
  /\ Range(files) \subseteq picked /\ Range(admitted) \subseteq picked
  /\ Range(submitted) \subseteq picked
  /\ uploading = (submitted # <<>>) /\ (uploading => open) /\ (~open => files = <<>>)
  /\ picked \subseteq Files
  /\ message \subseteq Names \cup {"limit", "request"}
  /\ rows \subseteq [job : 1..Len(admitted), file : picked]
  /\ lost \subseteq DOMAIN admitted /\ bulk \subseteq DOMAIN admitted
  /\ submits \in 0..MaxSubmits

(* Jobs of the answers that arrived. *)
Answered == DOMAIN admitted \ lost

=============================================================================
