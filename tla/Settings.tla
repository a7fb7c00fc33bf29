------------------------------ MODULE Settings ------------------------------
(***************************************************************************)
(* The Gemini key of an account, set from the dialog of a tab: frontend    *)
(* LLMSettingsDialog and LLMProviderForm, lib/settings-api.ts through the  *)
(* proxy route, and the backend's routes/llm-settings.ts.                  *)
(*                                                                         *)
(* The row is the stored key, 0 when there is none.  A form is edited when *)
(* it holds text the user typed and has not saved; a blank key field, 0,   *)
(* with an edit is an edit of the model's name.  A save reads the row,     *)
(* awaits the provider's address from DNS and writes the row, and stays in *)
(* `calls` after the form that sent it is gone.                            *)
(***************************************************************************)
EXTENDS Session

CONSTANTS
  Keys,       \* keys the user may type
  MaxCalls    \* bound on the calls of a tab under way

ASSUME SettingsAssumption ==
  /\ Keys \subseteq Nat \ {0} /\ MaxCalls \in Nat

VARIABLES
  row,
  open, confirm,  \* the dialog, and its question whether to discard
  dirty,          \* dirtyRef
  editor,         \* LLMProviderForm: its stage and what it holds
  calls           \* this tab's saves and tests under way

dialogs == <<open, confirm, dirty, editor>>
settingsVars == <<row, dialogs, calls>>
vars == <<sessionVars, settingsVars>>

Blank == 0

Editor  == [at : {"none", "loading", "failed", "shown"}, key : Keys \union {Blank},
            edited : BOOLEAN, based : BOOLEAN, hasKey : BOOLEAN, busy : {"none", "save", "test"}]
Closed  == [at |-> "none", key |-> Blank, edited |-> FALSE, based |-> FALSE,
            hasKey |-> FALSE, busy |-> "none"]
Loading == [Closed EXCEPT !.at = "loading"]

Call == [kind : {"save", "test"}, key : Keys \union {Blank}, token : 0..MaxVersion,
         from : {"form", "old form", "left page", "unheard"},
         at : {"sent", "read", "saved", "failed", "unauthorized"}, read : Keys \union {Blank}]

WorkspaceTypeOK ==
  /\ SessionTypeOK
  /\ row \in Keys \union {0}
  /\ open \in BOOLEAN /\ confirm \in BOOLEAN /\ dirty \in BOOLEAN
  /\ editor \in Editor
  /\ calls \subseteq Call /\ Cardinality(calls) <= MaxCalls

----------------------------------------------------------------------------
unvisited == <<account, cookie, page, status, reads, form, challenge, logout, faults>>
uncalled == <<account, cookie, page, status, form, challenge, logout, acts>>

\* Who hears the answers of calls whose form, dialog or page is gone.
Orphaned(cs) == {[c EXCEPT !.from = IF @ = "form" THEN "old form" ELSE @] : c \in cs}
Left(cs, by) == {[c EXCEPT !.from = IF @ = "unheard" THEN @ ELSE by] : c \in cs}

CloseDialog == open' = FALSE /\ editor' = Closed

(* ---------------------------- LLMSettingsDialog -------------------------- *)

OpenSettings ==
  /\ page = "convert" /\ status # "loading" /\ ~open /\ Act
  /\ open' = TRUE
  /\ editor' = Loading
  /\ dirty' = FALSE
  /\ UNCHANGED <<unvisited, row, confirm, calls>>

\* Fault: the question is for forms that have a stored key to lose.
ClosesWithoutKey ==
  /\ open /\ Act
  /\ IF dirty /\ editor.hasKey
     THEN confirm' = TRUE /\ UNCHANGED <<open, editor, calls>>
     ELSE /\ confirm' = FALSE /\ CloseDialog
          /\ calls' = Orphaned(calls)
  /\ UNCHANGED <<unvisited, row, dirty>>

\* requestOpen(false): the cross, Escape or the overlay.
RequestClose ==
  /\ open /\ Act
  /\ IF dirty
     THEN /\ confirm' = TRUE
          /\ UNCHANGED <<open, editor, calls>>
     ELSE /\ confirm' = FALSE
          /\ CloseDialog
          /\ calls' = Orphaned(calls)
  /\ UNCHANGED <<unvisited, row, dirty>>

KeepEditing ==
  /\ open /\ confirm /\ Act
  /\ confirm' = FALSE
  /\ UNCHANGED <<unvisited, row, open, dirty, editor, calls>>

Discard ==
  /\ open /\ confirm /\ Act
  /\ CloseDialog
  /\ confirm' = FALSE
  /\ dirty' = FALSE
  /\ calls' = Orphaned(calls)
  /\ UNCHANGED <<unvisited, row>>

(* ----------------------------- LLMProviderForm --------------------------- *)

(* GET /api/settings/llm.  Without the row's answer the form has no        *)
(* baseline, and shows its empty fields as changed.                        *)
Loaded ==
  /\ editor.at = "loading"
  /\ \/ /\ Accepted(cookie) /\ TargetResolves
        /\ editor' = [editor EXCEPT !.at = "shown", !.based = TRUE, !.hasKey = row # 0]
        /\ UNCHANGED <<dirty, reads, faults>>
     \/ /\ ~Accepted(cookie) /\ TargetResolves
        /\ editor' = [editor EXCEPT !.at = "shown"]
        /\ dirty' = TRUE
        /\ reads' = reads \union {Sent("page", cookie)}
        /\ UNCHANGED faults
     \/ /\ Fault \/ (~TargetResolves /\ UNCHANGED faults)
        /\ editor' = [editor EXCEPT !.at = "failed"]
        /\ UNCHANGED <<dirty, reads>>
  /\ UNCHANGED <<uncalled, row, open, confirm, calls>>

Retry ==
  /\ editor.at = "failed" /\ ~confirm /\ Act
  /\ editor' = Loading
  /\ UNCHANGED <<unvisited, row, open, confirm, dirty, calls>>

(* The user types into the model or the key field, or takes it all back.   *)
(* The fields are disabled while `busy`.                                   *)
Type(k, back) ==
  /\ editor.at = "shown" /\ editor.busy = "none" /\ ~confirm /\ Act
  /\ back => k = Blank
  /\ editor' = [editor EXCEPT !.key = k, !.edited = ~back]
  /\ dirty' = (~back \/ ~editor.based)
  /\ UNCHANGED <<unvisited, row, open, confirm, calls>>

(* A button is disabled by its own call alone; saving needs a key typed or *)
(* stored.                                                                 *)
Press(kind) ==
  /\ editor.at = "shown" /\ editor.busy # kind /\ ~confirm
  /\ kind = "save" => editor.hasKey \/ editor.key # Blank
  /\ Cardinality(calls) < MaxCalls /\ Act
  /\ editor' = [editor EXCEPT !.busy = kind]
  /\ calls' = calls \union
       {[kind |-> kind, key |-> editor.key, token |-> cookie, from |-> "form",
         at |-> "sent", read |-> 0]}
  /\ UNCHANGED <<unvisited, row, open, confirm, dirty>>

(* ------------------------- routes/llm-settings.ts ------------------------ *)

Move(c, d) == calls' = (calls \ {c}) \union {d}

\* The session is verified; a save, and a test without a key, reads the row.
RowRead(c) ==
  /\ c \in calls /\ c.at = "sent" /\ TargetResolves
  /\ Move(c, IF Accepted(c.token)
             THEN [c EXCEPT !.at = "read", !.read = row]
             ELSE [c EXCEPT !.at = "unauthorized"])
  /\ UNCHANGED <<sessionVars, row, dialogs>>

Effective(c) == IF c.key = Blank THEN c.read ELSE c.key

\* validateProviderTarget refuses, or there is no key to save or to try.
HandlerFails(c) ==
  /\ c \in calls /\ c.at = "read"
  /\ Move(c, [c EXCEPT !.at = "failed"])
  /\ UNCHANGED <<sessionVars, row, dialogs>>

\* The upsert of the whole row.
Saved(c) ==
  /\ c \in calls /\ c.at = "read" /\ c.kind = "save"
  /\ Effective(c) # 0
  /\ row' = Effective(c)
  /\ Move(c, [c EXCEPT !.at = "saved"])
  /\ UNCHANGED <<sessionVars, dialogs>>

\* A test calls the provider and answers 200 with what it said.
Tested(c) ==
  /\ c \in calls /\ c.at = "read" /\ c.kind = "test"
  /\ Effective(c) # 0
  /\ Move(c, [c EXCEPT !.at = "saved"])
  /\ UNCHANGED <<sessionVars, row, dialogs>>

(* The call fails on the way: before the backend has it, after it has      *)
(* answered, or by the 408 of a handler that goes on.                      *)
CallFails(c) ==
  /\ c \in calls /\ c.from # "unheard" /\ c.at # "failed"
  /\ Fault \/ (~TargetResolves /\ UNCHANGED faults)
  /\ \E going \in {{}, {c}} : calls' = (calls \ {c}) \union Left(going, "unheard")
  /\ editor' = IF c.from = "form" THEN [editor EXCEPT !.busy = "none"] ELSE editor
  /\ UNCHANGED <<uncalled, reads, row, open, confirm, dirty>>

(* The other tabs' dialogs save to the same row; DELETE, which no page of  *)
(* the frontend calls, empties it.                                         *)
RowChanges ==
  /\ account # 0 /\ Act
  /\ row' \in Keys \union {0}
  /\ UNCHANGED <<unvisited, dialogs, calls>>

----------------------------------------------------------------------------
(* submit, after its call.  onSaved belongs to the dialog and closes it,   *)
(* also for the save of a form that an earlier opening of the dialog held. *)
Shown(c, closes) ==
  /\ c \in calls /\ c.at \in {"saved", "failed", "unauthorized"}
  /\ LET saved == c.kind = "save" /\ c.at = "saved" /\ c.from \in {"form", "old form"} IN
     IF saved
     THEN /\ dirty' = FALSE
          /\ IF closes THEN CloseDialog ELSE UNCHANGED <<open, editor>>
          /\ calls' = IF closes THEN Orphaned(calls \ {c}) ELSE calls \ {c}
     ELSE /\ UNCHANGED <<open, dirty>>
          /\ IF c.from = "form" THEN editor' = [editor EXCEPT !.busy = "none"] ELSE UNCHANGED editor
          /\ calls' = calls \ {c}
  /\ UNCHANGED <<uncalled, faults, row, confirm>>

\* An AuthError refreshes the session.
Refreshes(c) ==
  reads' = IF c.at = "unauthorized" /\ c.from # "unheard"
           THEN reads \union {Sent("page", cookie)} ELSE reads

\* Fault: a save closes the dialog only while its own form is shown.
AnsweredByForm(c) == Shown(c, c.from = "form") /\ Refreshes(c)

\* Fault: a refused save is a message like any other.
AnsweredQuietly(c) == Shown(c, TRUE) /\ UNCHANGED reads

Answered(c) == Shown(c, TRUE) /\ Refreshes(c)

Mounted == page = "convert" /\ status # "loading"

(* Leaving the workspace takes the dialog and its form along; a reload     *)
(* also those who would hear the answers.                                  *)
LeaveDialogs ==
  /\ open' = (open /\ Mounted')
  /\ confirm' = (confirm /\ Mounted')
  /\ dirty' = (dirty /\ Mounted')
  /\ editor' = IF Mounted' THEN editor ELSE Closed
  /\ calls' = IF Mounted' THEN calls
              ELSE Left(calls, IF status' = "loading" THEN "unheard" ELSE "left page")
  /\ UNCHANGED row

Init ==
  /\ SessionInit
  /\ row \in IF account = 0 THEN {0} ELSE Keys \union {0}
  /\ open = FALSE /\ confirm = open /\ dirty = open
  /\ editor = Closed
  /\ calls = {}

Edits ==
  \/ OpenSettings \/ RequestClose \/ KeepEditing \/ Discard \/ Retry
  \/ \E k \in Keys \union {Blank}, back \in BOOLEAN : Type(k, back)
  \/ \E kind \in {"save", "test"} : Press(kind)

Ends ==
  \/ Loaded
  \/ \E c \in calls : \/ RowRead(c) \/ HandlerFails(c) \/ Saved(c) \/ Tested(c)
                      \/ CallFails(c) \/ Answered(c)

Browse == SessionNext /\ LeaveDialogs

Next == Browse \/ RowChanges \/ Edits \/ Ends

\* As in Session; a save is answered, or fails within the backend's ten seconds.
Fairness == WF_vars(Proceeds /\ LeaveDialogs) /\ WF_vars(Ends)

Spec == Init /\ [][Next]_vars /\ Fairness

----------------------------------------------------------------------------
(* The dialog asks before it closes only when dirtyRef says so: text that  *)
(* was typed and not saved is always known to it.  dirtyRef is one, and    *)
(* every form the dialog ever held writes to it when its save is answered. *)
GuardKnowsEdits == editor.edited => open /\ dirty

(* Such text goes with a form only when the user was asked, left the page, *)
(* or had a save answered.                                                 *)
EditsKept ==
  [][(editor.edited /\ editor'.at = "none" /\ Mounted') =>
        confirm \/ \E c \in calls : c.kind = "save" /\ c.at = "saved"]_vars

(* A tab whose call was refused for its session does not go on as if       *)
(* signed in, unless the refusal is lost on its way or the browser has a   *)
(* valid session again.                                                    *)
RefusalShown ==
  (faults = MaxFaults /\ \E c \in calls : c.at = "unauthorized" /\ c.from # "unheard")
    ~> (status # "authenticated" \/ Accepted(cookie))
============================================================================
