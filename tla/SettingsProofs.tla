--------------------------- MODULE SettingsProofs ---------------------------
(* Proofs about Session and Settings, for any keys and bounds, with and      *)
(* without the address and the cookies that the frontend needs.              *)
EXTENDS Settings, TLAPS

\* What the dialog's question rests on: a form is in an open dialog, only one that
\* is shown holds edits, and the dialog knows.
EditsInv ==
  /\ editor \in Editor
  /\ editor.at # "none" => open
  /\ editor.edited => dirty /\ editor.at = "shown"

\* A step that leaves the form alone, or closes it, or changes nothing about
\* its edits.
LEMMA OutOfTheWay ==
  ASSUME EditsInv,
         \/ editor' = Closed
         \/ editor' = Loading /\ open'
         \/ UNCHANGED <<open, dirty>> /\ editor' = editor
         \/ \E b \in {"none", "save", "test"} :
              UNCHANGED <<open, dirty>> /\ editor' = [editor EXCEPT !.busy = b]
  PROVE  EditsInv'
<1>1. /\ Closed \in Editor /\ ~Closed.edited /\ Closed.at = "none"
      /\ Loading \in Editor /\ ~Loading.edited
  BY DEF Closed, Loading, Editor, Blank
<1>2. CASE editor' = Closed \/ (editor' = Loading /\ open')
  BY <1>1, <1>2 DEF EditsInv
<1>3. CASE UNCHANGED <<open, dirty, editor>>
  BY <1>3 DEF EditsInv
<1>4. CASE \E b \in {"none", "save", "test"} :
              UNCHANGED <<open, dirty>> /\ editor' = [editor EXCEPT !.busy = b]
  BY <1>4 DEF EditsInv, Editor
<1> QED BY <1>2, <1>3, <1>4

LEMMA EditsStart == Init => EditsInv
<1> SUFFICES ASSUME Init PROVE EditsInv
  OBVIOUS
<1>1. Closed \in Editor /\ ~Closed.edited /\ Closed.at = "none"
  BY DEF Closed, Editor, Blank
<1> QED BY <1>1 DEF Init, EditsInv

LEMMA EditsStep == EditsInv /\ [Next]_vars => EditsInv'
<1> SUFFICES ASSUME EditsInv, [Next]_vars PROVE EditsInv'
  OBVIOUS
<1>1. CASE Browse
  <2>2. CASE Mounted'
    <3>1. (open => open') /\ (dirty => dirty')
      BY <1>1, <2>2, Zenon DEF Browse, LeaveDialogs
    <3>2. editor' = editor
      BY <1>1, <2>2 DEF Browse, LeaveDialogs
    <3> QED BY <3>1, <3>2 DEF EditsInv
  <2>3. CASE ~Mounted'
    <3>1. editor' = Closed
      BY <1>1, <2>3 DEF Browse, LeaveDialogs
    <3> QED BY <3>1 DEF EditsInv, Closed, Editor, Blank
  <2> QED BY <2>2, <2>3
<1>2. CASE Edits
  <2>1. CASE OpenSettings \/ RequestClose \/ KeepEditing \/ Discard \/ Retry
    <3>1. CASE OpenSettings \/ RequestClose \/ KeepEditing \/ Discard
      BY <3>1, OutOfTheWay DEF OpenSettings, RequestClose, KeepEditing, Discard, CloseDialog
    <3>2. CASE Retry
      BY <3>2, OutOfTheWay DEF Retry, EditsInv
    <3> QED BY <2>1, <3>1, <3>2
  <2>2. ASSUME NEW k \in Keys \union {Blank}, NEW back \in BOOLEAN, Type(k, back)
        PROVE  EditsInv'
    <3> DEFINE typed == [editor EXCEPT !.key = k]
    <3>1. typed \in Editor /\ typed.at = "shown"
      BY <2>2 DEF Type, EditsInv, Editor
    <3>2. editor' = [typed EXCEPT !.edited = ~back]
      BY <2>2 DEF Type
    <3>3. editor' \in Editor /\ editor'.at = "shown" /\ editor'.edited = ~back
      <4> HIDE DEF typed
      <4> QED BY <3>1, <3>2 DEF Editor
    <3>4. open /\ open' = open /\ dirty' = (~back \/ ~editor.based)
      <4>1. editor.at = "shown" /\ open' = open
        BY <2>2 DEF Type
      <4>2. dirty' = (~back \/ ~editor.based)
        BY <2>2, Zenon DEF Type
      <4> QED BY <4>1, <4>2 DEF EditsInv
    <3>5. editor'.edited => open' /\ dirty'
      <4>1. CASE back = TRUE
        BY <3>3, <4>1
      <4>2. CASE back = FALSE
        <5>1. dirty' = (TRUE \/ ~editor.based)
          BY <3>4, <4>2
        <5> QED BY <3>4, <5>1, Zenon
      <4> QED BY <4>1, <4>2
    <3> QED BY <3>3, <3>4, <3>5 DEF EditsInv
  <2>3. ASSUME NEW kind \in {"save", "test"}, Press(kind)
        PROVE  EditsInv'
    BY <2>3, OutOfTheWay DEF Press
  <2> QED BY <1>2, <2>1, <2>2, <2>3 DEF Edits
<1>3. CASE Ends
  <2>1. CASE Loaded
    <3>1. ~editor.edited
      BY <2>1 DEF Loaded, EditsInv
    <3>2. editor' \in Editor /\ editor'.edited = editor.edited
      BY <2>1 DEF Loaded, EditsInv, Editor
    <3>3. open /\ open' = open
      BY <2>1 DEF Loaded, EditsInv
    <3> QED BY <3>1, <3>2, <3>3 DEF EditsInv
  <2>2. ASSUME NEW c \in calls, RowRead(c) \/ HandlerFails(c) \/ Saved(c) \/ Tested(c) \/ CallFails(c)
        PROVE  EditsInv'
    BY <2>2, OutOfTheWay DEF RowRead, HandlerFails, Saved, Tested, CallFails, dialogs
  <2>3. ASSUME NEW c \in calls, Answered(c)
        PROVE  EditsInv'
    BY <2>3, OutOfTheWay DEF Answered, Shown, CloseDialog
  <2> QED BY <1>3, <2>1, <2>2, <2>3 DEF Ends
<1>4. CASE RowChanges
  BY <1>4, OutOfTheWay DEF RowChanges, dialogs
<1>5. CASE UNCHANGED vars
  BY <1>5, OutOfTheWay DEF vars, sessionVars, settingsVars, dialogs
<1> QED BY <1>1, <1>2, <1>3, <1>4, <1>5 DEF Next

\* Text that was typed and not saved is known to the dialog that would close over it,
\* in whatever order saves of earlier forms, reloads and other tabs come between
\* (LLMSettingsDialog dirtyRef, LLMProviderForm onDirtyChange).
THEOREM EditsAreKnown == Spec => []GuardKnowsEdits
<1>1. EditsInv => GuardKnowsEdits
  BY DEF EditsInv, GuardKnowsEdits
<1> QED BY <1>1, EditsStart, EditsStep, PTL DEF Spec

\* Such text goes only when the user confirmed it, the page was left, or the answer of
\* a save closed the dialog (LLMSettingsDialog requestOpen, onSaved).
THEOREM EditsGoAsked == Spec => EditsKept
<1>1. EditsInv /\ [Next]_vars =>
        [(editor.edited /\ editor'.at = "none" /\ Mounted') =>
           confirm \/ \E c \in calls : c.kind = "save" /\ c.at = "saved"]_vars
  <2> SUFFICES ASSUME EditsInv, Next, editor.edited, editor'.at = "none", Mounted',
                      ~confirm
               PROVE  \E c \in calls : c.kind = "save" /\ c.at = "saved"
    OBVIOUS
  <2>1. open /\ dirty /\ editor.at = "shown" /\ editor \in Editor
    BY DEF EditsInv
  <2>2. editor' # editor
    BY <2>1
  <2>3. ~Browse
    BY <2>2 DEF Browse, LeaveDialogs
  <2>4. ~(OpenSettings \/ RequestClose \/ KeepEditing \/ Discard \/ Retry \/ RowChanges \/ Loaded)
    BY <2>1, <2>2
       DEF OpenSettings, RequestClose, KeepEditing, Discard, Retry, RowChanges, Loaded, dialogs
  <2>5. ASSUME NEW f \in Editor, f.at = "shown", NEW k, NEW e, NEW b,
               \/ editor' = [f EXCEPT !.key = k, !.edited = e]
               \/ editor' = [f EXCEPT !.busy = b]
        PROVE  FALSE
    <3>1. f.at = "shown" /\ f = [at |-> f.at, key |-> f.key, edited |-> f.edited, based |-> f.based,
                                hasKey |-> f.hasKey, busy |-> f.busy]
      BY <2>5 DEF Editor
    <3>2. editor'.at = f.at
      BY <2>5, <3>1
    <3> QED BY <3>1, <3>2
  <2>6. ASSUME NEW k \in Keys \union {Blank}, NEW back \in BOOLEAN, Type(k, back)
        PROVE  FALSE
    <3> DEFINE e == ~back
    <3>1. editor' = [editor EXCEPT !.key = k, !.edited = e]
      BY <2>6 DEF Type
    <3> HIDE DEF e
    <3> QED BY <2>1, <2>5, <3>1
  <2>7. \A kind \in {"save", "test"} : ~Press(kind)
    BY <2>1, <2>5 DEF Press
  <2>8. \A c \in calls : ~RowRead(c) /\ ~HandlerFails(c) /\ ~Saved(c) /\ ~Tested(c)
    BY <2>2 DEF RowRead, HandlerFails, Saved, Tested, dialogs
  <2>9. \A c \in calls : ~CallFails(c)
    BY <2>1, <2>2, <2>5 DEF CallFails
  <2>10. PICK c \in calls : Answered(c)
    BY <2>3, <2>4, <2>6, <2>7, <2>8, <2>9 DEF Next, Edits, Ends
  <2>11. c.kind = "save" /\ c.at = "saved"
    BY <2>1, <2>2, <2>5, <2>10 DEF Answered, Shown
  <2> QED BY <2>11
<1> QED BY <1>1, EditsStart, EditsStep, PTL DEF Spec, EditsKept
=============================================================================
