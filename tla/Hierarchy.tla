----------------------------- MODULE Hierarchy ------------------------------
(***************************************************************************)
(* Stage 4 of conversion-service/structuring/classifier.py: the state      *)
(* machine that checks the numbering of chapters, articles (Điều), clauses *)
(* (Khoản) and points (Điểm), and Classifier.structure, which collects     *)
(* consecutive points in lists.  One Classifier walks the whole document;  *)
(* structure is called once a page.                                        *)
(*                                                                         *)
(* A line is what stages 2 and 3 made of it: a kind and, for the numbered  *)
(* kinds, a number.  A point's letter is its place in the alphabet.        *)
(***************************************************************************)
EXTENDS Integers, Sequences, FiniteSets, SequencesExt

CONSTANTS
  MaxNumber,  \* largest number or letter a line may carry
  MaxLines    \* lines of the document

ASSUME HierarchyAssumption == {MaxNumber, MaxLines} \subseteq Nat \ {0}

VARIABLES
  h,        \* HierarchyState
  lines,    \* the lines so far, each with the label it was given
  pending,  \* pending_points of the page under way, as line indices
  blocks    \* emitted blocks, as sequences of line indices

structureVars == <<h, lines, pending, blocks>>

Numbered == {"article", "clause", "point"}
Unnumbered == {"preamble_kw", "closing_kw", "chapter", "title", "paragraph"}
Labels == Numbered \cup Unnumbered \cup {"list_item", "demoted"}

NewClassifier ==
  [state |-> "FRONT_MATTER", article |-> 0, clause |-> 0, point |-> 0, demotions |-> 0]

StructureInit ==
  /\ h = NewClassifier
  /\ lines = <<>> /\ pending = <<>> /\ blocks = <<>>

-----------------------------------------------------------------------------
Flushed == IF pending = <<>> THEN blocks ELSE Append(blocks, pending)

\* The line gets its label; a point waits for its list, any other line ends
\* the list before it and is a block of its own.
Label(kind, n, label) ==
  /\ Len(lines) < MaxLines
  /\ lines' = Append(lines, [kind |-> kind, n |-> n, label |-> label])
  /\ IF label = "point"
     THEN /\ pending' = Append(pending, Len(lines) + 1)
          /\ UNCHANGED blocks
     ELSE /\ pending' = <<>>
          /\ blocks' = Append(Flushed, <<Len(lines) + 1>>)

Keep(kind, n) == Label(kind, n, kind)

Demote(kind, n, hier) ==
  /\ Label(kind, n, "demoted")
  /\ h' = [hier EXCEPT !.demotions = @ + 1]

\* Keywords, chapters and titles move the state and are kept as they are.
Preamble == Keep("preamble_kw", 0) /\ h' = [h EXCEPT !.state = "PREAMBLE"]
Closing == Keep("closing_kw", 0) /\ h' = [h EXCEPT !.state = "CLOSING"]
Title == Keep("title", 0) /\ h' = [h EXCEPT !.state = "FRONT_MATTER"]
PlainLine == Keep("paragraph", 0) /\ UNCHANGED h

Chapter ==
  /\ Keep("chapter", 0)
  /\ h' = [h EXCEPT !.state = "BODY", !.article = 0, !.clause = 0, !.point = 0]

ArticleNoReset(n) ==
  IF n = h.article + 1
  THEN Keep("article", n) /\ h' = [h EXCEPT !.state = "BODY", !.article = n]
  ELSE Demote("article", n, [h EXCEPT !.state = "BODY"])

\* An article opens the body even when its number is out of sequence.
Article(n) ==
  IF n = h.article + 1
  THEN /\ Keep("article", n)
       /\ h' = [h EXCEPT !.state = "BODY", !.article = n, !.clause = 0, !.point = 0]
  ELSE Demote("article", n, [h EXCEPT !.state = "BODY"])

\* A numbered line of the preamble is a list item, not a clause.
Clause(n) ==
  IF h.state /= "BODY" \/ h.article = 0
  THEN IF h.state = "PREAMBLE" THEN Label("clause", n, "list_item") /\ UNCHANGED h
       ELSE Demote("clause", n, h)
  ELSE IF n = h.clause + 1
       THEN Keep("clause", n) /\ h' = [h EXCEPT !.clause = n, !.point = 0]
       ELSE Demote("clause", n, h)

Point(n) ==
  IF h.state /= "BODY" \/ h.clause = 0
  THEN Label("point", n, "list_item") /\ UNCHANGED h
  ELSE IF n = h.point + 1
       THEN Keep("point", n) /\ h' = [h EXCEPT !.point = n]
       ELSE Demote("point", n, h)

NewPageNoFlush ==
  /\ pending /= <<>>
  /\ pending' = <<>>
  /\ UNCHANGED <<h, lines, blocks>>

\* The end of a page flushes the points; the hierarchy goes on.
NewPage ==
  /\ pending /= <<>>
  /\ blocks' = Flushed /\ pending' = <<>>
  /\ UNCHANGED <<h, lines>>

StructureNext ==
  \/ Preamble \/ Closing \/ Title \/ PlainLine \/ Chapter
  \/ \E n \in 1..MaxNumber : Article(n) \/ Clause(n) \/ Point(n)
  \/ NewPage

StructureSpec == StructureInit /\ [][StructureNext]_structureVars

-----------------------------------------------------------------------------
(* Properties.                                                             *)

\* Every variable keeps its shape.
StructureTypeOK ==
  /\ h.state \in {"FRONT_MATTER", "PREAMBLE", "BODY", "CLOSING"}
  /\ {h.article, h.clause, h.point} \subseteq 0..MaxNumber
  /\ h.demotions \in 0..Len(lines)
  /\ \A i \in DOMAIN lines : lines[i].label \in Labels
  /\ pending \in Seq(DOMAIN lines)
  /\ \A i \in DOMAIN blocks : blocks[i] \in Seq(DOMAIN lines)

\* The last line up to block k of a sequence of blocks.
LastUpTo(all, k) == IF k = 0 THEN 0 ELSE Last(all[k])

\* Structuring loses no line and repeats none: each block goes on where the
\* one before it ended, the points still waiting too, and they end with the
\* last line (Classifier.structure).
EveryLineOnce ==
  /\ \A k \in DOMAIN Flushed :
       /\ Flushed[k] /= <<>>
       /\ \A i \in DOMAIN Flushed[k] : Flushed[k][i] = LastUpTo(Flushed, k - 1) + i
  /\ LastUpTo(Flushed, Len(Flushed)) = Len(lines)

Kept(i, kind) == lines[i].label = kind

\* Between line j and line i no line was kept at a level above kind.
SameParent(j, i, above) ==
  \A k \in (j + 1)..(i - 1) : lines[k].label \notin above

\* The lines a document keeps as articles, clauses and points count up from
\* one inside their chapter, article and clause; whatever was demoted in
\* between (Classifier._state_machine).
CountsUp(kind, above) ==
  \A i \in DOMAIN lines : Kept(i, kind) /\ lines[i].n > 1 =>
    \E j \in 1..(i - 1) :
      /\ Kept(j, kind) /\ lines[j].n = lines[i].n - 1
      /\ SameParent(j, i, above \cup {kind})

Numbering ==
  /\ CountsUp("article", {"chapter"})
  /\ CountsUp("clause", {"chapter", "article"})
  /\ CountsUp("point", {"chapter", "article", "clause"})

=============================================================================
