------------------------------ MODULE Stitcher ------------------------------
(***************************************************************************)
(* conversion-service/assembly/stitcher.py: assemble.  The blocks of the   *)
(* digital pages and of the transcribed ones arrive in extraction order;   *)
(* each stage takes them one by one and appends to a list of its own,      *)
(* which the next stage works on.                                          *)
(*                                                                         *)
(* A block keeps what the stages test: its kind and page; for a paragraph  *)
(* its text, its margin band and whether it ends without terminal          *)
(* punctuation; for a table its width, its header row and whether it       *)
(* touches the top and the bottom of its page; for a section break its     *)
(* orientation.  "parts" lists the input blocks whose content it carries.  *)
(***************************************************************************)
EXTENDS Integers, Sequences, FiniteSets, SequencesExt

CONSTANTS
  MaxPages,   \* pages of the document
  MaxBlocks,  \* blocks of a stream
  Shapes      \* the blocks a page may hold, before they get page and parts

Shape ==
  [kind : {"para"}, text : STRING, band : {"none", "top", "bottom"}, open : BOOLEAN]
    \cup [kind : {"table"}, cols : Nat, boxed : BOOLEAN, header : STRING,
          high : BOOLEAN, low : BOOLEAN]
    \cup [kind : {"break"}, orientation : {"portrait", "landscape"}]
    \cup [kind : {"other"}]

ASSUME StitcherAssumption ==
  /\ {MaxPages, MaxBlocks} \subseteq Nat \ {0}
  /\ Shapes \subseteq Shape

Pages == 1..MaxPages

VARIABLES
  pc,       \* the stage under way
  input,    \* the blocks as they were handed over
  stream,   \* the blocks the stage has still to see
  out,      \* the blocks it has put out
  repeated  \* strip_running_headers: the margins seen on two pages

stitchVars == <<pc, input, stream, out, repeated>>

StitchInit ==
  /\ pc = "walk" /\ input = <<>>
  /\ stream = <<>> /\ out = <<>> /\ repeated = {}

Paragraph(b) == b.kind = "para"
Table(b) == b.kind = "table"

-----------------------------------------------------------------------------
\* A stream as convert_pdf hands it over.  The walk goes page by page, but a
\* transcription comes after it, with its pages in any order the answer has.
Placed(shape, i, p) ==
  [f \in {"page", "parts"} \cup DOMAIN shape |->
     CASE f = "page" -> p [] f = "parts" -> <<i>> [] OTHER -> shape[f]]

\* "body" of its blocks come from the structuring of text lines; a
\* transcription adds paragraphs of its own.
HandOver(body) ==
  /\ pc' = "sort"
  /\ \E n \in 1..MaxBlocks : \E pages \in [1..n -> Pages], shapes \in [1..n -> Shapes] :
       /\ Cardinality({i \in 1..n : shapes[i].kind \in {"para", "other"}}) >= body
       /\ input' = [i \in 1..n |-> Placed(shapes[i], i, pages[i])]
  /\ stream' = input'
  /\ UNCHANGED <<out, repeated>>

UnsortedOrder(s, order) == \A k \in DOMAIN s : order[k] = k

\* sorted by page: stable, so blocks of a page keep their order.
StableOrder(s, order) ==
  /\ \A i \in DOMAIN s : \E k \in DOMAIN s : order[k] = i
  /\ \A j \in DOMAIN s, k \in DOMAIN s : j < k =>
       \/ s[order[j]].page < s[order[k]].page
       \/ s[order[j]].page = s[order[k]].page /\ order[j] < order[k]

Sort ==
  /\ pc = "sort" /\ pc' = "margins"
  /\ \E order \in [DOMAIN stream -> DOMAIN stream] :
       /\ StableOrder(stream, order)
       /\ stream' = [k \in DOMAIN stream |-> stream[order[k]]]
  /\ UNCHANGED <<input, out, repeated>>

-----------------------------------------------------------------------------
(* strip_running_headers: one pass to learn the margins, one to strip.     *)
InMargin(b) == Paragraph(b) /\ b.band /= "none"
MarginKey(b) == <<b.text, b.band>>

SameMargin(a, b) ==
  InMargin(a) /\ InMargin(b) /\ MarginKey(a) = MarginKey(b)

Margins ==
  /\ pc = "margins" /\ pc' = "strip"
  /\ repeated' =
       {MarginKey(stream[i]) : i \in
          {i \in DOMAIN stream : \E j \in DOMAIN stream :
             SameMargin(stream[i], stream[j]) /\ stream[i].page /= stream[j].page}}
  /\ UNCHANGED <<input, stream, out>>

RunningAnywhere(b) ==
  Paragraph(b) /\ (b.text = "number" \/ \E key \in repeated : key[1] = b.text)

Running(b) == InMargin(b) /\ (b.text = "number" \/ MarginKey(b) \in repeated)

Strip ==
  /\ pc = "strip" /\ stream /= <<>>
  /\ stream' = Tail(stream)
  /\ out' = IF Running(Head(stream)) THEN out ELSE Append(out, Head(stream))
  /\ UNCHANGED <<pc, input, repeated>>

-----------------------------------------------------------------------------
\* The other stages either append the block to what they put out or fold it
\* into the last block there.
Absorb(folds, folded) ==
  /\ stream /= <<>>
  /\ stream' = Tail(stream)
  /\ out' = IF out /= <<>> /\ folds
            THEN [out EXCEPT ![Len(out)] = folded]
            ELSE Append(out, Head(stream))
  /\ UNCHANGED <<pc, input, repeated>>

\* join_dangling: the joined paragraph keeps the first page.
Dangles(prev, b) ==
  /\ Paragraph(prev) /\ Paragraph(b)
  /\ b.page = prev.page + 1
  /\ prev.open

Joined(prev, b) == [prev EXCEPT !.parts = @ \o b.parts, !.open = b.open]

Join ==
  LET prev == Last(out)
      b == Head(stream)
  IN  pc = "join" /\ Absorb(Dangles(prev, b), Joined(prev, b))

\* merge_split_tables.
Continues(prev, b) ==
  /\ Table(prev) /\ Table(b)
  /\ prev.page + 1 = b.page
  /\ prev.cols = b.cols /\ b.cols > 0
  /\ prev.boxed /\ b.boxed
  /\ prev.low /\ b.high
  /\ prev.header /= "none" /\ b.header \in {"none", prev.header}

\* The merged table has no bounding box, so that nothing continues it.
Extended(prev, b) == [prev EXCEPT !.parts = @ \o b.parts, !.boxed = FALSE]

Merge ==
  LET prev == Last(out)
      b == Head(stream)
  IN  pc = "merge" /\ Absorb(Continues(prev, b), Extended(prev, b))

\* consolidate_sections: the second break is dropped.
SameSection(prev, b) ==
  prev.kind = "break" /\ b.kind = "break" /\ prev.orientation = b.orientation

Sections ==
  LET prev == Last(out)
      b == Head(stream)
  IN  pc = "sections" /\ Absorb(SameSection(prev, b), prev)

-----------------------------------------------------------------------------
Following ==
  [strip |-> "join", join |-> "merge", merge |-> "sections", sections |-> "done"]

\* What a stage put out is what the next one works on.
NextStage ==
  /\ pc \in DOMAIN Following /\ stream = <<>>
  /\ pc' = Following[pc]
  /\ stream' = out /\ out' = <<>>
  /\ UNCHANGED <<input, repeated>>

Assembly == Sort \/ Margins \/ Strip \/ Join \/ Merge \/ Sections \/ NextStage

-----------------------------------------------------------------------------
(* Properties of the assembled stream.                                     *)

\* Input block i comes before input block j in the document: on an earlier
\* page, or extracted earlier from the same one.
Before(i, j) ==
  \/ input[i].page < input[j].page
  \/ input[i].page = input[j].page /\ i < j

PartsOf(b) == ToSet(b.parts)
Carried(s) == UNION {PartsOf(s[k]) : k \in DOMAIN s}

\* A page number in a margin, or the words of a margin of another page.
RunningMargin(i) ==
  /\ InMargin(input[i])
  /\ \/ input[i].text = "number"
     \/ \E j \in DOMAIN input :
          SameMargin(input[i], input[j]) /\ input[i].page /= input[j].page

\* A section break that changes nothing: block k of s is a break of the same
\* orientation before it, and nothing is kept between the two.
BreakAgain(s, i) ==
  /\ input[i].kind = "break"
  /\ \E k \in DOMAIN s :
       /\ s[k].kind = "break" /\ s[k].orientation = input[i].orientation
       /\ \A p \in PartsOf(s[k]) : Before(p, i)
       /\ \A m \in DOMAIN s : m > k => \A p \in PartsOf(s[m]) : Before(i, p)

\* What the assembly drops is a running header, a page number in a margin,
\* or a section break that changes nothing; never body text
\* (strip_running_headers, consolidate_sections).
OnlyMarginsLost ==
  pc = "done" =>
    \A i \in DOMAIN input \ Carried(stream) : RunningMargin(i) \/ BreakAgain(stream, i)

\* stitcher.py:207: a merged table never takes in a third page.
TwoPageTables(s) ==
  \A k \in DOMAIN s :
    Table(s[k]) => Cardinality({input[p].page : p \in PartsOf(s[k])}) <= 2

\* Blocks follow each other in the order of the document, part for part.
BlocksInOrder(s) ==
  \A j \in DOMAIN s, k \in DOMAIN s : j < k =>
    \A p \in PartsOf(s[j]), q \in PartsOf(s[k]) : Before(p, q)

PartsInOrder(b) ==
  \A j \in DOMAIN b.parts, k \in DOMAIN b.parts :
    j < k => Before(b.parts[j], b.parts[k])

\* The document reads page after page, and within a page in extraction
\* order, whatever was joined (assemble's stable sort), and no merged table
\* takes in a third page.
ReadingOrder ==
  pc = "done" =>
    /\ BlocksInOrder(stream)
    /\ \A k \in DOMAIN stream : PartsInOrder(stream[k])
    /\ TwoPageTables(stream)

=============================================================================
