--------------------------- MODULE DocumentProofs ---------------------------
(***************************************************************************)
(* Document for documents of any length, numbers of any size and streams   *)
(* of any blocks: the numbering counts up, no line is lost or repeated     *)
(* over page breaks, the assembly drops nothing but margins and breaks     *)
(* that change nothing, and the result reads in order.                     *)
(***************************************************************************)
EXTENDS Document, FiniteSetTheorems, TLAPS

-----------------------------------------------------------------------------
(* The numbering.  The inductive invariant ties the machine's counters to  *)
(* the document: a counter above zero is the number of the last line kept  *)
(* at its level, with nothing kept above it since.                         *)

Types ==
  /\ h \in [state : {"FRONT_MATTER", "PREAMBLE", "BODY", "CLOSING"},
            article : Nat, clause : Nat, point : Nat, demotions : Nat]
  /\ lines \in Seq([kind : Labels, n : Nat, label : Labels])

\* Line j is kept with number n and no line kept at a level in "above" or at
\* its own follows it.
LastOf(kind, n, above) ==
  \E j \in 1..Len(lines) :
    /\ Kept(j, kind) /\ lines[j].n = n
    /\ SameParent(j, Len(lines) + 1, above \cup {kind})

CountersKnow ==
  /\ h.article > 0 => LastOf("article", h.article, {"chapter"})
  /\ h.clause > 0 => LastOf("clause", h.clause, {"chapter", "article"})
  /\ h.point > 0 => LastOf("point", h.point, {"chapter", "article", "clause"})

NumberingInv == Types /\ CountersKnow /\ Numbering

-----------------------------------------------------------------------------
\* A step that appends one line: what the earlier lines show is unchanged.
LEMMA Appended ==
  ASSUME Types, NEW l \in [kind : Labels, n : Nat, label : Labels],
         lines' = Append(lines, l)
  PROVE  /\ lines' \in Seq([kind : Labels, n : Nat, label : Labels])
         /\ Len(lines') = Len(lines) + 1
         /\ Len(lines) \in Nat
         /\ \A i \in 1..Len(lines) : lines'[i] = lines[i]
         /\ lines'[Len(lines) + 1] = l
  BY DEF Types

\* A counter whose level is not disturbed still knows its line.
LEMMA LastStays ==
  ASSUME Types, NEW l \in [kind : Labels, n : Nat, label : Labels],
         lines' = Append(lines, l),
         NEW kind, NEW n, NEW above, LastOf(kind, n, above),
         l.label \notin above \cup {kind}
  PROVE  LastOf(kind, n, above)'
<1>1. PICK j \in 1..Len(lines) :
        /\ Kept(j, kind) /\ lines[j].n = n
        /\ SameParent(j, Len(lines) + 1, above \cup {kind})
  BY DEF LastOf
<1>2. /\ Len(lines') = Len(lines) + 1
      /\ Len(lines) \in Nat
      /\ \A i \in 1..Len(lines) : lines'[i] = lines[i]
      /\ lines'[Len(lines) + 1] = l
  BY Appended
<1>3. ASSUME NEW k \in (j + 1)..Len(lines')
      PROVE  lines'[k].label \notin above \cup {kind}
  <2>1. CASE k = Len(lines) + 1
    BY <2>1, <1>2
  <2>2. CASE k /= Len(lines) + 1
    <3>1. k \in 1..Len(lines) /\ k \in (j + 1)..((Len(lines) + 1) - 1)
      BY <1>2, <1>3, <2>2
    <3> QED BY <3>1, <1>1, <1>2 DEF SameParent
  <2> QED BY <2>1, <2>2
<1>4. j \in 1..Len(lines') /\ lines'[j] = lines[j]
  BY <1>2
<1> QED BY <1>1, <1>2, <1>3, <1>4 DEF LastOf, Kept, SameParent

\* The line just kept is the last of its level.
LEMMA LastNow ==
  ASSUME Types, NEW l \in [kind : Labels, n : Nat, label : Labels],
         lines' = Append(lines, l), NEW above
  PROVE  LastOf(l.label, l.n, above)'
  BY Appended DEF LastOf, Kept, SameParent

\* Numbering of one level goes on when the new line is not kept at it, or is
\* its first, or continues the last one.
LEMMA CountGoesOn ==
  ASSUME Types, NEW l \in [kind : Labels, n : Nat, label : Labels],
         lines' = Append(lines, l),
         NEW kind, NEW above, CountsUp(kind, above),
         l.label = kind /\ l.n > 1 => LastOf(kind, l.n - 1, above)
  PROVE  CountsUp(kind, above)'
<1>1. /\ Len(lines') = Len(lines) + 1
      /\ Len(lines) \in Nat
      /\ \A i \in 1..Len(lines) : lines'[i] = lines[i]
      /\ lines'[Len(lines) + 1] = l
      /\ DOMAIN lines = 1..Len(lines) /\ DOMAIN lines' = 1..Len(lines')
  BY Appended DEF Types
<1>2. SUFFICES ASSUME NEW i \in 1..Len(lines'), lines'[i].label = kind, lines'[i].n > 1
               PROVE  \E j \in 1..(i - 1) :
                        /\ lines'[j].label = kind /\ lines'[j].n = lines'[i].n - 1
                        /\ \A k \in (j + 1)..(i - 1) :
                             lines'[k].label \notin above \cup {kind}
  BY <1>1 DEF CountsUp, Kept, SameParent
<1>3. CASE i <= Len(lines)
  <2>1. i \in 1..Len(lines) /\ lines'[i] = lines[i]
    BY <1>1, <1>2, <1>3
  <2>2. PICK j \in 1..(i - 1) :
          /\ Kept(j, kind) /\ lines[j].n = lines[i].n - 1
          /\ SameParent(j, i, above \cup {kind})
    BY <1>1, <1>2, <2>1 DEF CountsUp, Kept
  <2>3. \A k \in j..(i - 1) : lines'[k] = lines[k]
    BY <1>1, <2>1
  <2> QED BY <2>1, <2>2, <2>3 DEF Kept, SameParent
<1>4. CASE i = Len(lines) + 1
  <2>1. LastOf(kind, l.n - 1, above)
    BY <1>1, <1>2, <1>4
  <2>2. PICK j \in 1..Len(lines) :
          /\ Kept(j, kind) /\ lines[j].n = l.n - 1
          /\ SameParent(j, Len(lines) + 1, above \cup {kind})
    BY <2>1 DEF LastOf
  <2> QED BY <1>1, <1>4, <2>2 DEF Kept, SameParent
<1> QED BY <1>1, <1>2, <1>3, <1>4

-----------------------------------------------------------------------------
\* What Label says of the new line.
LEMMA Labelled ==
  ASSUME NEW kind \in Labels, NEW n \in Nat, NEW label \in Labels,
         Label(kind, n, label)
  PROVE  lines' = Append(lines, [kind |-> kind, n |-> n, label |-> label])
  BY DEF Label

\* A line that is kept at no level leaves the three counts as they were.
LEMMA Unkept ==
  ASSUME NumberingInv, NEW kind \in Labels, NEW n \in Nat, NEW label \in Labels,
         label \notin Numbered, Label(kind, n, label)
  PROVE  Numbering'
<1> DEFINE l == [kind |-> kind, n |-> n, label |-> label]
<1>1. l \in [kind : Labels, n : Nat, label : Labels] /\ lines' = Append(lines, l)
  BY Labelled
<1>2. l.label \notin {"article", "clause", "point"}
  BY DEF Numbered
<1>3. Types /\ CountsUp("article", {"chapter"}) /\ CountsUp("clause", {"chapter", "article"})
        /\ CountsUp("point", {"chapter", "article", "clause"})
  BY DEF NumberingInv, Numbering
<1> HIDE DEF l
<1>4. CountsUp("article", {"chapter"})'
  BY <1>1, <1>2, <1>3, CountGoesOn
<1>5. CountsUp("clause", {"chapter", "article"})'
  BY <1>1, <1>2, <1>3, CountGoesOn
<1>6. CountsUp("point", {"chapter", "article", "clause"})'
  BY <1>1, <1>2, <1>3, CountGoesOn
<1> QED BY <1>4, <1>5, <1>6 DEF Numbering

\* Nor do the counters lose their lines, unless the new line is a chapter.
LEMMA UnkeptKnow ==
  ASSUME NumberingInv, NEW kind \in Labels, NEW n \in Nat, NEW label \in Labels,
         label \notin Numbered \cup {"chapter"}, Label(kind, n, label),
         h'.article = h.article, h'.clause = h.clause, h'.point = h.point
  PROVE  CountersKnow'
<1> DEFINE l == [kind |-> kind, n |-> n, label |-> label]
<1>1. l \in [kind : Labels, n : Nat, label : Labels] /\ lines' = Append(lines, l)
  BY Labelled
<1>2. l.label \notin {"chapter", "article", "clause", "point"}
  BY DEF Numbered
<1>3. Types
  BY DEF NumberingInv
<1> HIDE DEF l
<1>4. \A m : LastOf("article", m, {"chapter"}) => LastOf("article", m, {"chapter"})'
  BY <1>1, <1>2, <1>3, LastStays
<1>5. \A m : LastOf("clause", m, {"chapter", "article"})
               => LastOf("clause", m, {"chapter", "article"})'
  BY <1>1, <1>2, <1>3, LastStays
<1>6. \A m : LastOf("point", m, {"chapter", "article", "clause"})
               => LastOf("point", m, {"chapter", "article", "clause"})'
  BY <1>1, <1>2, <1>3, LastStays
<1> QED BY <1>4, <1>5, <1>6 DEF NumberingInv, CountersKnow

\* The three ways a clause, and a point, may go.
LEMMA ClauseCases ==
  ASSUME NEW n, Clause(n)
  PROVE  \/ Label("clause", n, "list_item") /\ h' = h
         \/ Demote("clause", n, h)
         \/ /\ n = h.clause + 1
            /\ Label("clause", n, "clause")
            /\ h' = [h EXCEPT !.clause = n, !.point = 0]
<1>1. CASE h.state /= "BODY" \/ h.article = 0
  <2>1. IF h.state = "PREAMBLE" THEN Label("clause", n, "list_item") /\ UNCHANGED h
        ELSE Demote("clause", n, h)
    BY <1>1 DEF Clause
  <2> QED BY <2>1
<1>2. CASE ~(h.state /= "BODY" \/ h.article = 0)
  <2>1. IF n = h.clause + 1
        THEN Keep("clause", n) /\ h' = [h EXCEPT !.clause = n, !.point = 0]
        ELSE Demote("clause", n, h)
    BY <1>2 DEF Clause
  <2>2. CASE n = h.clause + 1
    BY <2>1, <2>2 DEF Keep
  <2>3. CASE n /= h.clause + 1
    BY <2>1, <2>3
  <2> QED BY <2>2, <2>3
<1> QED BY <1>1, <1>2

\* The three ways a point may go.
LEMMA PointCases ==
  ASSUME NEW n, Point(n)
  PROVE  \/ Label("point", n, "list_item") /\ h' = h
         \/ Demote("point", n, h)
         \/ /\ n = h.point + 1
            /\ Label("point", n, "point")
            /\ h' = [h EXCEPT !.point = n]
<1>1. CASE h.state /= "BODY" \/ h.clause = 0
  BY <1>1 DEF Point
<1>2. CASE ~(h.state /= "BODY" \/ h.clause = 0)
  <2>1. IF n = h.point + 1
        THEN Keep("point", n) /\ h' = [h EXCEPT !.point = n]
        ELSE Demote("point", n, h)
    BY <1>2 DEF Point
  <2>2. CASE n = h.point + 1
    BY <2>1, <2>2 DEF Keep
  <2>3. CASE n /= h.point + 1
    BY <2>1, <2>3
  <2> QED BY <2>2, <2>3
<1> QED BY <1>1, <1>2

\* Types under each operation.
LEMMA TypesStay == ASSUME Types, [StructureNext]_structureVars PROVE Types'
<1> SUFFICES ASSUME StructureNext PROVE Types'
  BY DEF Types, structureVars
<1>1. \A kind \in Labels, n \in Nat, label \in Labels : Label(kind, n, label)
        => lines' \in Seq([kind : Labels, n : Nat, label : Labels])
  BY DEF Types, Label
<1>2. /\ {"demoted", "list_item"} \subseteq Labels
      /\ {"article", "clause", "point"} \subseteq Labels
      /\ {"preamble_kw", "closing_kw", "chapter", "title", "paragraph"} \subseteq Labels
  BY DEF Labels, Numbered, Unnumbered
<1>h. h \in [state : {"FRONT_MATTER", "PREAMBLE", "BODY", "CLOSING"},
             article : Nat, clause : Nat, point : Nat, demotions : Nat]
  BY DEF Types
<1>3. ASSUME Preamble \/ Closing \/ Title \/ PlainLine \/ Chapter PROVE Types'
  <2>1. lines' \in Seq([kind : Labels, n : Nat, label : Labels])
    BY <1>1, <1>2, <1>3 DEF Preamble, Closing, Title, PlainLine, Chapter, Keep
  <2>2. h' \in [state : {"FRONT_MATTER", "PREAMBLE", "BODY", "CLOSING"},
                article : Nat, clause : Nat, point : Nat, demotions : Nat]
    <3>1. CASE Preamble \/ Closing \/ Title
      BY <1>h, <3>1 DEF Preamble, Closing, Title
    <3>2. CASE PlainLine
      BY <1>h, <3>2 DEF PlainLine
    <3>3. CASE Chapter
      BY <1>h, <3>3 DEF Chapter
    <3> QED BY <1>3, <3>1, <3>2, <3>3
  <2> QED BY <2>1, <2>2 DEF Types
<1>4. ASSUME NEW n \in Nat, Article(n) \/ Clause(n) \/ Point(n) PROVE Types'
  <2>1. \E kind \in {"article", "clause", "point"},
           label \in {"article", "clause", "point", "demoted", "list_item"} :
          Label(kind, n, label)
    BY <1>4 DEF Article, Clause, Point, Keep, Demote
  <2>2. lines' \in Seq([kind : Labels, n : Nat, label : Labels])
    BY <1>1, <1>2, <2>1
  <2>3. h' \in [state : {"FRONT_MATTER", "PREAMBLE", "BODY", "CLOSING"},
                article : Nat, clause : Nat, point : Nat, demotions : Nat]
    <3>1. CASE Article(n)
      <4>1. CASE h' = [h EXCEPT !.state = "BODY", !.article = n, !.clause = 0, !.point = 0]
        BY <1>h, <4>1
      <4>2. CASE h' = [[h EXCEPT !.state = "BODY"] EXCEPT !.demotions = @ + 1]
        <5>1. h' = [state |-> "BODY", article |-> h.article, clause |-> h.clause,
                    point |-> h.point, demotions |-> h.demotions + 1]
          BY <1>h, <4>2
        <5>2. h.article \in Nat /\ h.clause \in Nat /\ h.point \in Nat
                /\ h.demotions + 1 \in Nat
          BY <1>h
        <5> QED BY <5>1, <5>2
      <4> QED BY <3>1, <4>1, <4>2, Zenon DEF Article, Demote
    <3>2. CASE Clause(n)
      <4>1. Demote("clause", n, h) => h' = [h EXCEPT !.demotions = @ + 1]
        BY Zenon DEF Demote
      <4>2. \/ h' = h
            \/ h' = [h EXCEPT !.clause = n, !.point = 0]
            \/ h' = [h EXCEPT !.demotions = @ + 1]
        BY <3>2, <4>1, ClauseCases, Zenon
      <4>3. CASE h' = [h EXCEPT !.demotions = @ + 1]
        BY <1>h, <4>3
      <4>4. CASE h' = [h EXCEPT !.clause = n, !.point = 0]
        BY <1>h, <4>4
      <4>5. CASE h' = h
        BY <1>h, <4>5
      <4> QED BY <4>2, <4>3, <4>4, <4>5
    <3>3. CASE Point(n)
      <4>1. Demote("point", n, h) => h' = [h EXCEPT !.demotions = @ + 1]
        BY Zenon DEF Demote
      <4>2. \/ h' = h
            \/ h' = [h EXCEPT !.point = n]
            \/ h' = [h EXCEPT !.demotions = @ + 1]
        BY <3>3, <4>1, PointCases, Zenon
      <4>3. CASE h' = [h EXCEPT !.demotions = @ + 1]
        BY <1>h, <4>3
      <4>4. CASE h' = [h EXCEPT !.point = n]
        BY <1>h, <4>4
      <4> QED BY <1>h, <4>2, <4>3, <4>4
    <3> QED BY <1>4, <3>1, <3>2, <3>3
  <2> QED BY <2>2, <2>3 DEF Types
<1>7. CASE NewPage
  BY <1>7 DEF NewPage, Types
<1>8. \A n \in 1..MaxNumber : n \in Nat
  OBVIOUS
<1> QED BY <1>3, <1>4, <1>7, <1>8 DEF StructureNext

-----------------------------------------------------------------------------
\* A line that is demoted, or kept without a number, keeps the invariant.
LEMMA OtherLine ==
  ASSUME NumberingInv, NEW kind \in Labels, NEW n \in Nat, NEW label \in Labels,
         label \notin Numbered \cup {"chapter"}, Label(kind, n, label),
         h'.article = h.article, h'.clause = h.clause, h'.point = h.point
  PROVE  CountersKnow' /\ Numbering'
  BY Unkept, UnkeptKnow

\* A chapter sets the counters to zero.
LEMMA ChapterKeeps == ASSUME NumberingInv, Chapter PROVE CountersKnow' /\ Numbering'
<1>1. Label("chapter", 0, "chapter") /\ "chapter" \in Labels /\ "chapter" \notin Numbered
  BY DEF Chapter, Keep, Labels, Unnumbered, Numbered
<1>2. Numbering'
  BY <1>1, Unkept
<1>3. h'.article = 0 /\ h'.clause = 0 /\ h'.point = 0
  BY DEF Chapter, NumberingInv, Types
<1> QED BY <1>2, <1>3 DEF CountersKnow

\* A kept article continues the articles; clauses and points start anew.
LEMMA ArticleKeeps ==
  ASSUME NumberingInv, NEW n \in Nat, Article(n) PROVE CountersKnow' /\ Numbering'
<1> DEFINE l == [kind |-> "article", n |-> n, label |-> "article"]
<1>0. {"article", "demoted"} \subseteq Labels
  BY DEF Labels, Numbered
<1>1. CASE n = h.article + 1
  <2>1. Label("article", n, "article")
    BY <1>1 DEF Article, Keep
  <2>2. l \in [kind : Labels, n : Nat, label : Labels] /\ lines' = Append(lines, l)
    BY <2>1, <1>0, Labelled
  <2>3. h'.article = n /\ h'.clause = 0 /\ h'.point = 0
    BY <1>1 DEF Article, NumberingInv, Types
  <2>4. l.label = "article" /\ l.n = n
    OBVIOUS
  <2>5. n > 1 => LastOf("article", n - 1, {"chapter"})
    <3>1. h.article \in Nat
      BY DEF NumberingInv, Types
    <3>2. n - 1 = h.article /\ (n > 1 => h.article > 0)
      BY <1>1, <3>1
    <3> QED BY <3>2 DEF NumberingInv, CountersKnow
  <2>6. Types /\ CountsUp("article", {"chapter"}) /\ CountsUp("clause", {"chapter", "article"})
          /\ CountsUp("point", {"chapter", "article", "clause"})
    BY DEF NumberingInv, Numbering
  <2> HIDE DEF l
  <2>7. CountsUp("article", {"chapter"})'
    BY <2>2, <2>4, <2>5, <2>6, CountGoesOn
  <2>8. CountsUp("clause", {"chapter", "article"})'
    BY <2>2, <2>4, <2>6, CountGoesOn
  <2>9. CountsUp("point", {"chapter", "article", "clause"})'
    BY <2>2, <2>4, <2>6, CountGoesOn
  <2>10. \A m : m = n => LastOf("article", m, {"chapter"})'
    BY <2>2, <2>4, <2>6, LastNow
  <2> QED BY <2>3, <2>7, <2>8, <2>9, <2>10 DEF CountersKnow, Numbering
<1>2. CASE n /= h.article + 1
  <2>1. Label("article", n, "demoted") /\ "demoted" \notin Numbered \cup {"chapter"}
    BY <1>2 DEF Article, Demote, Numbered
  <2>2. h'.article = h.article /\ h'.clause = h.clause /\ h'.point = h.point
    BY <1>2 DEF Article, Demote, NumberingInv, Types
  <2> QED BY <1>0, <2>1, <2>2, OtherLine
<1> QED BY <1>1, <1>2

\* A kept clause continues those of its article; points start anew.
LEMMA ClauseKeeps ==
  ASSUME NumberingInv, NEW n \in Nat, Clause(n) PROVE CountersKnow' /\ Numbering'
<1> DEFINE l == [kind |-> "clause", n |-> n, label |-> "clause"]
<1>0. {"clause", "demoted", "list_item"} \subseteq Labels
  BY DEF Labels, Numbered
<1>1. CASE /\ n = h.clause + 1
           /\ Label("clause", n, "clause")
           /\ h' = [h EXCEPT !.clause = n, !.point = 0]
  <2>2. l \in [kind : Labels, n : Nat, label : Labels] /\ lines' = Append(lines, l)
    BY <1>0, <1>1, Labelled
  <2>3. h'.article = h.article /\ h'.clause = n /\ h'.point = 0
    BY <1>1 DEF NumberingInv, Types
  <2>4. l.label = "clause" /\ l.n = n
    OBVIOUS
  <2>5. n > 1 => LastOf("clause", n - 1, {"chapter", "article"})
    <3>1. h.clause \in Nat
      BY DEF NumberingInv, Types
    <3>2. n - 1 = h.clause /\ (n > 1 => h.clause > 0)
      BY <1>1, <3>1
    <3> QED BY <3>2 DEF NumberingInv, CountersKnow
  <2>6. Types /\ CountsUp("article", {"chapter"}) /\ CountsUp("clause", {"chapter", "article"})
          /\ CountsUp("point", {"chapter", "article", "clause"})
    BY DEF NumberingInv, Numbering
  <2> HIDE DEF l
  <2>7. CountsUp("article", {"chapter"})'
    BY <2>2, <2>4, <2>6, CountGoesOn
  <2>8. CountsUp("clause", {"chapter", "article"})'
    BY <2>2, <2>4, <2>5, <2>6, CountGoesOn
  <2>9. CountsUp("point", {"chapter", "article", "clause"})'
    BY <2>2, <2>4, <2>6, CountGoesOn
  <2>10. \A m : m = n => LastOf("clause", m, {"chapter", "article"})'
    BY <2>2, <2>4, <2>6, LastNow
  <2>11. \A m : LastOf("article", m, {"chapter"}) => LastOf("article", m, {"chapter"})'
    BY <2>2, <2>4, <2>6, LastStays
  <2>12. h.article > 0 => LastOf("article", h.article, {"chapter"})
    BY DEF NumberingInv, CountersKnow
  <2> QED BY <2>3, <2>7, <2>8, <2>9, <2>10, <2>11, <2>12 DEF CountersKnow, Numbering
<1>2. CASE Label("clause", n, "list_item") /\ h' = h
  BY <1>0, <1>2, OtherLine DEF Numbered
<1>3. CASE Demote("clause", n, h)
  <2>1. Label("clause", n, "demoted") /\ "demoted" \notin Numbered \cup {"chapter"}
    BY <1>3 DEF Demote, Numbered
  <2>2. h'.article = h.article /\ h'.clause = h.clause /\ h'.point = h.point
    BY <1>3 DEF Demote, NumberingInv, Types
  <2> QED BY <1>0, <2>1, <2>2, OtherLine
<1>4. \/ Label("clause", n, "list_item") /\ h' = h
      \/ Demote("clause", n, h)
      \/ /\ n = h.clause + 1
         /\ Label("clause", n, "clause")
         /\ h' = [h EXCEPT !.clause = n, !.point = 0]
  BY ClauseCases
<1> QED BY <1>1, <1>2, <1>3, <1>4

\* A kept point continues those of its clause.
LEMMA PointKeeps ==
  ASSUME NumberingInv, NEW n \in Nat, Point(n) PROVE CountersKnow' /\ Numbering'
<1> DEFINE l == [kind |-> "point", n |-> n, label |-> "point"]
<1>0. {"point", "demoted", "list_item"} \subseteq Labels
  BY DEF Labels, Numbered
<1>1. CASE /\ n = h.point + 1
           /\ Label("point", n, "point")
           /\ h' = [h EXCEPT !.point = n]
  <2>2. l \in [kind : Labels, n : Nat, label : Labels] /\ lines' = Append(lines, l)
    BY <1>0, <1>1, Labelled
  <2>3. h'.article = h.article /\ h'.clause = h.clause /\ h'.point = n
    BY <1>1 DEF NumberingInv, Types
  <2>4. l.label = "point" /\ l.n = n
    OBVIOUS
  <2>5. n > 1 => LastOf("point", n - 1, {"chapter", "article", "clause"})
    <3>1. h.point \in Nat
      BY DEF NumberingInv, Types
    <3>2. n - 1 = h.point /\ (n > 1 => h.point > 0)
      BY <1>1, <3>1
    <3> QED BY <3>2 DEF NumberingInv, CountersKnow
  <2>6. Types /\ CountsUp("article", {"chapter"}) /\ CountsUp("clause", {"chapter", "article"})
          /\ CountsUp("point", {"chapter", "article", "clause"})
    BY DEF NumberingInv, Numbering
  <2> HIDE DEF l
  <2>7. CountsUp("article", {"chapter"})'
    BY <2>2, <2>4, <2>6, CountGoesOn
  <2>8. CountsUp("clause", {"chapter", "article"})'
    BY <2>2, <2>4, <2>6, CountGoesOn
  <2>9. CountsUp("point", {"chapter", "article", "clause"})'
    BY <2>2, <2>4, <2>5, <2>6, CountGoesOn
  <2>10. \A m : m = n => LastOf("point", m, {"chapter", "article", "clause"})'
    BY <2>2, <2>4, <2>6, LastNow
  <2>11. \A m : LastOf("article", m, {"chapter"}) => LastOf("article", m, {"chapter"})'
    BY <2>2, <2>4, <2>6, LastStays
  <2>12. \A m : LastOf("clause", m, {"chapter", "article"})
                  => LastOf("clause", m, {"chapter", "article"})'
    BY <2>2, <2>4, <2>6, LastStays
  <2>13. /\ h.article > 0 => LastOf("article", h.article, {"chapter"})
         /\ h.clause > 0 => LastOf("clause", h.clause, {"chapter", "article"})
    BY DEF NumberingInv, CountersKnow
  <2> QED BY <2>3, <2>7, <2>8, <2>9, <2>10, <2>11, <2>12, <2>13 DEF CountersKnow, Numbering
<1>2. CASE Label("point", n, "list_item") /\ h' = h
  BY <1>0, <1>2, OtherLine DEF Numbered
<1>3. CASE Demote("point", n, h)
  <2>1. Label("point", n, "demoted") /\ "demoted" \notin Numbered \cup {"chapter"}
    BY <1>3 DEF Demote, Numbered
  <2>2. h'.article = h.article /\ h'.clause = h.clause /\ h'.point = h.point
    BY <1>3 DEF Demote, NumberingInv, Types
  <2> QED BY <1>0, <2>1, <2>2, OtherLine
<1>4. \/ Label("point", n, "list_item") /\ h' = h
      \/ Demote("point", n, h)
      \/ /\ n = h.point + 1
         /\ Label("point", n, "point")
         /\ h' = [h EXCEPT !.point = n]
  BY PointCases
<1> QED BY <1>1, <1>2, <1>3, <1>4

-----------------------------------------------------------------------------
\* The invariant holds at the start and is kept by every step.
LEMMA InitNumbering == StructureInit => NumberingInv
  BY DEF StructureInit, NewClassifier, NumberingInv, Types, CountersKnow, Numbering, CountsUp

\* Every step of the structuring keeps the numbering.
LEMMA StepNumbering == NumberingInv /\ [StructureNext]_structureVars => NumberingInv'
<1> SUFFICES ASSUME NumberingInv, [StructureNext]_structureVars PROVE NumberingInv'
  OBVIOUS
<1>1. Types'
  BY TypesStay DEF NumberingInv
<1>2. CountersKnow' /\ Numbering'
  <2>1. CASE Chapter
    BY <2>1, ChapterKeeps
  <2>2. CASE Preamble \/ Closing \/ Title \/ PlainLine
    <3>1. \E kind \in {"preamble_kw", "closing_kw", "title", "paragraph"} : Label(kind, 0, kind)
      BY <2>2 DEF Preamble, Closing, Title, PlainLine, Keep
    <3>2. h'.article = h.article /\ h'.clause = h.clause /\ h'.point = h.point
      BY <2>2 DEF Preamble, Closing, Title, PlainLine, NumberingInv, Types
    <3>3. \A kind \in {"preamble_kw", "closing_kw", "title", "paragraph"} :
            kind \in Labels /\ kind \notin Numbered \cup {"chapter"}
      BY DEF Labels, Numbered, Unnumbered
    <3> QED BY <3>1, <3>2, <3>3, OtherLine
  <2>3. ASSUME NEW n \in 1..MaxNumber, Article(n) \/ Clause(n) \/ Point(n)
        PROVE  CountersKnow' /\ Numbering'
    BY <2>3, ArticleKeeps, ClauseKeeps, PointKeeps
  <2>4. CASE NewPage \/ UNCHANGED structureVars
    <3>1. UNCHANGED <<h, lines>>
      BY <2>4 DEF NewPage, structureVars
    <3> QED BY <3>1 DEF NumberingInv, CountersKnow, LastOf, Numbering, CountsUp, Kept, SameParent
  <2> QED BY <2>1, <2>2, <2>3, <2>4 DEF StructureNext
<1> QED BY <1>1, <1>2 DEF NumberingInv

-----------------------------------------------------------------------------
(* The lines.                                                              *)

\* The blocks of "all" are the lines 1..n, one after the other.
Tiles(all, n) ==
  /\ \A k \in DOMAIN all :
       /\ all[k] /= <<>>
       /\ \A i \in DOMAIN all[k] : all[k][i] = LastUpTo(all, k - 1) + i
  /\ LastUpTo(all, Len(all)) = n

\* A new line is a block after the ones there are.
LEMMA TilesAppend ==
  ASSUME NEW all \in Seq(Seq(Nat)), NEW n \in Nat, Tiles(all, n)
  PROVE  Tiles(Append(all, <<n + 1>>), n + 1)
<1> DEFINE new == Append(all, <<n + 1>>)
<1>1. /\ new \in Seq(Seq(Nat)) /\ Len(new) = Len(all) + 1 /\ Len(all) \in Nat
      /\ DOMAIN new = 1..(Len(all) + 1) /\ DOMAIN all = 1..Len(all)
      /\ new[Len(all) + 1] = <<n + 1>>
      /\ \A k \in 1..Len(all) : new[k] = all[k]
  OBVIOUS
<1> HIDE DEF new
<1>2. \A k \in 0..Len(all) : LastUpTo(new, k) = LastUpTo(all, k)
  BY <1>1 DEF LastUpTo, Last
<1>3. LastUpTo(new, Len(new)) = n + 1
  BY <1>1 DEF LastUpTo, Last
<1>4. ASSUME NEW k \in DOMAIN new
      PROVE  /\ new[k] /= <<>>
             /\ \A i \in DOMAIN new[k] : new[k][i] = LastUpTo(new, k - 1) + i
  <2>1. CASE k = Len(all) + 1
    <3>1. LastUpTo(new, k - 1) = n
      BY <1>1, <1>2, <2>1 DEF Tiles
    <3>2. /\ <<n + 1>> /= <<>> /\ DOMAIN <<n + 1>> = {1}
          /\ <<n + 1>>[1] = n + 1
      OBVIOUS
    <3>3. new[k] = <<n + 1>>
      BY <1>1, <2>1
    <3> QED BY <3>1, <3>2, <3>3, Zenon
  <2>2. CASE k /= Len(all) + 1
    <3>1. k \in DOMAIN all /\ new[k] = all[k] /\ LastUpTo(new, k - 1) = LastUpTo(all, k - 1)
      BY <1>1, <1>2, <1>4, <2>2
    <3>2. /\ all[k] /= <<>>
          /\ \A i \in DOMAIN all[k] : all[k][i] = LastUpTo(all, k - 1) + i
      BY <3>1, Zenon DEF Tiles
    <3> QED BY <3>1, <3>2, Zenon
  <2> QED BY <2>1, <2>2
<1>5. Tiles(new, n + 1)
  BY <1>3, <1>4 DEF Tiles
<1> QED BY <1>5 DEF new

\* A new point goes on the list that is waiting.
LEMMA TilesGrow ==
  ASSUME NEW done \in Seq(Seq(Nat)), NEW points \in Seq(Nat), points /= <<>>,
         NEW n \in Nat, Tiles(Append(done, points), n)
  PROVE  Tiles(Append(done, Append(points, n + 1)), n + 1)
<1> DEFINE old == Append(done, points)
           new == Append(done, Append(points, n + 1))
<1> DEFINE d == Len(done) + 1
<1>1. /\ d \in Nat /\ d > 0 /\ Len(points) \in Nat /\ Len(points) > 0
      /\ Len(old) = d /\ DOMAIN old = 1..d /\ old[d] = points
      /\ Len(new) = d /\ DOMAIN new = 1..d /\ new[d] = Append(points, n + 1)
      /\ \A k \in 1..(d - 1) : new[k] = old[k]
  OBVIOUS
<1>2. /\ Len(Append(points, n + 1)) = Len(points) + 1
      /\ DOMAIN Append(points, n + 1) = 1..(Len(points) + 1)
      /\ DOMAIN points = 1..Len(points)
      /\ \A i \in 1..Len(points) : Append(points, n + 1)[i] = points[i]
      /\ Append(points, n + 1)[Len(points) + 1] = n + 1
      /\ Append(points, n + 1) /= <<>>
  OBVIOUS
<1>t. Tiles(old, n)
  OBVIOUS
<1> HIDE DEF old, new, d
<1>3. \A k \in 0..(d - 1) : LastUpTo(new, k) = LastUpTo(old, k)
  BY <1>1 DEF LastUpTo, Last
<1>p. \A i \in 1..Len(points) : points[i] = LastUpTo(old, d - 1) + i
  <2>1. d \in DOMAIN old /\ old[d] = points
    BY <1>1
  <2>2. \A i \in DOMAIN old[d] : old[d][i] = LastUpTo(old, d - 1) + i
    BY <1>t, <2>1, Zenon DEF Tiles
  <2> QED BY <1>2, <2>1, <2>2, Zenon
<1>4. points[Len(points)] = n
  BY <1>1, <1>t DEF Tiles, LastUpTo, Last
<1>5. LastUpTo(new, Len(new)) = n + 1
  BY <1>1, <1>2 DEF LastUpTo, Last
<1>6. ASSUME NEW k \in DOMAIN new
      PROVE  /\ new[k] /= <<>>
             /\ \A i \in DOMAIN new[k] : new[k][i] = LastUpTo(new, k - 1) + i
  <2>1. CASE k = d
    <3>1. ASSUME NEW i \in 1..(Len(points) + 1)
          PROVE  Append(points, n + 1)[i] = LastUpTo(new, d - 1) + i
      <4>2. LastUpTo(new, d - 1) = LastUpTo(old, d - 1)
        BY <1>1, <1>3
      <4>3. CASE i = Len(points) + 1
        <5>1. LastUpTo(old, d - 1) \in Int
          <6>1. CASE d = 1
            BY <6>1 DEF LastUpTo
          <6>2. CASE d /= 1
            <7>1. d - 1 \in 1..(d - 1) /\ d - 1 /= 0
              BY <1>1, <6>2
            <7>2. d - 1 \in DOMAIN old
              BY <1>1, <7>1
            <7>3. old[d - 1] /= <<>>
              BY <1>t, <7>2, Zenon DEF Tiles
            <7>4. old[d - 1] \in Seq(Nat)
              BY <7>1 DEF old, d
            <7> QED BY <7>1, <7>3, <7>4 DEF LastUpTo, Last
          <6> QED BY <6>1, <6>2
        <5>2. n = LastUpTo(old, d - 1) + Len(points)
          <6>1. Len(points) \in 1..Len(points)
            BY <1>1
          <6> QED BY <6>1, <1>4, <1>p, Zenon
        <5>3. n + 1 = LastUpTo(old, d - 1) + (Len(points) + 1)
          BY <1>1, <5>1, <5>2
        <5> QED BY <1>2, <4>2, <4>3, <5>3, Zenon
      <4>4. CASE i /= Len(points) + 1
        BY <1>1, <1>2, <1>p, <3>1, <4>2, <4>4
      <4> QED BY <4>3, <4>4
    <3> QED BY <1>1, <1>2, <2>1, <3>1
  <2>2. CASE k /= d
    <3>1. k \in DOMAIN old /\ new[k] = old[k] /\ LastUpTo(new, k - 1) = LastUpTo(old, k - 1)
      BY <1>1, <1>3, <1>6, <2>2
    <3>2. /\ old[k] /= <<>>
          /\ \A i \in DOMAIN old[k] : old[k][i] = LastUpTo(old, k - 1) + i
      BY <1>t, <3>1, Zenon DEF Tiles
    <3> QED BY <3>1, <3>2, Zenon
  <2> QED BY <2>1, <2>2
<1>7. Tiles(new, n + 1)
  BY <1>5, <1>6 DEF Tiles
<1> QED BY <1>7 DEF new

LinesInv ==
  /\ Len(lines) \in Nat
  /\ pending \in Seq(Nat) /\ blocks \in Seq(Seq(Nat))
  /\ EveryLineOnce

\* The blocks with the waiting points, as one sequence of blocks.
LEMMA FlushedTiles ==
  ASSUME LinesInv
  PROVE  /\ Flushed \in Seq(Seq(Nat)) /\ Tiles(Flushed, Len(lines))
         /\ pending /= <<>> => Flushed = Append(blocks, pending)
  BY DEF LinesInv, Flushed, EveryLineOnce, Tiles

\* A labelled line is in a block, or waits, after all the others.
LEMMA LabelKeepsLines ==
  ASSUME LinesInv, lines \in Seq([kind : Labels, n : Nat, label : Labels]),
         NEW kind \in Labels, NEW n \in Nat, NEW label \in Labels,
         Label(kind, n, label)
  PROVE  LinesInv'
<1> DEFINE new == Len(lines) + 1
<1>1. Len(lines') = new /\ Len(lines) \in Nat /\ new \in Nat
  BY DEF Label
<1>2. pending \in Seq(Nat) /\ blocks \in Seq(Seq(Nat)) /\ Flushed \in Seq(Seq(Nat))
  BY FlushedTiles DEF LinesInv
<1>3. Tiles(Flushed, Len(lines))
  BY FlushedTiles
<1>4. CASE label = "point"
  <2>1. pending' = Append(pending, new) /\ blocks' = blocks
    BY <1>4 DEF Label
  <2>2. pending' \in Seq(Nat) /\ pending' /= <<>> /\ blocks' \in Seq(Seq(Nat))
    <3>1. Append(pending, new) \in Seq(Nat)
      BY <1>1, <1>2
    <3>2. Len(Append(pending, new)) = Len(pending) + 1 /\ Len(pending) \in Nat
      BY <1>1, <1>2
    <3>3. Append(pending, new) /= <<>>
      BY <3>2
    <3> QED BY <1>2, <2>1, <3>1, <3>3
  <2>3. Flushed' = Append(blocks, Append(pending, new))
    BY <2>1, <2>2 DEF Flushed
  <2>4. CASE pending = <<>>
    <3>1. Flushed = blocks /\ Append(pending, new) = <<new>>
      BY <2>4, <1>1, <1>2 DEF Flushed
    <3>2. Tiles(Append(Flushed, <<Len(lines) + 1>>), Len(lines) + 1)
      BY <1>1, <1>2, <1>3, TilesAppend
    <3>3. Tiles(Flushed', Len(lines'))
      BY <1>1, <2>3, <3>1, <3>2
    <3> QED BY <1>1, <2>2, <3>3 DEF LinesInv, EveryLineOnce, Tiles
  <2>5. CASE pending /= <<>>
    <3>1. Flushed = Append(blocks, pending)
      BY <2>5 DEF Flushed
    <3>2. Tiles(Append(blocks, Append(pending, Len(lines) + 1)), Len(lines) + 1)
      BY <1>1, <1>2, <1>3, <2>5, <3>1, TilesGrow
    <3>3. Tiles(Flushed', Len(lines'))
      BY <1>1, <2>3, <3>2
    <3> QED BY <1>1, <2>2, <3>3 DEF LinesInv, EveryLineOnce, Tiles
  <2> QED BY <2>4, <2>5
<1>5. CASE label /= "point"
  <2>1. pending' = <<>> /\ blocks' = Append(Flushed, <<new>>)
    BY <1>5 DEF Label
  <2>2. pending' \in Seq(Nat) /\ blocks' \in Seq(Seq(Nat)) /\ Flushed' = blocks'
    BY <1>1, <1>2, <2>1 DEF Flushed
  <2>3. Tiles(Append(Flushed, <<Len(lines) + 1>>), Len(lines) + 1)
    BY <1>1, <1>2, <1>3, TilesAppend
  <2>4. Tiles(Flushed', Len(lines'))
    BY <1>1, <2>1, <2>2, <2>3
  <2> QED BY <1>1, <2>2, <2>4 DEF LinesInv, EveryLineOnce, Tiles
<1> QED BY <1>4, <1>5

\* The empty document.
LEMMA InitLines == StructureInit => LinesInv
  BY DEF StructureInit, LinesInv, EveryLineOnce, Flushed, LastUpTo

\* Every step of the structuring keeps every line once.
LEMMA StepLines ==
  ASSUME LinesInv, Types, [StructureNext]_structureVars
  PROVE  LinesInv'
<1>1. lines \in Seq([kind : Labels, n : Nat, label : Labels])
  BY DEF Types
<1>2. CASE Preamble \/ Closing \/ Title \/ PlainLine \/ Chapter
  <2>1. \E kind \in Unnumbered : Label(kind, 0, kind)
    BY <1>2 DEF Preamble, Closing, Title, PlainLine, Chapter, Keep, Unnumbered
  <2>2. Unnumbered \subseteq Labels
    BY DEF Labels
  <2> QED BY <1>1, <2>1, <2>2, LabelKeepsLines
<1>3. ASSUME NEW n \in Nat, Article(n) \/ Clause(n) \/ Point(n)
      PROVE  LinesInv'
  <2>1. \E kind \in Numbered, label \in Numbered \cup {"demoted", "list_item"} :
          Label(kind, n, label)
    BY <1>3 DEF Article, Clause, Point, Keep, Demote, Numbered
  <2>2. Numbered \cup {"demoted", "list_item"} \subseteq Labels
    BY DEF Labels
  <2> QED BY <1>1, <2>1, <2>2, LabelKeepsLines
<1>4. CASE NewPage
  <2>1. Flushed' = Flushed /\ lines' = lines /\ pending' = <<>> /\ blocks' = Flushed
    BY <1>4 DEF NewPage, Flushed
  <2>2. Flushed \in Seq(Seq(Nat))
    BY FlushedTiles
  <2> QED BY <2>1, <2>2 DEF LinesInv, EveryLineOnce
<1>5. CASE UNCHANGED structureVars
  BY <1>5 DEF structureVars, LinesInv, EveryLineOnce, Flushed
<1>6. \A n \in 1..MaxNumber : n \in Nat
  OBVIOUS
<1> QED BY <1>2, <1>3, <1>4, <1>5, <1>6 DEF StructureNext

-----------------------------------------------------------------------------
(* The assembly.  "Whole" is what a stage put out followed by what it has  *)
(* yet to see: the stream as it stands.                                    *)
ParaBlock ==
  [page : Nat, parts : Seq(Nat), kind : {"para"}, text : STRING,
     band : {"none", "top", "bottom"}, open : BOOLEAN]

TableBlock ==
  [page : Nat, parts : Seq(Nat), kind : {"table"}, cols : Nat, boxed : BOOLEAN,
     header : STRING, high : BOOLEAN, low : BOOLEAN]

Block ==
  ParaBlock \cup TableBlock
    \cup [page : Nat, parts : Seq(Nat), kind : {"break"},
            orientation : {"portrait", "landscape"}]
    \cup [page : Nat, parts : Seq(Nat), kind : {"other"}]

Stages == {"walk", "sort", "margins", "strip", "join", "merge", "sections", "done"}

StitchTypes ==
  /\ pc \in Stages
  /\ input \in Seq(Block) /\ stream \in Seq(Block) /\ out \in Seq(Block)

Whole == out \o stream

Untouched(b) == \E p \in DOMAIN input : b = input[p]

\* A table has parts on its own page, and on the next if it lost its box.
TablePages(b) ==
  Table(b) => \A p \in PartsOf(b) :
                input[p].page = b.page \/ (~b.boxed /\ input[p].page = b.page + 1)

\* What every stage after the sort keeps of the stream.
Good(s) ==
  /\ \A k \in DOMAIN s :
       /\ PartsOf(s[k]) \subseteq DOMAIN input
       /\ s[k].kind = "break" => Untouched(s[k])
       /\ TablePages(s[k])
       /\ PartsInOrder(s[k])
  /\ BlocksInOrder(s)

\* A placed shape is a block of its page that carries itself.
LEMMA PlacedIs ==
  ASSUME NEW s \in Shape, NEW i \in Nat, NEW p \in Nat
  PROVE  Placed(s, i, p) \in Block /\ Placed(s, i, p).page = p /\ Placed(s, i, p).parts = <<i>>
<1>0. <<i>> \in Seq(Nat)
  OBVIOUS
<1>1. CASE s \in [kind : {"para"}, text : STRING, band : {"none", "top", "bottom"}, open : BOOLEAN]
  <2>1. Placed(s, i, p) =
          [page |-> p, parts |-> <<i>>, kind |-> s.kind, text |-> s.text,
           band |-> s.band, open |-> s.open]
    BY <1>1 DEF Placed
  <2> HIDE DEF Placed
  <2> QED BY <1>0, <1>1, <2>1 DEF Block, ParaBlock, TableBlock
<1>2. CASE s \in [kind : {"table"}, cols : Nat, boxed : BOOLEAN, header : STRING,
                  high : BOOLEAN, low : BOOLEAN]
  <2>1. Placed(s, i, p) =
          [page |-> p, parts |-> <<i>>, kind |-> s.kind, cols |-> s.cols, boxed |-> s.boxed,
           header |-> s.header, high |-> s.high, low |-> s.low]
    BY <1>2 DEF Placed
  <2> QED BY <1>0, <1>2, <2>1 DEF Block, ParaBlock, TableBlock
<1>3. CASE s \in [kind : {"break"}, orientation : {"portrait", "landscape"}]
  <2>1. Placed(s, i, p) =
          [page |-> p, parts |-> <<i>>, kind |-> s.kind, orientation |-> s.orientation]
    BY <1>3 DEF Placed
  <2> QED BY <1>0, <1>3, <2>1 DEF Block, ParaBlock, TableBlock
<1>4. CASE s \in [kind : {"other"}]
  <2>1. Placed(s, i, p) = [page |-> p, parts |-> <<i>>, kind |-> s.kind]
    BY <1>4 DEF Placed
  <2> QED BY <1>0, <1>4, <2>1 DEF Block, ParaBlock, TableBlock
<1> QED BY <1>1, <1>2, <1>3, <1>4 DEF Shape

\* The fields all blocks have.
LEMMA BlockFields ==
  ASSUME NEW b \in Block
  PROVE  /\ b.page \in Nat /\ b.parts \in Seq(Nat)
         /\ PartsOf(b) \subseteq Nat
         /\ \A p \in PartsOf(b) : \E a \in DOMAIN b.parts : b.parts[a] = p
         /\ \A a \in DOMAIN b.parts : b.parts[a] \in PartsOf(b)
<1>1. b.page \in Nat /\ b.parts \in Seq(Nat)
  BY DEF Block, ParaBlock, TableBlock
<1> QED BY <1>1 DEF PartsOf, ToSet

\* The kind of a block tells its other fields.
LEMMA KindIs ==
  ASSUME NEW b \in Block
  PROVE  (Paragraph(b) => b \in ParaBlock) /\ (Table(b) => b \in TableBlock)
<1>1. Paragraph(b) => b \in ParaBlock
  BY DEF Block, ParaBlock, TableBlock, Paragraph
<1>2. Table(b) => b \in TableBlock
  BY DEF Block, ParaBlock, TableBlock, Table
<1> QED BY <1>1, <1>2

\* Joining changes two fields of a paragraph.
LEMMA ExceptJoined ==
  ASSUME NEW a \in ParaBlock, NEW parts \in Seq(Nat), NEW open \in BOOLEAN
  PROVE  /\ [a EXCEPT !.parts = parts, !.open = open] \in ParaBlock
         /\ [a EXCEPT !.parts = parts, !.open = open].parts = parts
  BY DEF ParaBlock

\* A joined paragraph carries the parts of both.
LEMMA JoinedIs ==
  ASSUME NEW a \in Block, NEW b \in Block, Paragraph(a), Paragraph(b)
  PROVE  /\ Joined(a, b) \in Block
         /\ Joined(a, b).kind = "para"
         /\ Joined(a, b).parts = a.parts \o b.parts
<1>1. a \in ParaBlock /\ b \in ParaBlock
  BY KindIs, Zenon
<1>2. b.open \in BOOLEAN /\ a.parts \in Seq(Nat) /\ b.parts \in Seq(Nat)
  BY <1>1 DEF ParaBlock
<1>3. a.parts \o b.parts \in Seq(Nat)
  BY <1>2
<1>4. Joined(a, b) \in ParaBlock /\ Joined(a, b).parts = a.parts \o b.parts
  BY <1>1, <1>2, <1>3, ExceptJoined, Zenon DEF Joined
<1> QED BY <1>4 DEF Block, ParaBlock

\* Extending changes two fields of a table.
LEMMA ExceptExtended ==
  ASSUME NEW a \in TableBlock, NEW parts \in Seq(Nat)
  PROVE  LET c == [a EXCEPT !.parts = parts, !.boxed = FALSE]
         IN  /\ c \in TableBlock
             /\ c.parts = parts /\ c.page = a.page /\ c.boxed = FALSE
  BY DEF TableBlock

\* An extended table carries the parts of both and has no box.
LEMMA ExtendedIs ==
  ASSUME NEW a \in Block, NEW b \in Block, Table(a), Table(b)
  PROVE  /\ Extended(a, b) \in Block
         /\ Extended(a, b).kind = "table"
         /\ Extended(a, b).page = a.page /\ Extended(a, b).boxed = FALSE
         /\ Extended(a, b).parts = a.parts \o b.parts
<1>1. a \in TableBlock /\ b \in TableBlock
  BY KindIs, Zenon
<1>2. a.parts \in Seq(Nat) /\ b.parts \in Seq(Nat)
  BY <1>1 DEF TableBlock
<1>3. a.parts \o b.parts \in Seq(Nat)
  BY <1>2
<1>4. /\ Extended(a, b) \in TableBlock /\ Extended(a, b).parts = a.parts \o b.parts
      /\ Extended(a, b).page = a.page /\ Extended(a, b).boxed = FALSE
  BY <1>1, <1>3, ExceptExtended, Zenon DEF Extended
<1> QED BY <1>4 DEF Block, TableBlock

-----------------------------------------------------------------------------
\* Dropping a block.
LEMMA DropKeeps ==
  ASSUME NEW s \in Seq(Block), NEW t \in Seq(Block), NEW d \in DOMAIN s,
         Len(s) = Len(t) + 1,
         \A k \in DOMAIN t : t[k] = IF k < d THEN s[k] ELSE s[k + 1]
  PROVE  /\ Good(s) => Good(t)
         /\ Carried(s) \subseteq Carried(t) \cup PartsOf(s[d])
<1> DEFINE src(k) == IF k < d THEN k ELSE k + 1
<1>1. \A k \in DOMAIN t : src(k) \in DOMAIN s /\ t[k] = s[src(k)]
  OBVIOUS
<1>2. \A j \in DOMAIN t, k \in DOMAIN t : j < k => src(j) < src(k)
  OBVIOUS
<1>3. \A k \in DOMAIN s : k = d \/ \E j \in DOMAIN t : t[j] = s[k]
  <2> SUFFICES ASSUME NEW k \in DOMAIN s, k /= d PROVE \E j \in DOMAIN t : t[j] = s[k]
    OBVIOUS
  <2>1. CASE k < d
    BY <2>1
  <2>2. CASE k > d
    <3>1. k - 1 \in DOMAIN t /\ ~(k - 1 < d) /\ (k - 1) + 1 = k
      BY <2>2
    <3> QED BY <3>1
  <2> QED BY <2>1, <2>2
<1> HIDE DEF src
<1>4. ASSUME Good(s) PROVE Good(t)
  BY <1>1, <1>2, <1>4, Zenon DEF Good, BlocksInOrder
<1>5. Carried(s) \subseteq Carried(t) \cup PartsOf(s[d])
  BY <1>3, Zenon DEF Carried
<1> QED BY <1>4, <1>5

\* The members of a concatenation.
LEMMA PartsOfBoth ==
  ASSUME NEW a \in Seq(Nat), NEW b \in Seq(Nat)
  PROVE  ToSet(a \o b) = ToSet(a) \cup ToSet(b)
<1>1. /\ DOMAIN a = 1..Len(a) /\ DOMAIN b = 1..Len(b) /\ Len(a) \in Nat /\ Len(b) \in Nat
      /\ DOMAIN (a \o b) = 1..(Len(a) + Len(b))
      /\ \A k \in 1..(Len(a) + Len(b)) :
           (a \o b)[k] = IF k <= Len(a) THEN a[k] ELSE b[k - Len(a)]
  OBVIOUS
<1>2. ToSet(a \o b) \subseteq ToSet(a) \cup ToSet(b)
  BY <1>1 DEF ToSet
<1>3. ASSUME NEW k \in DOMAIN a PROVE a[k] \in ToSet(a \o b)
  <2>1. k \in DOMAIN (a \o b) /\ (a \o b)[k] = a[k]
    BY <1>1
  <2> QED BY <2>1 DEF ToSet
<1>4. ASSUME NEW k \in DOMAIN b PROVE b[k] \in ToSet(a \o b)
  <2>1. k + Len(a) \in DOMAIN (a \o b) /\ (a \o b)[k + Len(a)] = b[k]
    BY <1>1
  <2> QED BY <2>1 DEF ToSet
<1> QED BY <1>2, <1>3, <1>4 DEF ToSet

\* Folding a block into the one before it.
LEMMA FuseKeeps ==
  ASSUME NEW s \in Seq(Block), NEW t \in Seq(Block), NEW d \in DOMAIN s, d > 1,
         Len(s) = Len(t) + 1,
         \A k \in DOMAIN t : k /= d - 1 => t[k] = IF k < d THEN s[k] ELSE s[k + 1],
         t[d - 1].parts = s[d - 1].parts \o s[d].parts
  PROVE  /\ Good(s) /\ t[d - 1].kind /= "break" /\ TablePages(t[d - 1]) => Good(t)
         /\ Carried(s) \subseteq Carried(t)
<1> DEFINE src(k) == IF k < d THEN k ELSE k + 1
<1>0. /\ d \in Nat /\ d - 1 \in DOMAIN s /\ d - 1 \in DOMAIN t
      /\ s[d - 1] \in Block /\ s[d] \in Block /\ t[d - 1] \in Block
  OBVIOUS
<1>1. \A k \in DOMAIN t : src(k) \in DOMAIN s /\ (k /= d - 1 => t[k] = s[src(k)])
  OBVIOUS
<1>2. \A j \in DOMAIN t, k \in DOMAIN t : j < k => src(j) < src(k)
  OBVIOUS
<1>3. \A k \in DOMAIN s : k = d \/ k = d - 1 \/ \E j \in DOMAIN t : t[j] = s[k]
  <2> SUFFICES ASSUME NEW k \in DOMAIN s, k /= d, k /= d - 1
               PROVE  \E j \in DOMAIN t : t[j] = s[k]
    OBVIOUS
  <2>1. CASE k < d
    BY <2>1
  <2>2. CASE k > d
    <3>1. k - 1 \in DOMAIN t /\ ~(k - 1 < d) /\ (k - 1) + 1 = k /\ k - 1 /= d - 1
      BY <2>2
    <3> QED BY <3>1
  <2> QED BY <2>1, <2>2
<1>4. PartsOf(t[d - 1]) = PartsOf(s[d - 1]) \cup PartsOf(s[d])
  <2>1. s[d - 1].parts \in Seq(Nat) /\ s[d].parts \in Seq(Nat)
    BY <1>0, BlockFields
  <2> QED BY <2>1, PartsOfBoth DEF PartsOf
<1> HIDE DEF src
<1>5. Carried(s) \subseteq Carried(t)
  <2> SUFFICES ASSUME NEW k \in DOMAIN s PROVE PartsOf(s[k]) \subseteq Carried(t)
    BY DEF Carried
  <2>1. CASE k = d \/ k = d - 1
    <3>1. PartsOf(s[k]) \subseteq PartsOf(t[d - 1])
      BY <1>4, <2>1
    <3> QED BY <1>0, <3>1, Zenon DEF Carried
  <2>2. CASE \E j \in DOMAIN t : t[j] = s[k]
    BY <2>2, Zenon DEF Carried
  <2> QED BY <1>3, <2>1, <2>2, Zenon
<1>6. ASSUME Good(s), t[d - 1].kind /= "break", TablePages(t[d - 1]) PROVE Good(t)
  <2>1. PartsInOrder(t[d - 1])
    <3> DEFINE a == s[d - 1].parts
               b == s[d].parts
    <3>1. a \in Seq(Nat) /\ b \in Seq(Nat)
      BY <1>0, BlockFields
    <3>2. /\ \A j \in DOMAIN a, k \in DOMAIN a : j < k => Before(a[j], a[k])
          /\ \A j \in DOMAIN b, k \in DOMAIN b : j < k => Before(b[j], b[k])
      BY <1>0, <1>6 DEF Good, PartsInOrder
    <3>3. \A j \in DOMAIN a, k \in DOMAIN b : Before(a[j], b[k])
      <4>1. \A p \in PartsOf(s[d - 1]), q \in PartsOf(s[d]) : Before(p, q)
        BY <1>0, <1>6 DEF Good, BlocksInOrder
      <4> QED BY <1>0, <4>1, BlockFields
    <3> HIDE DEF a, b
    <3>4. /\ DOMAIN a = 1..Len(a) /\ DOMAIN b = 1..Len(b) /\ Len(a) \in Nat /\ Len(b) \in Nat
          /\ DOMAIN (a \o b) = 1..(Len(a) + Len(b))
          /\ \A k \in 1..(Len(a) + Len(b)) :
               (a \o b)[k] = IF k <= Len(a) THEN a[k] ELSE b[k - Len(a)]
      BY <3>1
    <3>5. \A j \in DOMAIN (a \o b), k \in DOMAIN (a \o b) :
            j < k => Before((a \o b)[j], (a \o b)[k])
      BY <3>2, <3>3, <3>4
    <3>6. t[d - 1].parts = a \o b
      BY DEF a, b
    <3> QED BY <3>5, <3>6 DEF PartsInOrder
  <2>2. PartsOf(t[d - 1]) \subseteq DOMAIN input
    BY <1>0, <1>4, <1>6 DEF Good
  <2>3. ASSUME NEW j \in DOMAIN t, NEW k \in DOMAIN t, j < k,
               NEW p \in PartsOf(t[j]), NEW q \in PartsOf(t[k])
        PROVE  Before(p, q)
    <3>1. src(j) \in DOMAIN s /\ src(k) \in DOMAIN s /\ src(j) < src(k)
      BY <1>1, <1>2, <2>3
    <3>2. \A x \in DOMAIN s, y \in DOMAIN s : x < y =>
            \A u \in PartsOf(s[x]), v \in PartsOf(s[y]) : Before(u, v)
      BY <1>6 DEF Good, BlocksInOrder
    <3>3. CASE j /= d - 1 /\ k /= d - 1
      BY <1>1, <2>3, <3>1, <3>2, <3>3
    <3>4. CASE j = d - 1
      <4>1. k /= d - 1 /\ t[k] = s[src(k)] /\ d < src(k)
        BY <1>0, <1>1, <2>3, <3>4 DEF src
      <4>2. d - 1 < src(k)
        BY <1>0, <3>1, <4>1
      <4>3. p \in PartsOf(s[d - 1]) \/ p \in PartsOf(s[d])
        BY <1>4, <2>3, <3>4
      <4> QED BY <1>0, <2>3, <3>1, <3>2, <4>1, <4>2, <4>3
    <3>5. CASE k = d - 1
      <4>1. j /= d - 1 /\ t[j] = s[src(j)] /\ src(j) < d - 1 /\ src(j) < d
        BY <1>0, <1>1, <2>3, <3>5 DEF src
      <4>2. q \in PartsOf(s[d - 1]) \/ q \in PartsOf(s[d])
        BY <1>4, <2>3, <3>5
      <4> QED BY <1>0, <2>3, <3>1, <3>2, <4>1, <4>2
    <3> QED BY <3>3, <3>4, <3>5
  <2>4. ASSUME NEW k \in DOMAIN t
        PROVE  /\ PartsOf(t[k]) \subseteq DOMAIN input
               /\ t[k].kind = "break" => Untouched(t[k])
               /\ TablePages(t[k])
               /\ PartsInOrder(t[k])
    <3>1. CASE k = d - 1
      BY <1>6, <2>1, <2>2, <3>1
    <3>2. CASE k /= d - 1
      BY <1>1, <1>6, <3>2 DEF Good
    <3> QED BY <3>1, <3>2
  <2> QED BY <2>3, <2>4 DEF Good, BlocksInOrder
<1> QED BY <1>5, <1>6

-----------------------------------------------------------------------------
\* What a step of a stage does to the stream as it stands.
LEMMA Concatenated ==
  ASSUME NEW o \in Seq(Block), NEW s \in Seq(Block)
  PROVE  /\ o \o s \in Seq(Block) /\ Len(o) \in Nat /\ Len(s) \in Nat
         /\ Len(o \o s) = Len(o) + Len(s)
         /\ DOMAIN (o \o s) = 1..(Len(o) + Len(s))
         /\ \A k \in 1..(Len(o) + Len(s)) :
              (o \o s)[k] = IF k <= Len(o) THEN o[k] ELSE s[k - Len(o)]
  OBVIOUS

\* Sequences are equal that agree at every place.
LEMMA SameBlocks ==
  ASSUME NEW s \in Seq(Block), NEW t \in Seq(Block), Len(s) = Len(t),
         \A k \in 1..Len(s) : s[k] = t[k]
  PROVE  s = t
  OBVIOUS

\* Concatenation with the empty sequence.
LEMMA EmptyEnds == ASSUME NEW o \in Seq(Block) PROVE o \o <<>> = o /\ <<>> \o o = o
  OBVIOUS

\* Head and tail, place by place.
LEMMA HeadAndTail ==
  ASSUME NEW s \in Seq(Block), s /= <<>>
  PROVE  /\ Len(s) \in Nat /\ Len(s) > 0 /\ Head(s) = s[1] /\ Head(s) \in Block
         /\ Tail(s) \in Seq(Block) /\ Len(Tail(s)) = Len(s) - 1
         /\ \A k \in 1..(Len(s) - 1) : Tail(s)[k] = s[k + 1]
  OBVIOUS

\* Putting the next block out leaves the stream as it stands.
LEMMA TakeOne ==
  ASSUME NEW o \in Seq(Block), NEW s \in Seq(Block), s /= <<>>
  PROVE  /\ Append(o, Head(s)) \in Seq(Block)
         /\ Append(o, Head(s)) \o Tail(s) = o \o s
<1> DEFINE p == Append(o, Head(s))
<1>1. /\ Len(s) \in Nat /\ Len(s) > 0 /\ Head(s) = s[1] /\ Head(s) \in Block
      /\ Tail(s) \in Seq(Block) /\ Len(Tail(s)) = Len(s) - 1
      /\ \A k \in 1..(Len(s) - 1) : Tail(s)[k] = s[k + 1]
  BY HeadAndTail
<1>2. /\ p \in Seq(Block) /\ Len(p) = Len(o) + 1 /\ Len(o) \in Nat
      /\ \A k \in 1..Len(o) : p[k] = o[k]
      /\ p[Len(o) + 1] = s[1]
  BY <1>1
<1> HIDE DEF p
<1>3. /\ o \o s \in Seq(Block) /\ Len(o \o s) = Len(o) + Len(s)
      /\ \A k \in 1..(Len(o) + Len(s)) :
           (o \o s)[k] = IF k <= Len(o) THEN o[k] ELSE s[k - Len(o)]
  BY Concatenated
<1>4. /\ p \o Tail(s) \in Seq(Block) /\ Len(p \o Tail(s)) = Len(p) + Len(Tail(s))
      /\ \A k \in 1..(Len(p) + Len(Tail(s))) :
           (p \o Tail(s))[k] = IF k <= Len(p) THEN p[k] ELSE Tail(s)[k - Len(p)]
  BY <1>1, <1>2, Concatenated
<1>5. Len(p \o Tail(s)) = Len(o \o s)
  BY <1>1, <1>2, <1>3, <1>4
<1>6. ASSUME NEW k \in 1..Len(p \o Tail(s)) PROVE (p \o Tail(s))[k] = (o \o s)[k]
  <2>1. CASE k <= Len(o)
    BY <1>1, <1>2, <1>3, <1>4, <2>1
  <2>2. CASE k = Len(o) + 1
    BY <1>1, <1>2, <1>3, <1>4, <2>2
  <2>3. CASE k > Len(o) + 1
    <3>1. /\ k \in 1..(Len(o) + Len(s)) /\ ~(k <= Len(o)) /\ ~(k <= Len(p))
          /\ k - Len(p) \in 1..(Len(s) - 1) /\ (k - Len(p)) + 1 = k - Len(o)
      BY <1>1, <1>2, <1>4, <2>3
    <3>2. Tail(s)[k - Len(p)] = s[k - Len(o)]
      BY <1>1, <3>1
    <3>3. (o \o s)[k] = s[k - Len(o)]
      BY <1>3, <3>1
    <3>4. (p \o Tail(s))[k] = Tail(s)[k - Len(p)]
      BY <1>4, <3>1
    <3> QED BY <3>2, <3>3, <3>4
  <2> QED BY <1>2, <2>1, <2>2, <2>3
<1>7. p \o Tail(s) = o \o s
  BY <1>3, <1>4, <1>5, <1>6, SameBlocks
<1> QED BY <1>2, <1>7 DEF p

\* Dropping the next block takes one place out of the stream.
LEMMA DropOne ==
  ASSUME NEW o \in Seq(Block), NEW s \in Seq(Block), s /= <<>>
  PROVE  LET w == o \o s
             t == o \o Tail(s)
             d == Len(o) + 1
         IN  /\ w \in Seq(Block) /\ t \in Seq(Block) /\ d \in DOMAIN w
             /\ w[d] = Head(s) /\ Len(w) = Len(t) + 1
             /\ \A k \in DOMAIN t : t[k] = IF k < d THEN w[k] ELSE w[k + 1]
<1> DEFINE w == o \o s
           t == o \o Tail(s)
           d == Len(o) + 1
<1>1. /\ Len(s) \in Nat /\ Len(s) > 0 /\ Head(s) = s[1] /\ Head(s) \in Block
      /\ Tail(s) \in Seq(Block) /\ Len(Tail(s)) = Len(s) - 1
      /\ \A k \in 1..(Len(s) - 1) : Tail(s)[k] = s[k + 1]
  BY HeadAndTail
<1>2. /\ w \in Seq(Block) /\ Len(w) = Len(o) + Len(s) /\ Len(o) \in Nat
      /\ DOMAIN w = 1..(Len(o) + Len(s))
      /\ \A k \in 1..(Len(o) + Len(s)) : w[k] = IF k <= Len(o) THEN o[k] ELSE s[k - Len(o)]
  BY Concatenated
<1>3. /\ t \in Seq(Block) /\ Len(t) = Len(o) + Len(Tail(s))
      /\ DOMAIN t = 1..(Len(o) + Len(Tail(s)))
      /\ \A k \in 1..(Len(o) + Len(Tail(s))) :
           t[k] = IF k <= Len(o) THEN o[k] ELSE Tail(s)[k - Len(o)]
  BY <1>1, Concatenated
<1> HIDE DEF w, t
<1>4. ASSUME NEW k \in DOMAIN t PROVE t[k] = IF k < d THEN w[k] ELSE w[k + 1]
  <2>1. CASE k <= Len(o)
    <3>1. k \in 1..(Len(o) + Len(Tail(s))) /\ k \in 1..(Len(o) + Len(s)) /\ k < d
      BY <1>1, <1>2, <1>3, <2>1
    <3>2. t[k] = o[k]
      BY <1>3, <2>1, <3>1
    <3>3. w[k] = o[k]
      BY <1>2, <2>1, <3>1
    <3> QED BY <3>1, <3>2, <3>3
  <2>2. CASE ~(k <= Len(o))
    <3>1. /\ k \in 1..(Len(o) + Len(Tail(s))) /\ ~(k < d)
          /\ k + 1 \in 1..(Len(o) + Len(s)) /\ ~(k + 1 <= Len(o))
          /\ k - Len(o) \in 1..(Len(s) - 1) /\ (k - Len(o)) + 1 = (k + 1) - Len(o)
      BY <1>1, <1>2, <1>3, <2>2
    <3>2. Tail(s)[k - Len(o)] = s[(k + 1) - Len(o)]
      BY <1>1, <3>1
    <3>3. w[k + 1] = s[(k + 1) - Len(o)]
      BY <1>2, <3>1
    <3>4. t[k] = Tail(s)[k - Len(o)]
      BY <1>3, <3>1, <2>2
    <3> QED BY <3>1, <3>2, <3>3, <3>4
  <2> QED BY <2>1, <2>2
<1>5. d \in DOMAIN w /\ w[d] = Head(s) /\ Len(w) = Len(t) + 1
  BY <1>1, <1>2, <1>3
<1> QED BY <1>2, <1>3, <1>4, <1>5 DEF w, t

\* What replacing the last block put out does.
LEMMA ReplaceLast ==
  ASSUME NEW o \in Seq(Block), o /= <<>>, NEW b \in Block,
         NEW p, p = [o EXCEPT ![Len(o)] = b]
  PROVE  /\ p \in Seq(Block) /\ Len(p) = Len(o) /\ p[Len(o)] = b
         /\ \A k \in 1..Len(o) : k /= Len(o) => p[k] = o[k]
  OBVIOUS

\* Stream t is stream w with block d folded into the one before it.
FoldsInto(w, t, d) ==
  /\ w \in Seq(Block) /\ t \in Seq(Block) /\ d \in DOMAIN w /\ d > 1
  /\ Len(w) = Len(t) + 1
  /\ \A k \in DOMAIN t : k /= d - 1 => t[k] = IF k < d THEN w[k] ELSE w[k + 1]

\* Folding the next block into the last one put out.
LEMMA FuseOne ==
  ASSUME NEW o \in Seq(Block), NEW s \in Seq(Block), s /= <<>>, o /= <<>>, NEW b \in Block,
         NEW p \in Seq(Block), Len(p) = Len(o), p[Len(o)] = b,
         \A k \in 1..Len(o) : k /= Len(o) => p[k] = o[k]
  PROVE  /\ FoldsInto(o \o s, p \o Tail(s), Len(o) + 1)
         /\ (o \o s)[Len(o) + 1] = Head(s) /\ (o \o s)[Len(o)] = Last(o)
         /\ (p \o Tail(s))[Len(o)] = b
<1> DEFINE w == o \o s
           t == p \o Tail(s)
           u == o \o Tail(s)
           d == Len(o) + 1
<1>1. /\ Len(s) \in Nat /\ Len(s) > 0 /\ Tail(s) \in Seq(Block) /\ Len(Tail(s)) = Len(s) - 1
  BY HeadAndTail
<1>2. /\ w \in Seq(Block) /\ u \in Seq(Block) /\ d \in DOMAIN w
      /\ w[d] = Head(s) /\ Len(w) = Len(u) + 1
      /\ \A k \in DOMAIN u : u[k] = IF k < d THEN w[k] ELSE w[k + 1]
  BY DropOne, Zenon
<1>3. /\ p \in Seq(Block) /\ Len(p) = Len(o) /\ p[Len(o)] = b
      /\ Len(o) \in Nat /\ Len(o) > 0 /\ Last(o) = o[Len(o)]
      /\ \A k \in 1..Len(o) : k /= Len(o) => p[k] = o[k]
  BY DEF Last
<1>4. /\ t \in Seq(Block) /\ Len(t) = Len(o) + Len(Tail(s))
      /\ DOMAIN t = 1..(Len(o) + Len(Tail(s)))
      /\ \A k \in 1..(Len(o) + Len(Tail(s))) :
           t[k] = IF k <= Len(o) THEN p[k] ELSE Tail(s)[k - Len(o)]
  <2>1. /\ t \in Seq(Block) /\ Len(t) = Len(p) + Len(Tail(s))
        /\ DOMAIN t = 1..(Len(p) + Len(Tail(s)))
        /\ \A k \in 1..(Len(p) + Len(Tail(s))) :
             t[k] = IF k <= Len(p) THEN p[k] ELSE Tail(s)[k - Len(p)]
    BY <1>1, <1>3, Concatenated
  <2> QED BY <1>3, <2>1
<1>5. /\ Len(u) = Len(o) + Len(Tail(s))
      /\ DOMAIN u = 1..(Len(o) + Len(Tail(s)))
      /\ \A k \in 1..(Len(o) + Len(Tail(s))) :
           u[k] = IF k <= Len(o) THEN o[k] ELSE Tail(s)[k - Len(o)]
  BY <1>1, Concatenated
<1>6. w[Len(o)] = o[Len(o)]
  <2>1. Len(o) \in 1..(Len(o) + Len(s)) /\ Len(o) <= Len(o)
    BY <1>1, <1>3
  <2> QED BY <2>1, Concatenated
<1> HIDE DEF w, t, u
<1>7. ASSUME NEW k \in DOMAIN t, k /= d - 1 PROVE t[k] = IF k < d THEN w[k] ELSE w[k + 1]
  <2>1. k \in DOMAIN u /\ k \in 1..(Len(o) + Len(Tail(s)))
    BY <1>4, <1>5, <1>7
  <2>2. t[k] = u[k]
    BY <1>1, <1>3, <1>4, <1>5, <1>7, <2>1
  <2> QED BY <1>2, <2>1, <2>2
<1>8. d > 1 /\ d - 1 = Len(o) /\ Len(w) = Len(t) + 1 /\ t[d - 1] = b /\ w[d - 1] = Last(o)
  BY <1>1, <1>2, <1>3, <1>4, <1>5, <1>6
<1>9. FoldsInto(w, t, d)
  BY <1>2, <1>4, <1>7, <1>8 DEF FoldsInto
<1>10. t[Len(o)] = b /\ w[Len(o)] = Last(o)
  BY <1>8
<1> QED BY <1>2, <1>9, <1>10 DEF w, t

-----------------------------------------------------------------------------
\* The margins seen on two pages are those of two input blocks.
MarginsKnown ==
  \A key \in repeated : \E i \in DOMAIN input, j \in DOMAIN input :
    /\ SameMargin(input[i], input[j]) /\ input[i].page /= input[j].page
    /\ MarginKey(input[i]) = key

\* What the stream w no longer carries was dropped for a reason.
Explained(w) ==
  \A i \in DOMAIN input \ Carried(w) :
    RunningMargin(i) \/ (pc \in {"sections", "done"} /\ BreakAgain(w, i))

StitchInv ==
  /\ StitchTypes
  /\ \A i \in DOMAIN input : input[i].parts = <<i>>
  /\ pc \in {"walk", "sort", "margins", "done"} => out = <<>>
  /\ pc = "sort" => stream = input
  /\ pc \in {"margins", "strip"} => \A k \in DOMAIN Whole : Untouched(Whole[k])
  /\ pc = "strip" => MarginsKnown
  /\ pc \notin {"walk", "sort"} => Good(Whole) /\ Explained(Whole)

\* The stream as it stands is a sequence of blocks.
LEMMA WholeTyped == ASSUME StitchTypes PROVE Whole \in Seq(Block)
  BY Concatenated DEF StitchTypes, Whole

\* Before is transitive, and a block of the input carries itself.
LEMMA BeforeTransitive ==
  ASSUME StitchTypes, NEW i \in DOMAIN input, NEW j \in DOMAIN input, NEW k \in DOMAIN input,
         Before(i, j), Before(j, k)
  PROVE  Before(i, k)
<1>1. /\ input[i].page \in Nat /\ input[j].page \in Nat /\ input[k].page \in Nat
      /\ i \in Nat /\ j \in Nat /\ k \in Nat
  BY BlockFields DEF StitchTypes
<1> QED BY <1>1 DEF Before

\* A block of the input carries itself and nothing else.
LEMMA UntouchedParts ==
  ASSUME StitchInv, NEW b, NEW p \in DOMAIN input, b = input[p]
  PROVE  PartsOf(b) = {p}
<1>1. b.parts = <<p>>
  BY DEF StitchInv
<1> QED BY <1>1 DEF PartsOf, ToSet

\* The stages do not touch the input: what holds of the new stream holds of
\* it in the new state.
LEMMA GoodCarries ==
  ASSUME input' = input, NEW t, t = Whole', Good(t)
  PROVE  Good(Whole)'
  BY DEF Good, Untouched, TablePages, PartsInOrder, BlocksInOrder, Before, PartsOf, Table, ToSet

\* Likewise for the explanations.
LEMMA ExplainedCarries ==
  ASSUME input' = input, NEW t, t = Whole',
         \A i \in DOMAIN input \ Carried(t) :
           RunningMargin(i) \/ (pc' \in {"sections", "done"} /\ BreakAgain(t, i))
  PROVE  Explained(Whole)'
<1>1. Carried(t) = Carried(Whole)'
  BY DEF Carried, PartsOf, ToSet
<1>2. \A i : RunningMargin(i) => RunningMargin(i)'
  BY DEF RunningMargin, InMargin, SameMargin, MarginKey, Paragraph
<1>3. \A i : BreakAgain(t, i) => BreakAgain(Whole, i)'
  BY DEF BreakAgain, Before, PartsOf, ToSet
<1> QED BY <1>1, <1>2, <1>3 DEF Explained

-----------------------------------------------------------------------------
(* The steps.                                                              *)

\* A step inside a stage keeps the invariant if the new stream t is good and
\* what it lost is explained.
LEMMA InStage ==
  ASSUME StitchInv, pc \in {"strip", "join", "merge", "sections"},
         UNCHANGED <<pc, input, repeated>>,
         out' \in Seq(Block), stream' \in Seq(Block),
         NEW t, t = Whole', Good(t), Explained(t),
         pc = "strip" => \A k \in DOMAIN t : Untouched(t[k])
  PROVE  StitchInv'
<1>1. input' = input /\ pc' = pc
  OBVIOUS
<1>2. Good(Whole)'
  BY <1>1, GoodCarries
<1>3. Explained(Whole)'
  BY <1>1, ExplainedCarries DEF Explained
<1>4. pc = "strip" => MarginsKnown'
  BY DEF StitchInv, MarginsKnown, SameMargin, InMargin, MarginKey, Paragraph
<1>5. pc = "strip" => (\A k \in DOMAIN Whole : Untouched(Whole[k]))'
  BY DEF Untouched
<1>6. StitchTypes'
  BY DEF StitchInv, StitchTypes
<1>7. (\A i \in DOMAIN input : input[i].parts = <<i>>)'
  BY DEF StitchInv
<1> QED BY <1>1, <1>2, <1>3, <1>4, <1>5, <1>6, <1>7 DEF StitchInv

\* The block is put out as it is.
LEMMA TakeStep ==
  ASSUME StitchInv, pc \in {"strip", "join", "merge", "sections"}, stream /= <<>>,
         UNCHANGED <<pc, input, repeated>>,
         stream' = Tail(stream), out' = Append(out, Head(stream))
  PROVE  StitchInv'
<1>1. out \in Seq(Block) /\ stream \in Seq(Block)
  BY DEF StitchInv, StitchTypes
<1>2. out' \in Seq(Block) /\ stream' \in Seq(Block) /\ out' \o stream' = out \o stream
  BY <1>1, TakeOne, HeadAndTail
<1>3. Whole' = Whole
  BY <1>2 DEF Whole
<1>4. Good(Whole) /\ Explained(Whole)
       /\ (pc = "strip" => \A k \in DOMAIN Whole : Untouched(Whole[k]))
  BY DEF StitchInv
<1>5. PICK t : t = Whole
  OBVIOUS
<1>6. t = Whole' /\ Good(t) /\ Explained(t) /\ (pc = "strip" => \A k \in DOMAIN t : Untouched(t[k]))
  BY <1>3, <1>4, <1>5
<1> QED BY <1>2, <1>6, InStage

\* The block is dropped.
LEMMA DropStep ==
  ASSUME StitchInv, pc \in {"strip", "sections"}, stream /= <<>>,
         UNCHANGED <<pc, input, repeated>>,
         stream' = Tail(stream), out' = out,
         NEW t, t = Whole',
         Good(t) => Explained(t)
  PROVE  StitchInv'
<1>1. out \in Seq(Block) /\ stream \in Seq(Block)
  BY DEF StitchInv, StitchTypes
<1>2. stream' \in Seq(Block) /\ out' \in Seq(Block)
  BY <1>1, HeadAndTail
<1> DEFINE w == out \o stream
           d == Len(out) + 1
           u == out \o Tail(stream)
<1>3. t = u /\ Whole = w
  BY DEF Whole
<1>4. /\ w \in Seq(Block) /\ t \in Seq(Block) /\ d \in DOMAIN w
      /\ w[d] = Head(stream) /\ Len(w) = Len(t) + 1
      /\ \A k \in DOMAIN t : t[k] = IF k < d THEN w[k] ELSE w[k + 1]
  <2>1. /\ w \in Seq(Block) /\ u \in Seq(Block) /\ d \in DOMAIN w
        /\ w[d] = Head(stream) /\ Len(w) = Len(u) + 1
        /\ \A k \in DOMAIN u : u[k] = IF k < d THEN w[k] ELSE w[k + 1]
    BY <1>1, DropOne, Zenon
  <2> QED BY <1>3, <2>1, Zenon
<1> HIDE DEF w, d
<1>5. Good(w) => Good(t)
  BY <1>4, DropKeeps
<1>6. Good(w) /\ (pc = "strip" => \A k \in DOMAIN w : Untouched(w[k]))
  BY <1>3 DEF StitchInv
<1>7. pc = "strip" => \A k \in DOMAIN t : Untouched(t[k])
  <2>1. \A k \in DOMAIN t : \E j \in DOMAIN w : t[k] = w[j]
    BY <1>4
  <2> QED BY <1>6, <2>1
<1> QED BY <1>2, <1>5, <1>6, <1>7, InStage

\* The block is folded into the last one put out.
LEMMA FuseStep ==
  ASSUME StitchInv, pc \in {"join", "merge"}, stream /= <<>>, out /= <<>>,
         UNCHANGED <<pc, input, repeated>>,
         NEW b \in Block, b.parts = Last(out).parts \o Head(stream).parts,
         b.kind /= "break", TablePages(b),
         stream' = Tail(stream),
         NEW p \in Seq(Block), out' = p, Len(p) = Len(out), p[Len(out)] = b,
         \A k \in 1..Len(out) : k /= Len(out) => p[k] = out[k]
  PROVE  StitchInv'
<1>1. out \in Seq(Block) /\ stream \in Seq(Block)
  BY DEF StitchInv, StitchTypes
<1> DEFINE w == out \o stream
           d == Len(out) + 1
           t == p \o Tail(stream)
<1>2. t = Whole'
  BY DEF Whole
<1>3. Whole = w
  BY DEF Whole
<1>4. FoldsInto(w, t, d)
      /\ w[d] = Head(stream) /\ w[Len(out)] = Last(out) /\ t[Len(out)] = b
  BY <1>1, FuseOne
<1>5. stream' \in Seq(Block) /\ out' \in Seq(Block)
  BY <1>1, HeadAndTail
<1>e. d - 1 = Len(out)
  BY <1>1
<1> HIDE DEF w, d, t
<1>6. t[d - 1].parts = w[d - 1].parts \o w[d].parts
  BY <1>4, <1>e
<1>7. /\ Good(w) /\ t[d - 1].kind /= "break" /\ TablePages(t[d - 1]) => Good(t)
      /\ Carried(w) \subseteq Carried(t)
  BY <1>4, <1>6, FuseKeeps DEF FoldsInto
<1>8. Good(w) /\ Explained(w)
  BY <1>3 DEF StitchInv
<1>9. Good(t)
  BY <1>4, <1>e, <1>7, <1>8
<1>10. Explained(t)
  BY <1>7, <1>8 DEF Explained
<1> QED BY <1>2, <1>5, <1>9, <1>10, InStage

\* What is stripped is a running margin of the input.
LEMMA StripKeeps == ASSUME StitchInv, Strip PROVE StitchInv'
<1> DEFINE b == Head(stream)
<1>1. out \in Seq(Block) /\ stream \in Seq(Block) /\ stream /= <<>> /\ pc = "strip"
  BY DEF StitchInv, StitchTypes, Strip
<1>2. UNCHANGED <<pc, input, repeated>> /\ stream' = Tail(stream)
  BY DEF Strip
<1>3. CASE ~Running(b)
  <2>1. out' = Append(out, Head(stream))
    BY <1>3 DEF Strip
  <2> QED BY <1>1, <1>2, <2>1, TakeStep
<1>4. CASE Running(b)
  <2>1. out' = out
    BY <1>4 DEF Strip
  <2>2. PICK t : t = Whole'
    OBVIOUS
  <2>3. /\ Len(out) + 1 \in DOMAIN Whole /\ Whole[Len(out) + 1] = b
        /\ t = out \o Tail(stream) /\ Whole = out \o stream
    BY <1>1, <1>2, <2>1, <2>2, DropOne DEF Whole
  <2>4. PICK p \in DOMAIN input : b = input[p]
    <3>1. \A k \in DOMAIN Whole : Untouched(Whole[k])
      BY <1>1 DEF StitchInv
    <3> QED BY <2>3, <3>1 DEF Untouched
  <2> HIDE DEF b
  <2>5. PartsOf(b) = {p}
    BY <2>4, UntouchedParts
  <2>6. RunningMargin(p)
    <3>1. InMargin(input[p]) /\ (input[p].text = "number" \/ MarginKey(input[p]) \in repeated)
      BY <1>4, <2>4 DEF Running
    <3>2. CASE MarginKey(input[p]) \in repeated
      <4>1. PICK i \in DOMAIN input, j \in DOMAIN input :
              /\ SameMargin(input[i], input[j]) /\ input[i].page /= input[j].page
              /\ MarginKey(input[i]) = MarginKey(input[p])
        BY <1>1, <3>2 DEF StitchInv, MarginsKnown
      <4>2. SameMargin(input[p], input[i]) /\ SameMargin(input[p], input[j])
        BY <3>1, <4>1 DEF SameMargin
      <4>3. input[p].page /= input[i].page \/ input[p].page /= input[j].page
        BY <4>1
      <4> QED BY <3>1, <4>2, <4>3 DEF RunningMargin
    <3> QED BY <3>1, <3>2 DEF RunningMargin
  <2>7. Carried(Whole) \subseteq Carried(t) \cup {p}
    <3> DEFINE w == out \o stream
               u == out \o Tail(stream)
               d == Len(out) + 1
    <3>1. /\ w \in Seq(Block) /\ u \in Seq(Block) /\ d \in DOMAIN w
          /\ w[d] = Head(stream) /\ Len(w) = Len(u) + 1
          /\ \A k \in DOMAIN u : u[k] = IF k < d THEN w[k] ELSE w[k + 1]
      BY <1>1, DropOne, Zenon
    <3> HIDE DEF w, u, d
    <3>2. Carried(w) \subseteq Carried(u) \cup PartsOf(w[d])
      BY <3>1, DropKeeps
    <3>3. w = Whole /\ u = t /\ w[d] = b
      BY <2>3, <3>1 DEF w, u, d, b
    <3> QED BY <2>5, <3>2, <3>3
  <2>8. Explained(t)
    <3>1. Explained(Whole)
      BY <1>1 DEF StitchInv
    <3>2. \A i \in DOMAIN input \ Carried(Whole) : RunningMargin(i)
      BY <1>1, <3>1 DEF Explained
    <3> QED BY <2>6, <2>7, <3>2 DEF Explained
  <2> QED BY <1>1, <1>2, <2>1, <2>2, <2>8, DropStep
<1> QED BY <1>3, <1>4

\* The last block put out is a block, and the one that follows it as well.
LEMMA Neighbours ==
  ASSUME StitchInv, stream /= <<>>, out /= <<>>,
         pc \in {"join", "merge", "sections"}
  PROVE  /\ Last(out) \in Block /\ Head(stream) \in Block
         /\ TablePages(Last(out)) /\ TablePages(Head(stream))
<1>1. out \in Seq(Block) /\ stream \in Seq(Block)
  BY DEF StitchInv, StitchTypes
<1>2. /\ Whole[Len(out)] = Last(out) /\ Whole[Len(out) + 1] = Head(stream)
      /\ Len(out) \in DOMAIN Whole /\ Len(out) + 1 \in DOMAIN Whole
  <2>1. /\ Len(out) \in Nat /\ Len(stream) \in Nat /\ Len(out) > 0 /\ Len(stream) > 0
        /\ Head(stream) = stream[1] /\ Last(out) = out[Len(out)]
    BY <1>1 DEF Last
  <2>2. /\ DOMAIN Whole = 1..(Len(out) + Len(stream))
        /\ \A k \in 1..(Len(out) + Len(stream)) :
             Whole[k] = IF k <= Len(out) THEN out[k] ELSE stream[k - Len(out)]
    BY <1>1, Concatenated DEF Whole
  <2> QED BY <2>1, <2>2
<1>3. Last(out) \in Block /\ Head(stream) \in Block
  BY <1>1 DEF Last
<1>4. Good(Whole)
  BY DEF StitchInv
<1> QED BY <1>2, <1>3, <1>4 DEF Good

\* A paragraph that dangles takes in the next one.
LEMMA JoinKeeps == ASSUME StitchInv, Join PROVE StitchInv'
<1> DEFINE a == Last(out)
           b == Head(stream)
<1>1. /\ out \in Seq(Block) /\ stream \in Seq(Block) /\ stream /= <<>> /\ pc = "join"
      /\ UNCHANGED <<pc, input, repeated>> /\ stream' = Tail(stream)
      /\ out' = IF out /= <<>> /\ Dangles(a, b)
                THEN [out EXCEPT ![Len(out)] = Joined(a, b)]
                ELSE Append(out, b)
  BY DEF StitchInv, StitchTypes, Join, Absorb
<1>2. CASE ~(out /= <<>> /\ Dangles(a, b))
  <2>1. out' = Append(out, Head(stream))
    BY <1>1, <1>2, Zenon
  <2> QED BY <1>1, <2>1, TakeStep
<1>3. CASE out /= <<>> /\ Dangles(a, b)
  <2>1. PICK p : p = out'
    OBVIOUS
  <2>2. p = [out EXCEPT ![Len(out)] = Joined(a, b)]
    BY <1>1, <1>3, <2>1, Zenon
  <2>3. a \in Block /\ b \in Block
    BY <1>1, <1>3, Neighbours
  <2>4. /\ Joined(a, b) \in Block /\ Joined(a, b).kind = "para"
        /\ Joined(a, b).parts = Last(out).parts \o Head(stream).parts
    BY <1>3, <2>3, JoinedIs, Zenon DEF Dangles
  <2>5. PICK c : c = Joined(a, b)
    OBVIOUS
  <2>6. /\ p \in Seq(Block) /\ Len(p) = Len(out) /\ p[Len(out)] = c
        /\ \A k \in 1..Len(out) : k /= Len(out) => p[k] = out[k]
    <3>1. p = [out EXCEPT ![Len(out)] = c] /\ c \in Block
      BY <2>2, <2>4, <2>5, Zenon
    <3>2. out \in Seq(Block) /\ out /= <<>>
      BY <1>1, <1>3, Zenon
    <3> HIDE DEF a, b
    <3> QED BY <3>1, <3>2, ReplaceLast
  <2>7. /\ c \in Block /\ c.parts = Last(out).parts \o Head(stream).parts
        /\ c.kind /= "break" /\ TablePages(c)
    BY <2>4, <2>5 DEF TablePages, Table
  <2> HIDE DEF a, b
  <2> QED BY <1>1, <1>3, <2>1, <2>6, <2>7, FuseStep
<1> QED BY <1>2, <1>3

\* A table takes in the one that continues it on the next page, and no other.
LEMMA MergeKeeps == ASSUME StitchInv, Merge PROVE StitchInv'
<1> DEFINE a == Last(out)
           b == Head(stream)
<1>1. /\ out \in Seq(Block) /\ stream \in Seq(Block) /\ stream /= <<>> /\ pc = "merge"
      /\ UNCHANGED <<pc, input, repeated>> /\ stream' = Tail(stream)
      /\ out' = IF out /= <<>> /\ Continues(a, b)
                THEN [out EXCEPT ![Len(out)] = Extended(a, b)]
                ELSE Append(out, b)
  BY DEF StitchInv, StitchTypes, Merge, Absorb
<1>2. CASE ~(out /= <<>> /\ Continues(a, b))
  <2>1. out' = Append(out, Head(stream))
    BY <1>1, <1>2, Zenon
  <2> QED BY <1>1, <2>1, TakeStep
<1>3. CASE out /= <<>> /\ Continues(a, b)
  <2>1. PICK p : p = out'
    OBVIOUS
  <2>2. p = [out EXCEPT ![Len(out)] = Extended(a, b)]
    BY <1>1, <1>3, <2>1, Zenon
  <2>3. a \in Block /\ b \in Block /\ TablePages(a) /\ TablePages(b)
    BY <1>1, <1>3, Neighbours
  <2>4. /\ Table(a) /\ Table(b) /\ a.boxed /\ b.boxed /\ b.page = a.page + 1
    BY <1>3 DEF Continues
  <2>5. /\ Extended(a, b) \in Block /\ Extended(a, b).kind = "table"
        /\ Extended(a, b).page = a.page /\ Extended(a, b).boxed = FALSE
        /\ Extended(a, b).parts = a.parts \o b.parts
    BY <2>3, <2>4, ExtendedIs, Zenon
  <2>6. PICK c : c = Extended(a, b)
    OBVIOUS
  <2>7. /\ p \in Seq(Block) /\ Len(p) = Len(out) /\ p[Len(out)] = c
        /\ \A k \in 1..Len(out) : k /= Len(out) => p[k] = out[k]
    <3>1. p = [out EXCEPT ![Len(out)] = c] /\ c \in Block
      BY <2>2, <2>5, <2>6, Zenon
    <3>2. out \in Seq(Block) /\ out /= <<>>
      BY <1>1, <1>3, Zenon
    <3> HIDE DEF a, b
    <3> QED BY <3>1, <3>2, ReplaceLast
  <2>8. TablePages(c)
    <3>1. a.parts \in Seq(Nat) /\ b.parts \in Seq(Nat)
      BY <2>3, BlockFields
    <3>2. PartsOf(c) = PartsOf(a) \cup PartsOf(b)
      BY <2>5, <2>6, <3>1, PartsOfBoth DEF PartsOf
    <3>3. \A q \in PartsOf(a) : input[q].page = a.page
      BY <2>3, <2>4 DEF TablePages
    <3>4. \A q \in PartsOf(b) : input[q].page = a.page + 1
      BY <2>3, <2>4 DEF TablePages
    <3>5. c.page = a.page /\ ~c.boxed
      BY <2>5, <2>6
    <3> QED BY <3>2, <3>3, <3>4, <3>5 DEF TablePages
  <2>9. /\ c \in Block /\ c.parts = Last(out).parts \o Head(stream).parts
        /\ c.kind /= "break"
    BY <2>5, <2>6
  <2> HIDE DEF a, b
  <2> QED BY <1>1, <1>3, <2>1, <2>7, <2>8, <2>9, FuseStep
<1> QED BY <1>2, <1>3

\* Dropping break d of w, which follows one of the same orientation, leaves
\* every loss explained.
LEMMA DroppedBreak ==
  ASSUME StitchInv, pc = "sections",
         NEW w \in Seq(Block), NEW t \in Seq(Block), NEW d \in DOMAIN w, d > 1,
         Len(w) = Len(t) + 1,
         \A k \in DOMAIN t : t[k] = IF k < d THEN w[k] ELSE w[k + 1],
         Good(w), Explained(w), SameSection(w[d - 1], w[d])
  PROVE  Explained(t)
<1>1. /\ d \in Nat /\ d - 1 \in DOMAIN w /\ d - 1 \in DOMAIN t /\ t[d - 1] = w[d - 1]
      /\ d - 1 < d
  OBVIOUS
<1>2. PICK p \in DOMAIN input : w[d] = input[p]
  BY DEF Good, SameSection, Untouched
<1>3. PICK q \in DOMAIN input : w[d - 1] = input[q]
  BY <1>1 DEF Good, SameSection, Untouched
<1>4. PartsOf(w[d]) = {p} /\ PartsOf(w[d - 1]) = {q}
  BY <1>2, <1>3, UntouchedParts
<1>5. \A j \in DOMAIN w, k \in DOMAIN w : j < k =>
        \A u \in PartsOf(w[j]), v \in PartsOf(w[k]) : Before(u, v)
  BY DEF Good, BlocksInOrder
<1>6. Before(q, p)
  BY <1>1, <1>4, <1>5
<1>7. \A m \in DOMAIN t : m > d - 1 => m + 1 \in DOMAIN w /\ m + 1 > d /\ t[m] = w[m + 1]
  <2> SUFFICES ASSUME NEW m \in DOMAIN t, m > d - 1
               PROVE  m + 1 \in DOMAIN w /\ m + 1 > d /\ t[m] = w[m + 1]
    OBVIOUS
  <2>1. ~(m < d) /\ m + 1 \in DOMAIN w /\ m + 1 > d
    OBVIOUS
  <2> QED BY <2>1
<1>8. Carried(w) \subseteq Carried(t) \cup {p}
  <2>1. Carried(w) \subseteq Carried(t) \cup PartsOf(w[d])
    BY DropKeeps
  <2> QED BY <1>4, <2>1
<1>9. /\ w[d - 1].kind = "break" /\ w[d].kind = "break"
      /\ w[d - 1].orientation = w[d].orientation
  BY DEF SameSection
<1>10. BreakAgain(t, p)
  <2>1. \A m \in DOMAIN t : m > d - 1 => \A v \in PartsOf(t[m]) : Before(p, v)
    BY <1>4, <1>5, <1>7
  <2> QED BY <1>1, <1>2, <1>4, <1>6, <1>9, <2>1 DEF BreakAgain
<1>11. ASSUME NEW i \in DOMAIN input, BreakAgain(w, i) PROVE BreakAgain(t, i)
  <2>1. PICK k \in DOMAIN w :
          /\ w[k].kind = "break" /\ w[k].orientation = input[i].orientation
          /\ \A u \in PartsOf(w[k]) : Before(u, i)
          /\ \A m \in DOMAIN w : m > k => \A u \in PartsOf(w[m]) : Before(i, u)
    BY <1>11 DEF BreakAgain
  <2>2. input[i].kind = "break"
    BY <1>11 DEF BreakAgain
  <2>3. CASE k < d
    <3>1. k \in DOMAIN t /\ t[k] = w[k]
      BY <2>3
    <3>2. ASSUME NEW m \in DOMAIN t, m > k
          PROVE  \A u \in PartsOf(t[m]) : Before(i, u)
      <4>1. \E n \in DOMAIN w : n > k /\ t[m] = w[n]
        <5>1. CASE m < d
          BY <3>2, <5>1
        <5>2. CASE ~(m < d)
          <6>1. m + 1 \in DOMAIN w /\ m + 1 > k /\ t[m] = w[m + 1]
            BY <3>2, <5>2
          <6> QED BY <6>1
        <5> QED BY <5>1, <5>2
      <4> QED BY <2>1, <4>1
    <3> QED BY <2>1, <2>2, <3>1, <3>2 DEF BreakAgain
  <2>4. CASE k = d
    <3>1. Before(p, i)
      BY <1>4, <2>1, <2>4
    <3>2. Before(q, i)
      BY <1>6, <3>1, BeforeTransitive DEF StitchInv
    <3>3. \A m \in DOMAIN t : m > d - 1 => \A u \in PartsOf(t[m]) : Before(i, u)
      BY <1>7, <2>1, <2>4
    <3>4. t[d - 1].kind = "break" /\ t[d - 1].orientation = input[i].orientation
      BY <1>1, <1>9, <2>1, <2>4
    <3> QED BY <1>1, <1>4, <2>2, <3>2, <3>3, <3>4 DEF BreakAgain
  <2>5. CASE k > d
    <3>1. k - 1 \in DOMAIN t /\ ~(k - 1 < d) /\ (k - 1) + 1 = k
      BY <2>5
    <3>2. t[k - 1] = w[k]
      BY <3>1
    <3>3. \A m \in DOMAIN t : m > k - 1 => m + 1 \in DOMAIN w /\ m + 1 > k /\ t[m] = w[m + 1]
      <4> SUFFICES ASSUME NEW m \in DOMAIN t, m > k - 1
                   PROVE  m + 1 \in DOMAIN w /\ m + 1 > k /\ t[m] = w[m + 1]
        OBVIOUS
      <4>1. m > d - 1 /\ m + 1 > k
        BY <2>5
      <4> QED BY <1>7, <4>1
    <3>4. \A m \in DOMAIN t : m > k - 1 => \A u \in PartsOf(t[m]) : Before(i, u)
      BY <2>1, <3>3
    <3> QED BY <2>1, <2>2, <3>1, <3>2, <3>4 DEF BreakAgain
  <2> QED BY <1>1, <2>3, <2>4, <2>5
<1> QED BY <1>8, <1>10, <1>11 DEF Explained

\* A break that repeats the one before it is dropped.
LEMMA SectionsKeep == ASSUME StitchInv, Sections PROVE StitchInv'
<1> DEFINE a == Last(out)
           b == Head(stream)
<1>1. /\ out \in Seq(Block) /\ stream \in Seq(Block) /\ stream /= <<>> /\ pc = "sections"
      /\ UNCHANGED <<pc, input, repeated>> /\ stream' = Tail(stream)
      /\ out' = IF out /= <<>> /\ SameSection(a, b)
                THEN [out EXCEPT ![Len(out)] = a]
                ELSE Append(out, b)
  BY DEF StitchInv, StitchTypes, Sections, Absorb
<1>2. CASE ~(out /= <<>> /\ SameSection(a, b))
  <2>1. out' = Append(out, Head(stream))
    BY <1>1, <1>2, Zenon
  <2> QED BY <1>1, <2>1, TakeStep
<1>3. CASE out /= <<>> /\ SameSection(a, b)
  <2>1. out' = out
    <3>1. out' = [out EXCEPT ![Len(out)] = out[Len(out)]]
      BY <1>1, <1>3, Zenon DEF Last
    <3> QED BY <1>1, <1>3, <3>1
  <2>2. PICK t : t = Whole'
    OBVIOUS
  <2> DEFINE w == out \o stream
             u == out \o Tail(stream)
             d == Len(out) + 1
  <2>3. /\ w \in Seq(Block) /\ u \in Seq(Block) /\ d \in DOMAIN w
        /\ w[d] = Head(stream) /\ Len(w) = Len(u) + 1
        /\ \A k \in DOMAIN u : u[k] = IF k < d THEN w[k] ELSE w[k + 1]
    BY <1>1, DropOne, Zenon
  <2>4. t = u /\ Whole = w
    BY <1>1, <2>1, <2>2 DEF Whole
  <2>5. d > 1 /\ w[d - 1] = a
    <3>1. Len(out) \in 1..(Len(out) + Len(stream)) /\ Len(out) > 0 /\ d - 1 = Len(out)
      BY <1>1, <1>3
    <3>2. w[Len(out)] = out[Len(out)]
      BY <1>1, <3>1, Concatenated
    <3> QED BY <3>1, <3>2 DEF Last
  <2>6. SameSection(w[d - 1], w[d])
    BY <1>3, <2>3, <2>5
  <2>7. Good(w) /\ Explained(w)
    BY <1>1, <2>4 DEF StitchInv
  <2> HIDE DEF w, u, d
  <2>8. Explained(u)
    BY <1>1, <2>3, <2>5, <2>6, <2>7, DroppedBreak
  <2>9. Explained(t)
    BY <2>4, <2>8
  <2> QED BY <1>1, <2>1, <2>2, <2>9, DropStep
<1> QED BY <1>2, <1>3

\* What a stage put out is what the next one works on.
LEMMA NextStageKeeps == ASSUME StitchInv, NextStage PROVE StitchInv'
<1>1. /\ out \in Seq(Block) /\ stream = <<>> /\ pc \in {"strip", "join", "merge", "sections"}
      /\ pc' \in {"join", "merge", "sections", "done"}
      /\ stream' = out /\ out' = <<>> /\ input' = input /\ repeated' = repeated
      /\ (pc \in {"sections", "done"} => pc' \in {"sections", "done"})
  BY DEF StitchInv, StitchTypes, NextStage, Following
<1>2. Whole = out /\ Whole' = out
  <2>1. out \o <<>> = out /\ <<>> \o out = out
    BY <1>1, EmptyEnds
  <2> QED BY <1>1, <2>1 DEF Whole
<1>3. PICK t : t = out
  OBVIOUS
<1>4. t = Whole' /\ Good(t) /\ Explained(t)
  BY <1>1, <1>2, <1>3 DEF StitchInv
<1>5. Good(Whole)'
  BY <1>1, <1>4, GoodCarries
<1>6. Explained(Whole)'
  BY <1>1, <1>4, ExplainedCarries DEF Explained
<1>7. StitchTypes'
  BY <1>1 DEF StitchInv, StitchTypes, Stages
<1>8. (\A i \in DOMAIN input : input[i].parts = <<i>>)'
  BY <1>1 DEF StitchInv
<1>9. pc' \notin {"walk", "sort", "margins", "strip"} /\ out' = <<>>
  BY <1>1
<1> QED BY <1>5, <1>6, <1>7, <1>8, <1>9 DEF StitchInv

\* The sort puts the blocks in the order of the document.
LEMMA SortKeeps == ASSUME StitchInv, Sort PROVE StitchInv'
<1>1. /\ pc = "sort" /\ pc' = "margins" /\ out = <<>> /\ out' = <<>> /\ input' = input
      /\ stream = input /\ input \in Seq(Block) /\ repeated' = repeated
      /\ \A i \in DOMAIN input : input[i].parts = <<i>>
  BY DEF StitchInv, StitchTypes, Sort
<1>2. PICK order \in [DOMAIN input -> DOMAIN input] :
        /\ StableOrder(input, order)
        /\ stream' = [k \in DOMAIN input |-> input[order[k]]]
  BY <1>1 DEF Sort
<1> DEFINE t == [k \in DOMAIN input |-> input[order[k]]]
<1>3. /\ DOMAIN t = DOMAIN input /\ DOMAIN input = 1..Len(input) /\ Len(input) \in Nat
      /\ \A k \in DOMAIN t : order[k] \in DOMAIN input /\ t[k] = input[order[k]] /\ t[k] \in Block
  BY <1>1, <1>2
<1>4. t \in Seq(Block)
  BY <1>3
<1>5. Whole' = t
  <2>1. <<>> \o t = t
    BY <1>4, EmptyEnds
  <2> QED BY <1>1, <1>2, <2>1 DEF Whole
<1>6. stream' = t
  BY <1>2
<1> HIDE DEF t
<1>7. \A k \in DOMAIN t : Untouched(t[k]) /\ PartsOf(t[k]) = {order[k]}
  BY <1>3, UntouchedParts DEF Untouched
<1>8. Good(t)
  <2>1. ASSUME NEW k \in DOMAIN t
        PROVE  PartsOf(t[k]) \subseteq DOMAIN input /\ TablePages(t[k]) /\ PartsInOrder(t[k])
    <3>1. t[k] = input[order[k]] /\ PartsOf(t[k]) = {order[k]} /\ order[k] \in DOMAIN input
      BY <1>3, <1>7
    <3>2. t[k].parts = <<order[k]>>
      BY <1>1, <3>1
    <3> QED BY <3>1, <3>2 DEF TablePages, PartsInOrder
  <2>2. BlocksInOrder(t)
    <3>1. \A j \in DOMAIN t, k \in DOMAIN t : j < k => Before(order[j], order[k])
      BY <1>2, <1>3 DEF StableOrder, Before
    <3> QED BY <1>7, <3>1 DEF BlocksInOrder
  <2> QED BY <1>7, <2>1, <2>2 DEF Good
<1>9. \A i \in DOMAIN input : i \in Carried(t)
  <2> SUFFICES ASSUME NEW i \in DOMAIN input PROVE i \in Carried(t)
    OBVIOUS
  <2>1. PICK k \in DOMAIN input : order[k] = i
    BY <1>2 DEF StableOrder
  <2>2. k \in DOMAIN t /\ i \in PartsOf(t[k])
    BY <1>3, <1>7, <2>1
  <2> QED BY <2>2 DEF Carried
<1>10. PICK u : u = t
  OBVIOUS
<1>11. Good(Whole)'
  BY <1>1, <1>5, <1>8, <1>10, GoodCarries
<1>12. Explained(Whole)'
  BY <1>1, <1>5, <1>9, <1>10, ExplainedCarries
<1>13. (\A k \in DOMAIN Whole : Untouched(Whole[k]))'
  BY <1>1, <1>5, <1>7 DEF Untouched
<1>14. StitchTypes'
  BY <1>1, <1>4, <1>6 DEF StitchTypes, Stages
<1>15. (\A i \in DOMAIN input : input[i].parts = <<i>>)'
  BY <1>1
<1> QED BY <1>1, <1>11, <1>12, <1>13, <1>14, <1>15 DEF StitchInv

\* The first pass of strip_running_headers learns margins of the input.
LEMMA MarginsKeep == ASSUME StitchInv, Margins PROVE StitchInv'
<1>1. /\ pc = "margins" /\ pc' = "strip" /\ out = <<>> /\ out' = out /\ input' = input
      /\ stream' = stream /\ stream \in Seq(Block)
  BY DEF StitchInv, StitchTypes, Margins
<1>2. Whole = stream /\ Whole' = Whole
  BY <1>1, EmptyEnds DEF Whole
<1>3. /\ Good(Whole) /\ Explained(Whole)
      /\ \A k \in DOMAIN Whole : Untouched(Whole[k])
  BY <1>1 DEF StitchInv
<1>4. MarginsKnown'
  <2>1. ASSUME NEW key \in repeated'
        PROVE  \E i \in DOMAIN input, j \in DOMAIN input :
                 /\ SameMargin(input[i], input[j]) /\ input[i].page /= input[j].page
                 /\ MarginKey(input[i]) = key
    <3>1. PICK x \in DOMAIN stream, y \in DOMAIN stream :
            /\ SameMargin(stream[x], stream[y]) /\ stream[x].page /= stream[y].page
            /\ MarginKey(stream[x]) = key
      BY <2>1 DEF Margins
    <3>2. PICK i \in DOMAIN input : stream[x] = input[i]
      BY <1>2, <1>3 DEF Untouched
    <3>3. PICK j \in DOMAIN input : stream[y] = input[j]
      BY <1>2, <1>3 DEF Untouched
    <3> QED BY <3>1, <3>2, <3>3
  <2> QED BY <1>1, <2>1 DEF MarginsKnown, SameMargin, InMargin, MarginKey, Paragraph
<1>5. PICK t : t = Whole
  OBVIOUS
<1>6. t = Whole' /\ Good(t) /\ Explained(t)
  BY <1>2, <1>3, <1>5
<1>7. Good(Whole)'
  BY <1>1, <1>6, GoodCarries
<1>8. Explained(Whole)'
  BY <1>1, <1>6, ExplainedCarries DEF Explained
<1>9. (\A k \in DOMAIN Whole : Untouched(Whole[k]))'
  BY <1>1, <1>2, <1>3 DEF Untouched
<1>10. StitchTypes'
  BY <1>1 DEF StitchInv, StitchTypes, Stages
<1>11. (\A i \in DOMAIN input : input[i].parts = <<i>>)'
  BY <1>1 DEF StitchInv
<1> QED BY <1>1, <1>4, <1>7, <1>8, <1>9, <1>10, <1>11 DEF StitchInv

\* What is handed over is a sequence of blocks that carry themselves.
LEMMA HandOverKeeps == ASSUME StitchInv, pc = "walk", NEW body, HandOver(body) PROVE StitchInv'
<1>n. PICK n \in 1..MaxBlocks : \E pages \in [1..n -> Pages], shapes \in [1..n -> Shapes] :
        input' = [i \in 1..n |-> Placed(shapes[i], i, pages[i])]
  BY DEF HandOver
<1>1. PICK pages \in [1..n -> Pages], shapes \in [1..n -> Shapes] :
        input' = [i \in 1..n |-> Placed(shapes[i], i, pages[i])]
  BY <1>n
<1>2. pc' = "sort" /\ stream' = input' /\ out' = <<>>
  BY DEF HandOver, StitchInv
<1>3. ASSUME NEW i \in 1..n
      PROVE  /\ Placed(shapes[i], i, pages[i]) \in Block
             /\ Placed(shapes[i], i, pages[i]).parts = <<i>>
  <2>1. shapes[i] \in Shape /\ i \in Nat /\ pages[i] \in Nat
    BY <1>1, StitcherAssumption DEF Pages
  <2> QED BY <2>1, PlacedIs
<1>4. input' \in Seq(Block) /\ \A i \in DOMAIN input' : input'[i].parts = <<i>>
  <2> DEFINE new(i) == Placed(shapes[i], i, pages[i])
  <2>1. n \in Nat /\ input' = [i \in 1..n |-> new(i)]
    BY <1>1
  <2>2. \A i \in 1..n : new(i) \in Block /\ new(i).parts = <<i>>
    BY <1>3
  <2> HIDE DEF new
  <2> QED BY <2>1, <2>2
<1> QED BY <1>2, <1>4 DEF StitchInv, StitchTypes, Stages

\* Before the assembly.
LEMMA InitStitch == StitchInit => StitchInv
  BY DEF StitchInit, StitchInv, StitchTypes, Stages

\* The structuring does not disturb the assembly.
LEMMA StitchSame == ASSUME StitchInv, UNCHANGED stitchVars PROVE StitchInv'
<1>1. /\ pc' = pc /\ input' = input /\ stream' = stream /\ out' = out /\ repeated' = repeated
      /\ Whole' = Whole
  BY DEF stitchVars, Whole
<1>2. PICK t : t = Whole
  OBVIOUS
<1>3. pc \notin {"walk", "sort"} => Good(Whole)' /\ Explained(Whole)'
  <2> SUFFICES ASSUME pc \notin {"walk", "sort"} PROVE Good(Whole)' /\ Explained(Whole)'
    OBVIOUS
  <2>1. t = Whole' /\ Good(t) /\ Explained(t)
    BY <1>1, <1>2 DEF StitchInv
  <2> QED BY <1>1, <2>1, GoodCarries, ExplainedCarries DEF Explained
<1>4. pc = "strip" => MarginsKnown'
  BY <1>1 DEF StitchInv, MarginsKnown, SameMargin, InMargin, MarginKey, Paragraph
<1>5. pc \in {"margins", "strip"} => (\A k \in DOMAIN Whole : Untouched(Whole[k]))'
  BY <1>1 DEF StitchInv, Untouched
<1>6. StitchTypes' /\ (\A i \in DOMAIN input : input[i].parts = <<i>>)'
  BY <1>1 DEF StitchInv, StitchTypes
<1>7. /\ pc \in {"walk", "sort", "margins", "done"} => out = <<>>
      /\ pc = "sort" => stream = input
  BY DEF StitchInv
<1> QED BY <1>1, <1>3, <1>4, <1>5, <1>6, <1>7 DEF StitchInv

-----------------------------------------------------------------------------
(* The document as a whole.                                                *)
DocumentInv == NumberingInv /\ LinesInv /\ StitchInv

\* Nothing read yet.
LEMMA InitDocument == Init => DocumentInv
  BY InitNumbering, InitLines, InitStitch DEF Init, DocumentInv

\* Every step of the document keeps both halves of the invariant.
LEMMA StepDocument ==
  DocumentInv /\ [Next]_<<stitchVars, structureVars>> => DocumentInv'
<1> SUFFICES ASSUME DocumentInv, [Next]_<<stitchVars, structureVars>> PROVE DocumentInv'
  OBVIOUS
<1>0. NumberingInv /\ LinesInv /\ StitchInv /\ Types
  BY DEF DocumentInv, NumberingInv
<1>1. CASE Structure
  <2>1. [StructureNext]_structureVars /\ UNCHANGED stitchVars
    BY <1>1 DEF Structure
  <2>2. NumberingInv'
    BY <1>0, <2>1, StepNumbering
  <2>3. LinesInv'
    BY <1>0, <2>1, StepLines
  <2>4. StitchInv'
    BY <1>0, <2>1, StitchSame
  <2> QED BY <2>2, <2>3, <2>4 DEF DocumentInv
<1>2. CASE Assemble
  <2>1. StructureInit'
    BY <1>2 DEF Assemble, StructureInit, NewClassifier
  <2>2. NumberingInv' /\ LinesInv'
    BY <2>1, InitNumbering, InitLines, PTL
  <2>3. StitchInv'
    BY <1>0, <1>2, HandOverKeeps DEF Assemble
  <2> QED BY <2>2, <2>3 DEF DocumentInv
<1>3. CASE Assembly /\ UNCHANGED structureVars
  <2>1. StitchInv'
    BY <1>0, <1>3, SortKeeps, MarginsKeep, StripKeeps, JoinKeeps, MergeKeeps, SectionsKeep,
       NextStageKeeps DEF Assembly
  <2>2. NumberingInv'
    BY <1>0, <1>3, StepNumbering
  <2>3. LinesInv'
    BY <1>0, <1>3, StepLines
  <2> QED BY <2>1, <2>2, <2>3 DEF DocumentInv
<1>4. CASE UNCHANGED <<stitchVars, structureVars>>
  <2>1. UNCHANGED stitchVars /\ UNCHANGED structureVars
    BY <1>4
  <2>2. NumberingInv'
    BY <1>0, <2>1, StepNumbering
  <2>3. LinesInv'
    BY <1>0, <2>1, StepLines
  <2>4. StitchInv'
    BY <1>0, <2>1, StitchSame
  <2> QED BY <2>2, <2>3, <2>4 DEF DocumentInv
<1> QED BY <1>1, <1>2, <1>3, <1>4 DEF Next

\* The inductive invariant holds throughout: numbering, lines and assembly.
THEOREM DocumentInvariant == Spec => []DocumentInv
  BY InitDocument, StepDocument, PTL DEF Spec

\* Every variable of the classifier and of the assembly keeps its type.
THEOREM TypeCorrect == Spec => [](Types /\ StitchTypes)
<1>1. DocumentInv => Types /\ StitchTypes
  BY DEF DocumentInv, NumberingInv, StitchInv
<1> QED BY <1>1, DocumentInvariant, PTL

\* Kept articles, clauses and points count up from one inside their parents,
\* for documents of any length (Classifier._state_machine).
THEOREM NumberingHolds == Spec => []Numbering
<1>1. DocumentInv => Numbering
  BY DEF DocumentInv, NumberingInv
<1> QED BY <1>1, DocumentInvariant, PTL

\* The blocks are the lines, in order, each once, over any number of page
\* breaks (Classifier.structure).
THEOREM LinesAreKept == Spec => []EveryLineOnce
<1>1. DocumentInv => EveryLineOnce
  BY DEF DocumentInv, LinesInv
<1> QED BY <1>1, DocumentInvariant, PTL

\* A pair has at most two elements.
LEMMA TwoElements ==
  ASSUME NEW a, NEW b
  PROVE  IsFiniteSet({a, b}) /\ Cardinality({a, b}) <= 2
<1>1. IsFiniteSet({a}) /\ Cardinality({a}) = 1
  BY FS_Singleton
<1>2. {a, b} = {a} \cup {b}
  OBVIOUS
<1>3. IsFiniteSet({a, b})
        /\ Cardinality({a, b}) = IF b \in {a} THEN Cardinality({a}) ELSE Cardinality({a}) + 1
  BY <1>1, <1>2, FS_AddElement
<1> QED BY <1>1, <1>3

\* In the end all of the stream is what the last stage put out.
LEMMA DoneIsWhole ==
  ASSUME StitchInv, pc = "done"
  PROVE  Whole = stream /\ Good(stream) /\ Explained(stream) /\ stream \in Seq(Block)
<1>1. out = <<>> /\ stream \in Seq(Block)
  BY DEF StitchInv, StitchTypes
<1>2. Whole = stream
  BY <1>1, EmptyEnds DEF Whole
<1> QED BY <1>1, <1>2 DEF StitchInv

\* The assembly drops margins and breaks that change nothing, whatever the
\* stream (strip_running_headers, consolidate_sections).
THEOREM OnlyMarginsAreLost == Spec => []OnlyMarginsLost
<1>1. DocumentInv => OnlyMarginsLost
  <2> SUFFICES ASSUME StitchInv, pc = "done",
                      NEW i \in DOMAIN input \ Carried(stream)
               PROVE  RunningMargin(i) \/ BreakAgain(stream, i)
    BY DEF DocumentInv, OnlyMarginsLost
  <2> QED BY DoneIsWhole DEF Explained
<1> QED BY <1>1, DocumentInvariant, PTL

\* The assembled document reads page after page and in extraction order, and
\* no table spans three pages, whatever the stream (assemble).
THEOREM ReadsInOrder == Spec => []ReadingOrder
<1>1. DocumentInv => ReadingOrder
  <2> SUFFICES ASSUME StitchInv, pc = "done"
               PROVE  /\ BlocksInOrder(stream)
                      /\ \A k \in DOMAIN stream : PartsInOrder(stream[k])
                      /\ TwoPageTables(stream)
    BY DEF DocumentInv, ReadingOrder
  <2>1. Good(stream) /\ stream \in Seq(Block)
    BY DoneIsWhole
  <2>2. ASSUME NEW k \in DOMAIN stream, Table(stream[k])
        PROVE  Cardinality({input[p].page : p \in PartsOf(stream[k])}) <= 2
    <3> DEFINE S == {input[p].page : p \in PartsOf(stream[k])}
               n == stream[k].page
    <3>1. S \subseteq {n, n + 1}
      BY <2>1, <2>2 DEF Good, TablePages
    <3>2. IsFiniteSet({n, n + 1}) /\ Cardinality({n, n + 1}) <= 2
      BY TwoElements
    <3> HIDE DEF S
    <3>3. Cardinality(S) <= Cardinality({n, n + 1}) /\ Cardinality(S) \in Nat
            /\ Cardinality({n, n + 1}) \in Nat
      BY <3>1, <3>2, FS_Subset, FS_CardinalityType
    <3>4. Cardinality(S) <= 2
      BY <3>2, <3>3
    <3> QED BY <3>4 DEF S
  <2> QED BY <2>1, <2>2 DEF Good, TwoPageTables
<1> QED BY <1>1, DocumentInvariant, PTL
=============================================================================
