--------------------------- MODULE PipelineProofs ---------------------------
(***************************************************************************)
(* Safety of one conversion, for any number of pages, any size of batches  *)
(* and any thresholds.                                                     *)
(*                                                                         *)
(* Until the vision stage is over the blocks hold lines of the text layer  *)
(* only, and every line read is among the blocks or the signatures         *)
(* (LinesHeld).  The list of scanned pages ascends, so the batches cut     *)
(* from it share no page, and a page is either returned by its batch or    *)
(* missing from it.                                                        *)
(***************************************************************************)
EXTENDS Pipeline, FiniteSetTheorems, SequenceTheorems, TLAPS

Reading == {"ingest", "walk"}
Waiting == {"vision", "closing"}

\* scanned_pages ascends, and lists pages the walk has passed.
InOrder ==
  /\ \A i, k \in DOMAIN scanned : i < k => scanned[i] < scanned[k]
  /\ \A i \in DOMAIN scanned : scanned[i] < page

\* A line of a text page in the blocks was read from it; no line is lost
\* before the assembly.
LinesHeld ==
  /\ \A l \in blocks : l[2] \in Roles => l \in extracted
  /\ signed \subseteq extracted
  /\ pc \in Reading \cup Waiting \cup {"assemble"} => extracted \subseteq blocks \cup signed

\* No transcription and no degraded page before the vision stage ends.
Untranscribed ==
  pc \in Reading \cup Waiting => /\ blocks \subseteq LinesOf(Roles)
                                 /\ degraded = <<>>

\* What the assembly leaves out, as TextIntact states it for the end.
TextKept ==
  pc \in {"deliver", "done"} => \A l \in extracted \ blocks : LeftOut(l)

\* The calls are those of the batches, and joined before the assembly.
CallsJoined ==
  /\ pc \in Reading => call = <<>>
  /\ pc \in Waiting => DOMAIN call = BatchIds
  /\ NoCallOutlives

PipelineInv ==
  /\ TypeOK /\ InOrder /\ LinesHeld /\ Untranscribed /\ ScannedAccounted
  /\ TextKept /\ CallsJoined /\ HonestStatus
-----------------------------------------------------------------------------
(* Lists of pages and the batches cut from them.                           *)

\* An ascending list holds each of its pages once.
LEMMA AscendingSize ==
  ASSUME NEW list \in Seq(Pages), \A i, k \in DOMAIN list : i < k => list[i] < list[k]
  PROVE  IsFiniteSet(ToSet(list)) /\ Cardinality(ToSet(list)) = Len(list)
<1> DEFINE S == 1..Len(list)
           T == ToSet(list)
<1>1. /\ Len(list) \in Nat /\ DOMAIN list = S /\ list \in [S -> Pages]
      /\ \A i \in S : list[i] \in Nat
  <2>1. Len(list) \in Nat /\ DOMAIN list = S /\ list \in [S -> Pages]
    BY LenProperties
  <2>2. \A p \in Pages : p \in Nat
    BY PipelineAssumption DEF Pages
  <2> QED
    BY <2>1, <2>2
<1>2. list \in Injection(S, T)
  <2>1. list \in [S -> T]
    BY <1>1 DEF ToSet
  <2>2. \A i, k \in S : list[i] = list[k] => i = k
    <3>1. TAKE i \in S, k \in S
    <3>2. i \in Nat /\ k \in Nat
      BY <1>1
    <3>3. list[i] \in Nat /\ list[k] \in Nat
      BY <1>1
    <3> QED
      BY <1>1, <3>2, <3>3
  <2> QED
    BY <2>1, <2>2 DEF Injection, IsInjective
<1>3. list \in Surjection(S, T)
  <2>1. list \in [S -> T] /\ \A t \in T : \E i \in S : list[i] = t
    BY <1>1 DEF ToSet
  <2> QED
    BY <2>1 DEF Surjection
<1>4. IsFiniteSet(S) /\ Cardinality(S) = Len(list)
  <2>1. Len(list) \in Nat
    BY <1>1
  <2> QED
    BY <2>1, FS_Interval
<1>5. IsFiniteSet(T) /\ (Cardinality(T) = Cardinality(S) <=> list \in Injection(S, T))
  BY <1>3, <1>4, FS_Surjection
<1> QED
  BY <1>2, <1>4, <1>5

LEMMA PagesFinite == \A S \in SUBSET Pages : IsFiniteSet(S) /\ Cardinality(S) \in Nat
<1>1. IsFiniteSet(Pages)
  BY PipelineAssumption, FS_Interval DEF Pages
<1> QED
  BY <1>1, FS_Subset, FS_CardinalityType

\* A list of the missing pages holds exactly these.
LEMMA AscendingLists ==
  ASSUME NEW S \in SUBSET Pages, NEW list \in Ascending(S)
  PROVE  /\ list \in Seq(Pages) /\ ToSet(list) = S
         /\ Cardinality(ToSet(list)) = Len(list)
<1>1. IsFiniteSet(S) /\ Cardinality(S) \in Nat
  BY PagesFinite
<1>2. list \in Seq(S) /\ Len(list) = Cardinality(S)
  BY <1>1 DEF Ascending
<1>3. list \in Seq(Pages)
  BY <1>2, SeqMonotonic
<1>4. IsFiniteSet(ToSet(list)) /\ Cardinality(ToSet(list)) = Len(list)
  BY <1>3, AscendingSize DEF Ascending
<1>5. ToSet(list) \subseteq S
  BY <1>2, LenProperties DEF ToSet
<1> QED
  BY <1>1, <1>2, <1>3, <1>4, <1>5, FS_Subset

\* Where a batch starts and ends in the list of scanned pages.
FirstOf(b) == (b - 1) * BatchPages + 1
LastOf(b) == IF b * BatchPages <= Len(scanned) THEN b * BatchPages ELSE Len(scanned)

LEMMA BatchBounds ==
  ASSUME scanned \in Seq(Pages), NEW b \in BatchIds
  PROVE  /\ b \in Nat \ {0} /\ FirstOf(b) \in Nat \ {0} /\ LastOf(b) \in Nat
         /\ FirstOf(b) <= LastOf(b) /\ LastOf(b) <= Len(scanned) /\ LastOf(b) <= b * BatchPages
<1> DEFINE n == Len(scanned)
           K == (n + BatchPages - 1) \div BatchPages
<1>1. n \in Nat /\ BatchPages \in Nat \ {0}
  BY PipelineAssumption, LenProperties
<1>2. b \in 1..K
  BY DEF BatchIds, Batches, PlanBatches
<1>3. K \in Nat /\ K * BatchPages <= n + BatchPages - 1
  BY <1>1
<1>4. b \in Nat \ {0} /\ b <= K
  BY <1>2, <1>3
<1>5. b * BatchPages <= K * BatchPages
  BY <1>1, <1>3, <1>4
<1>6. b * BatchPages = (b - 1) * BatchPages + BatchPages /\ (b - 1) * BatchPages \in Nat
  BY <1>1, <1>4
<1> HIDE DEF n, K
<1>7. (b - 1) * BatchPages + 1 <= n
  <2>1. (b - 1) * BatchPages + BatchPages <= n + BatchPages - 1
    BY <1>3, <1>1, <1>4, <1>5, <1>6
  <2> QED
    BY <1>1, <1>6, <2>1
<1> QED
  BY <1>1, <1>4, <1>6, <1>7 DEF FirstOf, LastOf, n

LEMMA BatchPagesAre ==
  ASSUME scanned \in Seq(Pages), NEW b \in BatchIds
  PROVE  ToSet(Batches[b]) = {scanned[i] : i \in FirstOf(b)..LastOf(b)}
<1>1. /\ FirstOf(b) \in Nat \ {0} /\ LastOf(b) \in Nat /\ FirstOf(b) <= LastOf(b)
      /\ LastOf(b) <= Len(scanned) /\ Len(scanned) \in Nat
  BY BatchBounds, LenProperties
<1>2. Batches[b] = SubSeq(scanned, FirstOf(b), LastOf(b))
  BY DEF BatchIds, Batches, PlanBatches, FirstOf, LastOf
<1>3. \A i \in FirstOf(b)..LastOf(b) : scanned[i] \in Pages
  BY <1>1, LenProperties
<1> DEFINE sub == SubSeq(scanned, FirstOf(b), LastOf(b))
<1>4. /\ sub \in Seq(Pages) /\ Len(sub) = LastOf(b) - FirstOf(b) + 1
      /\ \A i \in 1..(LastOf(b) - FirstOf(b) + 1) : sub[i] = scanned[FirstOf(b) + i - 1]
  BY <1>1, <1>3, SubSeqProperties
<1>5. DOMAIN sub = 1..(LastOf(b) - FirstOf(b) + 1)
  BY <1>4, LenProperties
<1>6. \A i \in FirstOf(b)..LastOf(b) :
        /\ i - FirstOf(b) + 1 \in DOMAIN sub
        /\ sub[i - FirstOf(b) + 1] = scanned[i]
  <2> TAKE i \in FirstOf(b)..LastOf(b)
  <2>1. i - FirstOf(b) + 1 \in 1..(LastOf(b) - FirstOf(b) + 1)
    BY <1>1
  <2>2. FirstOf(b) + (i - FirstOf(b) + 1) - 1 = i
    BY <1>1
  <2>3. sub[i - FirstOf(b) + 1] = scanned[FirstOf(b) + (i - FirstOf(b) + 1) - 1]
    BY <1>4, <2>1
  <2> QED
    BY <1>5, <2>1, <2>2, <2>3
<1>7. \A i \in DOMAIN sub : FirstOf(b) + i - 1 \in FirstOf(b)..LastOf(b)
                            /\ sub[i] = scanned[FirstOf(b) + i - 1]
  BY <1>1, <1>4, <1>5
<1>8. ToSet(Batches[b]) = {sub[i] : i \in DOMAIN sub}
  BY <1>2 DEF ToSet
<1> HIDE DEF sub
<1>9. \A x \in ToSet(Batches[b]) : \E i \in FirstOf(b)..LastOf(b) : x = scanned[i]
  <2> TAKE x \in ToSet(Batches[b])
  <2>1. PICK i \in DOMAIN sub : x = sub[i]
    BY <1>8
  <2>2. FirstOf(b) + i - 1 \in FirstOf(b)..LastOf(b) /\ x = scanned[FirstOf(b) + i - 1]
    BY <1>7, <2>1
  <2> QED
    BY <2>2
<1>10. \A i \in FirstOf(b)..LastOf(b) : scanned[i] \in ToSet(Batches[b])
  BY <1>6, <1>8
<1> QED
  BY <1>9, <1>10

\* plan_batches cuts the list: each page is in a batch, and in one only.
LEMMA BatchesPartition ==
  ASSUME scanned \in Seq(Pages), \A i, k \in DOMAIN scanned : i < k => scanned[i] < scanned[k]
  PROVE  /\ ToSet(scanned) = UNION {ToSet(Batches[b]) : b \in BatchIds}
         /\ \A b, c \in BatchIds : b # c => ToSet(Batches[b]) \cap ToSet(Batches[c]) = {}
<1> DEFINE n == Len(scanned)
           K == (n + BatchPages - 1) \div BatchPages
<1>1. /\ n \in Nat /\ BatchPages \in Nat \ {0} /\ DOMAIN scanned = 1..n
      /\ \A i \in 1..n : scanned[i] \in Nat
  BY PipelineAssumption, LenProperties DEF Pages
<1>2. BatchIds = 1..K
  BY DEF BatchIds, Batches, PlanBatches
<1>3. K \in Nat /\ n + BatchPages - 1 < K * BatchPages + BatchPages
  BY <1>1
<1>4. ASSUME NEW i \in 1..n
      PROVE  \E b \in BatchIds : i \in FirstOf(b)..LastOf(b)
  <2> DEFINE q == (i - 1) \div BatchPages
             b == q + 1
  <2>1. /\ q \in Nat /\ q * BatchPages <= i - 1 /\ i - 1 < q * BatchPages + BatchPages
        /\ q * BatchPages \in Nat
    BY <1>1
  <2>2. b <= K
    <3>1. q * BatchPages < K * BatchPages
      BY <1>1, <1>3, <2>1
    <3> QED
      BY <1>1, <1>3, <2>1, <3>1
  <2>3. b \in BatchIds
    BY <1>2, <1>3, <2>1, <2>2
  <2>4. (b - 1) * BatchPages = q * BatchPages /\ b * BatchPages = q * BatchPages + BatchPages
    BY <1>1, <2>1
  <2> HIDE DEF q
  <2>5. i \in FirstOf(b)..LastOf(b)
    BY <1>1, <2>1, <2>4 DEF FirstOf, LastOf
  <2> QED
    BY <2>3, <2>5
<1>5. ASSUME NEW b \in BatchIds, NEW c \in BatchIds, b < c
      PROVE  ToSet(Batches[b]) \cap ToSet(Batches[c]) = {}
  <2>1. /\ b \in Nat /\ c \in Nat /\ LastOf(b) <= b * BatchPages /\ LastOf(b) \in Nat
        /\ FirstOf(b) \in Nat \ {0} /\ FirstOf(c) \in Nat /\ LastOf(b) <= n /\ LastOf(c) <= n
        /\ LastOf(c) \in Nat /\ FirstOf(c) \in Nat \ {0}
    BY BatchBounds
  <2>2. LastOf(b) < FirstOf(c)
    <3>1. b * BatchPages <= (c - 1) * BatchPages
      BY <1>1, <1>5, <2>1
    <3>2. b * BatchPages \in Nat /\ (c - 1) * BatchPages \in Int
      BY <1>1, <2>1
    <3> QED
      BY <2>1, <3>1, <3>2 DEF FirstOf
  <2>3. \A i \in FirstOf(b)..LastOf(b), k \in FirstOf(c)..LastOf(c) :
          i \in 1..n /\ k \in 1..n /\ i < k
    BY <1>1, <2>1, <2>2
  <2>4. \A i \in FirstOf(b)..LastOf(b), k \in FirstOf(c)..LastOf(c) : scanned[i] # scanned[k]
    BY <1>1, <2>3
  <2> QED
    BY <2>4, BatchPagesAre
<1>6. \A b \in BatchIds : ToSet(Batches[b]) \subseteq ToSet(scanned)
  <2> TAKE b \in BatchIds
  <2>1. \A i \in FirstOf(b)..LastOf(b) : i \in DOMAIN scanned
    BY <1>1, BatchBounds
  <2>2. ToSet(Batches[b]) = {scanned[i] : i \in FirstOf(b)..LastOf(b)}
    BY BatchPagesAre
  <2>3. ToSet(scanned) = {scanned[i] : i \in DOMAIN scanned}
    BY DEF ToSet
  <2> QED
    BY <2>1, <2>2, <2>3
<1>7. ToSet(scanned) \subseteq UNION {ToSet(Batches[b]) : b \in BatchIds}
  BY <1>1, <1>4, BatchPagesAre DEF ToSet
<1>8. \A b, c \in BatchIds : b # c => b < c \/ c < b
  BY <1>2, <1>3
<1> QED
  BY <1>5, <1>6, <1>7, <1>8
-----------------------------------------------------------------------------
(* What the steps do to the lines.                                         *)

\* A text page puts its lines on the record, and each of them among the
\* blocks or the signatures.
LEMMA PageReads ==
  ASSUME TypeOK, TextPage \/ TablePage
  PROVE  /\ \E L \in SUBSET LinesOf(Roles) :
              /\ extracted' = extracted \cup L
              /\ blocks \subseteq blocks' /\ blocks' \subseteq blocks \cup L
              /\ signed \subseteq signed' /\ signed' \subseteq signed \cup L
              /\ L \subseteq blocks' \cup signed'
         /\ signed' \subseteq LinesOf({"sign", "label"}) /\ rejected' \in BOOLEAN
         /\ pc = "walk" /\ page' = page + 1 /\ page' \in 1..(NumPages + 1)
         /\ UNCHANGED <<pc, vision, scanned, calls, degraded, warned, report>>
<1>1. PICK roles \in Layouts : ReadPage(roles)
  BY DEF TextPage, TablePage
<1>2. /\ pc = "walk" /\ page' = page + 1 /\ page <= NumPages /\ rejected' \in BOOLEAN
      /\ UNCHANGED <<pc, vision, scanned, calls, degraded, warned, report>>
  BY DEF TextPage, TablePage, NextPage, TypeOK
<1>3. page \in Pages /\ page' \in 1..(NumPages + 1) /\ roles \subseteq Roles
  BY <1>2, PipelineAssumption DEF TypeOK, Pages
<1> DEFINE L == Line(page, roles)
<1>4. L \subseteq LinesOf(Roles)
  BY <1>3 DEF Line, LinesOf
<1>5. /\ HeaderLines(page, roles) \subseteq L
      /\ SignatureLines(page, roles) \subseteq L \cap LinesOf({"sign", "label"})
      /\ BodyLines(page, roles) \subseteq L
      /\ L \subseteq HeaderLines(page, roles) \cup BodyLines(page, roles)
                     \cup SignatureLines(page, roles)
  BY <1>3 DEF HeaderLines, SignatureLines, BodyLines, Line, LinesOf
<1>6. /\ extracted' = extracted \cup L
      /\ blocks' = blocks \cup HeaderLines(page, roles) \cup BodyLines(page, roles)
      /\ signed' = signed \cup SignatureLines(page, roles)
  BY <1>1 DEF ReadPage
<1> HIDE DEF L
<1>7. signed' \subseteq LinesOf({"sign", "label"})
  BY <1>5, <1>6 DEF TypeOK
<1>8. /\ blocks \subseteq blocks' /\ blocks' \subseteq blocks \cup L
      /\ signed \subseteq signed' /\ signed' \subseteq signed \cup L
      /\ L \subseteq blocks' \cup signed'
  BY <1>5, <1>6
<1> QED
  BY <1>2, <1>3, <1>4, <1>6, <1>7, <1>8

LEMMA PageScanned ==
  ASSUME TypeOK, InOrder, ScannedPage
  PROVE  /\ pc = "walk" /\ page \in Pages
         /\ page' = page + 1 /\ page' \in 1..(NumPages + 1)
         /\ scanned' \in Seq(Pages) /\ InOrder'
         /\ UNCHANGED <<pc, vision, extracted, blocks, signed, rejected, calls, degraded,
                        warned, report>>
<1>1. /\ pc = "walk" /\ page' = page + 1 /\ page <= NumPages /\ scanned' = Append(scanned, page)
      /\ UNCHANGED <<pc, vision, extracted, blocks, signed, rejected, calls, degraded, warned,
                     report>>
  BY DEF ScannedPage, NextPage
<1>2. page \in Pages /\ page \in Nat /\ page' \in 1..(NumPages + 1) /\ scanned \in Seq(Pages)
  BY <1>1, PipelineAssumption DEF TypeOK, Pages
<1>3. /\ Len(scanned) \in Nat /\ DOMAIN scanned = 1..Len(scanned)
      /\ \A i \in 1..Len(scanned) : scanned[i] \in Nat
  <2>1. \A p \in Pages : p \in Nat
    BY PipelineAssumption DEF Pages
  <2> QED
    BY <1>2, <2>1, LenProperties
<1>4. /\ scanned' \in Seq(Pages) /\ DOMAIN scanned' = 1..(Len(scanned) + 1)
      /\ scanned'[Len(scanned) + 1] = page
      /\ \A i \in 1..Len(scanned) : scanned'[i] = scanned[i]
  <2>1. /\ scanned' \in Seq(Pages) /\ Len(scanned') = Len(scanned) + 1
        /\ \A i \in 1..Len(scanned) : scanned'[i] = scanned[i]
        /\ scanned'[Len(scanned) + 1] = page
    BY <1>1, <1>2, AppendProperties
  <2> QED
    BY <2>1, LenProperties
<1>5. \A i \in 1..Len(scanned) : scanned[i] < page
  BY <1>3 DEF InOrder
<1>6. \A i, k \in 1..Len(scanned) : i < k => scanned[i] < scanned[k]
  BY <1>3 DEF InOrder
<1>7. InOrder'
  <2>1. \A i \in DOMAIN scanned' : i \in 1..Len(scanned) \/ i = Len(scanned) + 1
    BY <1>3, <1>4
  <2>2. \A i \in DOMAIN scanned' : scanned'[i] < page'
    BY <1>1, <1>2, <1>3, <1>4, <1>5, <2>1
  <2>3. \A i, k \in DOMAIN scanned' : i < k => scanned'[i] < scanned'[k]
    <3> SUFFICES ASSUME NEW i \in DOMAIN scanned', NEW k \in DOMAIN scanned', i < k
                 PROVE  scanned'[i] < scanned'[k]
      OBVIOUS
    <3>1. i \in 1..Len(scanned) /\ (k \in 1..Len(scanned) \/ k = Len(scanned) + 1)
      BY <1>3, <1>4, <2>1
    <3> QED
      BY <1>4, <1>5, <1>6, <3>1
  <2> QED
    BY <2>2, <2>3 DEF InOrder
<1> QED
  BY <1>1, <1>2, <1>4, <1>7

\* The batches account for every scanned page: transcribed or missing.
LEMMA BatchAccounted ==
  ASSUME NEW b \in BatchIds
  PROVE  /\ MissingPages(b) \subseteq ToSet(Batches[b])
         /\ {l[1] : l \in VisionBlocks(b)} = ToSet(Batches[b]) \ MissingPages(b)
         /\ \A l \in VisionBlocks(b) : l = <<l[1], l[2]>> /\ l[2] \in {"vision", "image"}
<1>1. ReturnedPages(b) \subseteq ToSet(Batches[b])
  BY DEF ReturnedPages
<1>2. CASE answer[b].kind = "blocks"
  <2> DEFINE kind == IF answer[b].text THEN "vision" ELSE "image"
  <2>1. VisionBlocks(b) = {<<p, kind>> : p \in ReturnedPages(b)} /\ kind \in {"vision", "image"}
    BY <1>2 DEF VisionBlocks
  <2> HIDE DEF kind
  <2>2. {l[1] : l \in VisionBlocks(b)} = ReturnedPages(b)
    <3>1. \A l \in VisionBlocks(b) : l[1] \in ReturnedPages(b)
      BY <2>1
    <3>2. \A p \in ReturnedPages(b) : <<p, kind>> \in VisionBlocks(b) /\ <<p, kind>>[1] = p
      BY <2>1
    <3> QED
      BY <3>1, <3>2
  <2> QED
    BY <1>1, <1>2, <2>1, <2>2 DEF MissingPages
<1>3. CASE answer[b].kind # "blocks"
  BY <1>3 DEF MissingPages, VisionBlocks
<1> QED
  BY <1>2, <1>3

\* The vision stage keeps the scanned pages whole.
LEMMA CollectAccounts ==
  ASSUME TypeOK, InOrder, Untranscribed, Collect
  PROVE  /\ degraded' \in Seq(Pages) /\ warned' \subseteq Pages
         /\ blocks' \subseteq LinesOf(Roles \cup {"vision", "image"})
         /\ \A l \in blocks' : l[2] \in Roles => l \in blocks
         /\ blocks \subseteq blocks'
         /\ ToSet(scanned) = Transcribed' \cup ToSet(degraded')
         /\ Transcribed' \cap ToSet(degraded') = {}
         /\ Cardinality(ToSet(degraded')) = Len(degraded')
         /\ ToSet(degraded') \subseteq warned'
<1> DEFINE missing == UNION {MissingPages(b) : b \in BatchIds}
           returned == UNION {VisionBlocks(b) : b \in BatchIds}
<1>1. /\ pc = "vision" /\ warned' = warned \cup missing /\ blocks' = blocks \cup returned
      /\ \E list \in Ascending(missing) : degraded' = degraded \o list
  BY DEF Collect
<1>2. blocks \subseteq LinesOf(Roles) /\ degraded = <<>>
  BY <1>1 DEF Untranscribed, Waiting
<1>3. /\ ToSet(scanned) = UNION {ToSet(Batches[b]) : b \in BatchIds}
      /\ \A b, c \in BatchIds : b # c => ToSet(Batches[b]) \cap ToSet(Batches[c]) = {}
  BY BatchesPartition DEF TypeOK, InOrder
<1>4. ToSet(scanned) \subseteq Pages
  BY LenProperties DEF TypeOK, ToSet
<1>5. \A b \in BatchIds :
        /\ MissingPages(b) \subseteq ToSet(Batches[b])
        /\ {l[1] : l \in VisionBlocks(b)} = ToSet(Batches[b]) \ MissingPages(b)
        /\ \A l \in VisionBlocks(b) : l = <<l[1], l[2]>> /\ l[2] \in {"vision", "image"}
  BY BatchAccounted
<1>6. missing \subseteq Pages
  BY <1>3, <1>4, <1>5
<1>7. /\ degraded' \in Seq(Pages) /\ ToSet(degraded') = missing
      /\ Cardinality(ToSet(degraded')) = Len(degraded')
  <2>1. PICK list \in Ascending(missing) : degraded' = <<>> \o list
    BY <1>1, <1>2
  <2>2. /\ list \in Seq(Pages) /\ ToSet(list) = missing
        /\ Cardinality(ToSet(list)) = Len(list)
    BY <1>6, AscendingLists
  <2>3. degraded' = list
    BY <2>1, <2>2, ConcatEmptySeq
  <2> QED
    BY <2>2, <2>3
<1>8. \A l \in returned : /\ l = <<l[1], l[2]>> /\ l[2] \in {"vision", "image"}
                          /\ l[1] \in ToSet(scanned)
  <2>1. ASSUME NEW b \in BatchIds, NEW l \in VisionBlocks(b)
        PROVE  l[1] \in ToSet(Batches[b])
    BY <1>5
  <2> QED
    BY <1>3, <1>5, <2>1
<1>9. {"vision", "image"} \cap Roles = {}
  BY DEF Roles
<1>10. Transcribed' = {l[1] : l \in returned}
  <2>1. \A l \in blocks : l[2] \in Roles
    BY <1>2 DEF LinesOf
  <2>2. {l \in blocks' : l[2] \in {"vision", "image"}} = returned
    BY <1>1, <1>8, <1>9, <2>1
  <2> QED
    BY <2>2 DEF Transcribed
<1>11. Transcribed' = UNION {ToSet(Batches[b]) \ MissingPages(b) : b \in BatchIds}
  <2>1. {l[1] : l \in returned} = UNION {{l[1] : l \in VisionBlocks(b)} : b \in BatchIds}
    OBVIOUS
  <2>2. UNION {{l[1] : l \in VisionBlocks(b)} : b \in BatchIds}
          = UNION {ToSet(Batches[b]) \ MissingPages(b) : b \in BatchIds}
    BY <1>5
  <2> QED
    BY <1>10, <2>1, <2>2
<1>12. Transcribed' \cap missing = {}
  <2> SUFFICES ASSUME NEW b \in BatchIds, NEW c \in BatchIds,
                      NEW p \in ToSet(Batches[b]) \ MissingPages(b), p \in MissingPages(c)
               PROVE  FALSE
    BY <1>11
  <2> QED
    BY <1>3, <1>5
<1>13. ToSet(scanned) = Transcribed' \cup missing
  BY <1>3, <1>5, <1>11
<1>14. blocks' \subseteq LinesOf(Roles \cup {"vision", "image"})
  <2>1. returned \subseteq LinesOf({"vision", "image"})
    BY <1>4, <1>8 DEF LinesOf
  <2> QED
    BY <1>1, <1>2, <2>1 DEF LinesOf
<1>15. \A l \in blocks' : l[2] \in Roles => l \in blocks
  BY <1>1, <1>8, <1>9
<1> HIDE DEF missing
<1> QED
  BY <1>1, <1>6, <1>7, <1>12, <1>13, <1>14, <1>15 DEF TypeOK
-----------------------------------------------------------------------------
(* The assembly leaves out margins, labels and superseded signatures.       *)

LEMMA LinesFinite == ASSUME NEW S \in SUBSET LinesOf(Roles \cup {"vision", "image"})
                     PROVE  IsFiniteSet(S) /\ Cardinality(S) \in Nat
<1> DEFINE R == Roles \cup {"vision", "image"}
<1>1. R = {"head"} \cup {"body"} \cup {"cell"} \cup {"sign"} \cup {"label"}
            \cup {"margin"} \cup {"number"} \cup {"vision"} \cup {"image"}
  BY DEF Roles
<1>2. IsFiniteSet(R)
  BY <1>1, FS_Singleton, FS_Union
<1>3. IsFiniteSet(Pages)
  BY PagesFinite
<1> HIDE DEF R
<1>4. IsFiniteSet(Pages \X R)
  BY <1>2, <1>3, FS_Product
<1> QED
  BY <1>4, FS_Subset, FS_CardinalityType DEF LinesOf, R

LEMMA AssembleKeeps ==
  ASSUME TypeOK, LinesHeld, Assemble
  PROVE  \A l \in extracted \ blocks' : LeftOut(l)
<1> SUFFICES ASSUME NEW l \in extracted \ blocks' PROVE LeftOut(l)
  OBVIOUS
<1>1. /\ blocks' = (blocks \cup KeptSignature) \ Stripped(blocks)
      /\ extracted \subseteq blocks \cup signed
      /\ \A m \in blocks : m[2] \in Roles => m \in extracted
      /\ signed \subseteq extracted
  BY DEF Assemble, LinesHeld
<1>2. CASE l \in Stripped(blocks) /\ l[2] # "number"
  <2> DEFINE margins == {m \in blocks : m[2] = "margin"}
  <2>1. l \in margins /\ Cardinality(margins) >= 2
    BY <1>2 DEF Stripped
  <2>2. margins \subseteq LinesOf(Roles \cup {"vision", "image"})
    BY DEF TypeOK
  <2>3. IsFiniteSet(margins) /\ Cardinality(margins) \in Nat
    BY <2>2, LinesFinite
  <2>4. Cardinality(margins \ {l}) = Cardinality(margins) - 1
    BY <2>1, <2>3, FS_RemoveElement
  <2>5. margins \ {l} # {}
    BY <2>1, <2>3, <2>4, FS_EmptySet
  <2>6. PICK m \in margins : m # l
    BY <2>5
  <2>7. m = <<m[1], m[2]>> /\ l = <<l[1], l[2]>>
    BY <2>1, <2>2 DEF LinesOf
  <2>8. m[2] = "margin" /\ l[2] = "margin" /\ m \in extracted
    BY <1>1, <2>1 DEF Roles
  <2> QED
    BY <2>6, <2>7, <2>8 DEF LeftOut
<1>3. CASE l \notin Stripped(blocks) /\ l[2] # "label"
  <2>1. l \in signed /\ l \notin KeptSignature
    BY <1>1, <1>3
  <2>2. l[2] = "sign"
    BY <1>3, <2>1 DEF TypeOK, LinesOf
  <2>3. PICK m \in signed : ~(m[1] <= l[1])
    BY <2>1, <2>2 DEF KeptSignature
  <2>4. m[2] \in {"sign", "label"} /\ m[1] \in Nat /\ l[1] \in Nat
    <3>1. l \in LinesOf({"sign", "label"}) /\ m \in LinesOf({"sign", "label"})
      BY <2>1 DEF TypeOK
    <3>2. \A p \in Pages : p \in Nat
      BY PipelineAssumption DEF Pages
    <3> QED
      BY <3>1, <3>2 DEF LinesOf
  <2> QED
    BY <1>1, <2>2, <2>3, <2>4 DEF LeftOut
<1>4. CASE l[2] \in {"number", "label"}
  BY <1>4 DEF LeftOut
<1> QED
  BY <1>2, <1>3, <1>4

\* The assembly touches no transcription and adds signatures only.
LEMMA AssembleAdds ==
  ASSUME TypeOK, LinesHeld, Assemble
  PROVE  /\ blocks' \subseteq LinesOf(Roles \cup {"vision", "image"})
         /\ \A l \in blocks' : l[2] \in Roles => l \in extracted
         /\ Transcribed' = Transcribed
<1>1. blocks' = (blocks \cup KeptSignature) \ Stripped(blocks)
  BY DEF Assemble
<1>2. /\ KeptSignature \subseteq signed /\ signed \subseteq LinesOf({"sign", "label"})
      /\ signed \subseteq extracted
  BY DEF KeptSignature, TypeOK, LinesHeld
<1>3. \A l \in KeptSignature : l[2] = "sign"
  BY DEF KeptSignature
<1>4. \A l \in Stripped(blocks) : l[2] \in {"margin", "number"}
  BY DEF Stripped
<1>5. blocks' \subseteq LinesOf(Roles \cup {"vision", "image"})
  BY <1>1, <1>2 DEF TypeOK, LinesOf, Roles
<1>6. {l \in blocks' : l[2] \in {"vision", "image"}} = {l \in blocks : l[2] \in {"vision", "image"}}
  BY <1>1, <1>3, <1>4
<1> QED
  BY <1>1, <1>2, <1>5, <1>6 DEF LinesHeld, Transcribed
-----------------------------------------------------------------------------
(* The verdict.                                                            *)

LEMMA VerdictTyped ==
  ASSUME NEW drift \in BOOLEAN, NEW lowAverage \in BOOLEAN
  PROVE  Verdict(drift, lowAverage) \in {"completed", "completed_with_warnings", "failed"}
BY DEF Verdict, AfterConfidence, AfterDegraded, AfterCoverage, AfterLedger, AfterTables

\* A warning or a failure, once due, stays: no later stage of the verdict
\* turns it into plain success.
LEMMA VerdictHonest ==
  ASSUME TypeOK, NEW drift \in BOOLEAN, NEW lowAverage \in BOOLEAN, drift => HasLedger,
         Verdict(drift, lowAverage) = "completed"
  PROVE  /\ degraded = <<>> /\ ~rejected /\ ~drift
         /\ Chars(blocks) > 0 /\ Covers(CoveragePct) /\ Covers(WarnPct)
<1> DEFINE tables == AfterTables
           ledger == AfterLedger(tables, drift)
           coverage == AfterCoverage(ledger)
           pages == AfterDegraded(coverage)
<1>1. AfterConfidence(pages, lowAverage) = "completed"
  BY DEF Verdict
<1>2. pages = "completed" /\ ~LowConfidence(lowAverage)
  BY <1>1 DEF AfterConfidence
<1>3. degraded = <<>> /\ coverage = "completed"
  BY <1>2 DEF AfterDegraded
<1>4. Chars(blocks) # 0 /\ Covers(CoveragePct) /\ ledger = "completed"
  BY <1>3 DEF AfterCoverage
<1>5. ~drift /\ tables = "completed"
  BY <1>4 DEF AfterLedger
<1>6. ~rejected
  BY <1>5 DEF AfterTables
<1>7. Covers(WarnPct)
  BY <1>2 DEF LowConfidence
<1>8. Chars(blocks) \in Nat
  <2>1. {l \in blocks : l[2] # "image"} \subseteq LinesOf(Roles \cup {"vision", "image"})
    BY DEF TypeOK
  <2> QED
    BY <2>1, LinesFinite DEF Chars
<1> QED
  BY <1>3, <1>4, <1>5, <1>6, <1>7, <1>8
-----------------------------------------------------------------------------
(* Every step keeps the invariant.                                         *)

Statuses == {"completed", "completed_with_warnings", "failed"}

\* Steps that only move the conversion on, or its calls.
Control ==
  /\ UNCHANGED <<vision, page, work, degraded, warned, report>>
  /\ failure' \in {"none", "password", "auth", "call", "stage"}
  /\ \/ pc' = pc
     \/ pc = "ingest" /\ pc' = "walk"
     \/ pc = "walk" /\ pc' = "vision"
     \/ pc = "walk" /\ scanned = <<>> /\ pc' = "assemble"
     \/ pc = "vision" /\ pc' = "closing"
     \/ pc' = "raised"

LEMMA StepKinds ==
  ASSUME TypeOK, [Next]_vars
  PROVE  \/ Control \/ TextPage \/ TablePage \/ ScannedPage \/ NoVision \/ Collect
         \/ Assemble \/ Deliver
<1> USE DEF Control, work, calls
<1>1. failure \in {"none", "password", "auth", "call", "stage"}
  BY DEF TypeOK
<1>2. CASE Open \/ Refuse \/ NothingScanned \/ PlanCalls \/ Abort \/ Propagate \/ StageRaises
  BY <1>1, <1>2 DEF Open, Refuse, NothingScanned, PlanCalls, Abort, Propagate, StageRaises
<1>3. ASSUME NEW b \in BatchIds, StartCall(b) \/ CallReturns(b) \/ CallRaises(b)
      PROVE  Control
  BY <1>1, <1>3 DEF StartCall, CallReturns, CallRaises
<1>4. CASE Finished \/ UNCHANGED vars
  BY <1>1, <1>4 DEF Finished, vars
<1> QED
  BY <1>2, <1>3, <1>4 DEF Next, Step, Provider

LEMMA CallsStep ==
  ASSUME TypeOK, CallsJoined, [Next]_vars
  PROVE  CallsJoined'
<1> USE DEF CallsJoined, NoCallOutlives, Reading, Waiting, work, calls
<1>1. call = <<>> => Running = {}
  BY DEF Running
<1>2. pc \in {"ingest", "walk", "vision", "closing", "assemble", "deliver", "done", "raised"}
  BY DEF TypeOK
<1>3. UNCHANGED call => Running' = Running
  BY DEF Running
<1>4. UNCHANGED scanned => BatchIds' = BatchIds
  BY DEF BatchIds, Batches, PlanBatches
<1>5. CASE Open \/ Refuse \/ NothingScanned \/ NoVision \/ StageRaises \/ Propagate
           \/ Assemble \/ Deliver \/ Finished \/ UNCHANGED vars
  BY <1>1, <1>2, <1>3, <1>4, <1>5
     DEF Open, Refuse, NothingScanned, NoVision, StageRaises, Propagate, Assemble, Deliver,
         Finished, vars
<1>6. CASE TextPage \/ TablePage \/ ScannedPage
  BY <1>6 DEF TextPage, TablePage, ScannedPage, NextPage
<1>7. CASE PlanCalls
  BY <1>4, <1>7 DEF PlanCalls
<1>8. CASE Abort
  BY <1>4, <1>8 DEF Abort
<1>9. CASE Collect
  <2>1. Running = {}
    BY <1>9 DEF Collect, Running
  <2> QED
    BY <1>3, <1>9, <2>1 DEF Collect
<1>10. ASSUME NEW b \in BatchIds, StartCall(b) \/ CallReturns(b) \/ CallRaises(b)
       PROVE  CallsJoined'
  <2>1. /\ pc \in Waiting /\ pc' = pc /\ UNCHANGED scanned
        /\ DOMAIN call' = DOMAIN call
    BY <1>10 DEF StartCall, CallReturns, CallRaises
  <2> QED
    BY <1>4, <2>1
<1> QED
  BY <1>5, <1>6, <1>7, <1>8, <1>9, <1>10 DEF Next, Step, Provider

LEMMA ControlKeeps ==
  ASSUME PipelineInv, Control
  PROVE  /\ TypeOK' /\ InOrder' /\ LinesHeld' /\ Untranscribed' /\ ScannedAccounted'
         /\ TextKept' /\ HonestStatus'
<1> USE DEF PipelineInv, Reading, Waiting
<1>1. /\ UNCHANGED <<vision, page, extracted, blocks, signed, rejected, scanned, degraded,
                     warned, report>>
      /\ failure' \in {"none", "password", "auth", "call", "stage"}
  BY DEF Control, work
<1>2. pc' = pc \/ pc' \in {"walk", "vision", "assemble", "closing", "raised"}
  BY DEF Control
<1>3. TypeOK' /\ InOrder'
  BY <1>1, <1>2 DEF TypeOK, InOrder
<1>4. LinesHeld' /\ Untranscribed'
  BY <1>1, <1>2 DEF Control, LinesHeld, Untranscribed
<1>5. TextKept' /\ HonestStatus'
  BY <1>1, <1>2 DEF TextKept, LeftOut, HonestStatus, Chars, Covers
<1>6. ScannedAccounted'
  <2>1. Transcribed' = Transcribed
    BY <1>1 DEF Transcribed
  <2>2. CASE pc' = pc \/ pc' # "assemble"
    BY <1>1, <1>2, <2>1, <2>2 DEF ScannedAccounted
  <2>3. CASE pc = "walk" /\ scanned = <<>> /\ pc' = "assemble"
    <3>1. ToSet(scanned) = {} /\ ToSet(degraded) = {} /\ Len(degraded) = 0
      BY <2>3 DEF Untranscribed, ToSet
    <3>2. Transcribed = {}
      BY <2>3 DEF Untranscribed, Transcribed, LinesOf, Roles
    <3> QED
      BY <1>1, <2>1, <3>1, <3>2, FS_EmptySet DEF ScannedAccounted
  <2> QED
    BY <2>2, <2>3 DEF Control
<1> QED
  BY <1>3, <1>4, <1>5, <1>6

LEMMA PagesKeep ==
  ASSUME PipelineInv, TextPage \/ TablePage \/ ScannedPage
  PROVE  /\ TypeOK' /\ InOrder' /\ LinesHeld' /\ Untranscribed' /\ ScannedAccounted'
         /\ TextKept' /\ HonestStatus'
<1> USE DEF PipelineInv
<1>1. pc = "walk" /\ pc' = "walk"
  BY PageReads, PageScanned
<1>2. ScannedAccounted' /\ TextKept' /\ HonestStatus'
  BY <1>1 DEF ScannedAccounted, TextKept, HonestStatus
<1>3. CASE TextPage \/ TablePage
  <2>1. PICK L \in SUBSET LinesOf(Roles) :
          /\ extracted' = extracted \cup L
          /\ blocks \subseteq blocks' /\ blocks' \subseteq blocks \cup L
          /\ signed \subseteq signed' /\ signed' \subseteq signed \cup L
          /\ L \subseteq blocks' \cup signed'
    BY <1>3, PageReads
  <2>2. /\ signed' \subseteq LinesOf({"sign", "label"}) /\ rejected' \in BOOLEAN
        /\ page' = page + 1 /\ page' \in 1..(NumPages + 1)
        /\ UNCHANGED <<vision, scanned, calls, degraded, warned, report>>
    BY <1>3, PageReads
  <2>3. LinesOf(Roles) \subseteq LinesOf(Roles \cup {"vision", "image"})
    BY DEF LinesOf
  <2>4. TypeOK'
    BY <1>1, <2>1, <2>2, <2>3 DEF TypeOK, calls
  <2>5. InOrder'
    <3>1. page \in Nat
      BY PipelineAssumption DEF TypeOK
    <3>2. \A i \in DOMAIN scanned : scanned[i] \in Nat
      <4>1. \A p \in Pages : p \in Nat
        BY PipelineAssumption DEF Pages
      <4> QED
        BY <4>1, LenProperties DEF TypeOK
    <3> QED
      BY <2>2, <3>1, <3>2 DEF InOrder
  <2>6. LinesHeld'
    BY <1>1, <2>1 DEF LinesHeld, Reading
  <2>7. Untranscribed'
    BY <1>1, <2>1, <2>2 DEF Untranscribed, Reading
  <2> QED
    BY <1>2, <2>4, <2>5, <2>6, <2>7
<1>4. CASE ScannedPage
  <2>1. /\ page' \in 1..(NumPages + 1) /\ scanned' \in Seq(Pages) /\ InOrder'
        /\ UNCHANGED <<pc, vision, extracted, blocks, signed, rejected, calls, degraded,
                       warned, report>>
    BY <1>4, PageScanned
  <2>2. TypeOK'
    BY <2>1 DEF TypeOK, calls
  <2> QED
    BY <1>1, <1>2, <2>1, <2>2 DEF LinesHeld, Untranscribed
<1> QED
  BY <1>3, <1>4
LEMMA NoVisionKeeps ==
  ASSUME PipelineInv, NoVision
  PROVE  /\ TypeOK' /\ InOrder' /\ LinesHeld' /\ Untranscribed' /\ ScannedAccounted'
         /\ TextKept' /\ HonestStatus'
<1> USE DEF PipelineInv
<1>1. /\ pc = "walk" /\ pc' = "assemble"
      /\ UNCHANGED <<vision, page, extracted, blocks, signed, rejected, scanned, failure, report>>
      /\ degraded' = <<>> \o scanned /\ warned' = warned \cup ToSet(scanned)
  BY DEF NoVision, work, calls, Untranscribed, Reading
<1>2. degraded' = scanned /\ scanned \in Seq(Pages)
  BY <1>1, ConcatEmptySeq DEF TypeOK
<1>3. ToSet(scanned) \subseteq Pages
  BY <1>2, LenProperties DEF ToSet
<1>4. TypeOK' /\ InOrder' /\ Untranscribed' /\ TextKept' /\ HonestStatus'
  BY <1>1, <1>2, <1>3
     DEF TypeOK, InOrder, Untranscribed, Reading, Waiting, TextKept, HonestStatus
<1>5. LinesHeld'
  BY <1>1 DEF LinesHeld, Reading
<1>6. Cardinality(ToSet(scanned)) = Len(scanned)
  BY <1>2, AscendingSize DEF InOrder
<1>7. Transcribed' = {}
  BY <1>1 DEF Untranscribed, Reading, Transcribed, LinesOf, Roles
<1>8. ScannedAccounted'
  BY <1>1, <1>2, <1>6, <1>7 DEF ScannedAccounted
<1> QED
  BY <1>4, <1>5, <1>8

LEMMA CollectKeeps ==
  ASSUME PipelineInv, Collect
  PROVE  /\ TypeOK' /\ InOrder' /\ LinesHeld' /\ Untranscribed' /\ ScannedAccounted'
         /\ TextKept' /\ HonestStatus'
<1> USE DEF PipelineInv
<1>1. /\ pc = "vision" /\ pc' = "assemble"
      /\ UNCHANGED <<vision, page, extracted, signed, rejected, scanned, failure, report>>
  BY DEF Collect, calls
<1>2. /\ degraded' \in Seq(Pages) /\ warned' \subseteq Pages
      /\ blocks' \subseteq LinesOf(Roles \cup {"vision", "image"})
      /\ \A l \in blocks' : l[2] \in Roles => l \in blocks
      /\ blocks \subseteq blocks'
      /\ ToSet(scanned) = Transcribed' \cup ToSet(degraded')
      /\ Transcribed' \cap ToSet(degraded') = {}
      /\ Cardinality(ToSet(degraded')) = Len(degraded')
      /\ ToSet(degraded') \subseteq warned'
  BY CollectAccounts
<1>3. TypeOK' /\ InOrder'
  BY <1>1, <1>2 DEF TypeOK, InOrder
<1>4. Untranscribed' /\ TextKept' /\ HonestStatus'
  BY <1>1 DEF Untranscribed, Reading, Waiting, TextKept, HonestStatus
<1>5. LinesHeld'
  BY <1>1, <1>2 DEF LinesHeld, Waiting
<1>6. ScannedAccounted'
  BY <1>1, <1>2 DEF ScannedAccounted
<1> QED
  BY <1>3, <1>4, <1>5, <1>6

LEMMA AssembledKeeps ==
  ASSUME PipelineInv, Assemble
  PROVE  /\ TypeOK' /\ InOrder' /\ LinesHeld' /\ Untranscribed' /\ ScannedAccounted'
         /\ TextKept' /\ HonestStatus'
<1> USE DEF PipelineInv
<1>1. /\ pc = "assemble" /\ pc' = "deliver"
      /\ UNCHANGED <<vision, page, extracted, signed, rejected, scanned, failure, degraded,
                     warned, report>>
  BY DEF Assemble, calls
<1>2. /\ blocks' \subseteq LinesOf(Roles \cup {"vision", "image"})
      /\ \A l \in blocks' : l[2] \in Roles => l \in extracted
      /\ Transcribed' = Transcribed
  BY AssembleAdds
<1>3. TypeOK' /\ InOrder'
  BY <1>1, <1>2 DEF TypeOK, InOrder
<1>4. Untranscribed' /\ HonestStatus'
  BY <1>1 DEF Untranscribed, Reading, Waiting, HonestStatus
<1>5. LinesHeld'
  BY <1>1, <1>2 DEF LinesHeld, Reading, Waiting
<1>6. TextKept'
  BY <1>1, AssembleKeeps DEF TextKept, LeftOut
<1>7. ScannedAccounted'
  BY <1>1, <1>2 DEF ScannedAccounted
<1> QED
  BY <1>3, <1>4, <1>5, <1>6, <1>7

LEMMA DeliverKeeps ==
  ASSUME PipelineInv, Deliver
  PROVE  /\ TypeOK' /\ InOrder' /\ LinesHeld' /\ Untranscribed' /\ ScannedAccounted'
         /\ TextKept' /\ HonestStatus'
<1> USE DEF PipelineInv
<1>1. /\ pc = "deliver" /\ pc' = "done"
      /\ UNCHANGED <<vision, page, extracted, blocks, signed, rejected, scanned, failure,
                     degraded, warned>>
  BY DEF Deliver, work, calls
<1>2. PICK drift \in BOOLEAN, lowAverage \in BOOLEAN :
        /\ drift => HasLedger
        /\ report' = [status |-> Verdict(drift, lowAverage), ledger |-> HasLedger, drift |-> drift]
  BY DEF Deliver
<1>3. report'.status = Verdict(drift, lowAverage) /\ report'.drift = drift
  BY <1>2
<1>4. TypeOK'
  BY <1>1, <1>3, VerdictTyped DEF TypeOK
<1>5. InOrder' /\ LinesHeld' /\ Untranscribed' /\ TextKept'
  BY <1>1 DEF InOrder, LinesHeld, Untranscribed, Reading, Waiting, TextKept, LeftOut
<1>6. ScannedAccounted'
  <2>1. Transcribed' = Transcribed
    BY <1>1 DEF Transcribed
  <2> QED
    BY <1>1, <2>1 DEF ScannedAccounted
<1>7. HonestStatus'
  <2> SUFFICES ASSUME Verdict(drift, lowAverage) = "completed"
               PROVE  /\ degraded' = <<>> /\ ~rejected' /\ ~report'.drift
                      /\ Chars(blocks') > 0 /\ (Covers(CoveragePct))' /\ (Covers(WarnPct))'
    BY <1>3 DEF HonestStatus, Chars
  <2>1. /\ degraded = <<>> /\ ~rejected /\ ~drift
        /\ Chars(blocks) > 0 /\ Covers(CoveragePct) /\ Covers(WarnPct)
    BY <1>2, VerdictHonest
  <2> QED
    BY <1>1, <1>3, <2>1 DEF Covers, Chars
<1> QED
  BY <1>4, <1>5, <1>6, <1>7

LEMMA PipelineStarts == Init => PipelineInv
<1> SUFFICES ASSUME Init PROVE PipelineInv
  OBVIOUS
<1>1. TypeOK
  <2>1. page \in 1..(NumPages + 1)
    BY PipelineAssumption DEF Init
  <2>2. report.status = "completed"
    BY DEF Init, NoReport
  <2>3. scanned \in Seq(Pages) /\ degraded \in Seq(Pages)
    BY EmptySeq DEF Init
  <2> QED
    BY <2>1, <2>2, <2>3 DEF Init, TypeOK
<1>2. InOrder /\ LinesHeld /\ Untranscribed
  BY DEF Init, InOrder, LinesHeld, Untranscribed
<1>3. ScannedAccounted /\ TextKept /\ HonestStatus
  BY DEF Init, ScannedAccounted, TextKept, HonestStatus
<1>4. CallsJoined
  BY DEF Init, CallsJoined, Reading, Waiting, NoCallOutlives, Running
<1> QED
  BY <1>1, <1>2, <1>3, <1>4 DEF PipelineInv

LEMMA PipelineInvariant == Spec => []PipelineInv
<1>1. PipelineInv /\ [Next]_vars => PipelineInv'
  <2> SUFFICES ASSUME PipelineInv, [Next]_vars PROVE PipelineInv'
    OBVIOUS
  <2>1. /\ TypeOK' /\ InOrder' /\ LinesHeld' /\ Untranscribed' /\ ScannedAccounted'
        /\ TextKept' /\ HonestStatus'
    <3>1. TypeOK
      BY DEF PipelineInv
    <3> QED
      BY <3>1, StepKinds, ControlKeeps, PagesKeep, NoVisionKeeps, CollectKeeps, AssembledKeeps,
         DeliverKeeps
  <2>2. CallsJoined'
    BY CallsStep DEF PipelineInv
  <2> QED
    BY <2>1, <2>2 DEF PipelineInv
<1> QED
  BY <1>1, PipelineStarts, PTL DEF Spec

\* Every variable of a conversion keeps its shape; degraded pages are pages
\* of the document (pipeline.py, convert_pdf).
THEOREM TypeCorrect == Spec => []TypeOK
<1>1. PipelineInv => TypeOK
  BY DEF PipelineInv
<1> QED
  BY <1>1, PipelineInvariant, PTL

\* Degrade, do not drop: each scanned page is transcribed, or degraded once
\* and named in a warning, however the calls answer and the batches are cut;
\* text goes only as a page number, a repeated margin, a label or a signature
\* before the last (pipeline.py, _run_scanned_vision and convert_pdf).
THEOREM NothingIsDropped == Spec => []NothingDropped
<1>1. PipelineInv => NothingDropped
  BY DEF PipelineInv, NothingDropped, TextIntact, TextKept
<1> QED
  BY <1>1, PipelineInvariant, PTL

\* Plain success is reported only of a document without degraded page,
\* rejected table or drift, and with enough of its text: for any thresholds
\* (pipeline.py, the last stage of convert_pdf).
THEOREM StatusIsHonest == Spec => []HonestStatus
<1>1. PipelineInv => HonestStatus
  BY DEF PipelineInv
<1> QED
  BY <1>1, PipelineInvariant, PTL

\* No Gemini call outlives the conversion that made it, also when another
\* call has raised (gemini_contract.py, convert_scanned_pages_parallel).
THEOREM CallsAreJoined == Spec => []NoCallOutlives
<1>1. PipelineInv => NoCallOutlives
  BY DEF PipelineInv, CallsJoined
<1> QED
  BY <1>1, PipelineInvariant, PTL
=============================================================================
