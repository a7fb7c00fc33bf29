------------------------------ MODULE Pipeline ------------------------------
(***************************************************************************)
(* One run of conversion-service/pipeline.py: convert_pdf.                 *)
(*                                                                         *)
(* The pages are walked in order; text pages are cut in zones and          *)
(* structured at once, scanned pages are collected and transcribed after   *)
(* the walk, several Gemini calls at a time; the blocks are then           *)
(* assembled, rendered and judged.                                         *)
(*                                                                         *)
(* What a page holds is abstracted to the roles its lines play.  A line of *)
(* a text page is a pair <<page, role>>; each weighs one unit in the       *)
(* character counts.  Which lines a page has, how a call answers, whether  *)
(* a divergence passes the fidelity threshold and whether the mean block   *)
(* confidence is low are chosen by the environment.                        *)
(***************************************************************************)
EXTENDS Integers, Sequences, FiniteSets, SequencesExt

CONSTANTS
  NumPages,       \* pages of the document
  BatchPages,     \* config.GEMINI_BATCH_PAGES
  ParallelCalls,  \* config.GEMINI_PARALLEL_CALLS
  Layouts,        \* the sets of roles the lines of a text page may play
  FailedPct,      \* config.FAILED_PAGE_RATIO, in percent
  CoveragePct,    \* config.COVERAGE_WARN_THRESHOLD, in percent
  WarnPct,        \* config.DOC_WARN_THRESHOLD, in percent
  NoPage          \* the page of a transcribed block that names none

\* "label" is the line that heads the list of recipients, "number" the page
\* number in a margin.
Roles == {"head", "body", "cell", "sign", "label", "margin", "number"}

ASSUME PipelineAssumption ==
  /\ {NumPages, BatchPages, ParallelCalls} \subseteq Nat \ {0}
  /\ {FailedPct, CoveragePct, WarnPct} \subseteq 0..100
  /\ Layouts \subseteq SUBSET Roles
  /\ {} \notin Layouts
  /\ NoPage \notin Nat

Pages == 1..NumPages

VARIABLES
  pc,         \* stage of convert_pdf
  vision,     \* the submitter's Gemini key was injected
  page,       \* the page the walk is at
  extracted,  \* lines of the text layer, the input of the fidelity ledger
  blocks,     \* all_blocks, as the lines they carry
  signed,     \* sig_candidates, by page, as the lines they consumed
  rejected,   \* some table failed the quality gate
  scanned,    \* scanned_pages, in walk order
  call,       \* state of the Gemini call of each batch
  answer,     \* what each call returned
  failure,    \* the first exception a call raised
  degraded,   \* report.degraded_pages
  warned,     \* pages a warning of the vision stage names
  report      \* the verdict: status, and whether a ledger was computed

work == <<extracted, blocks, signed, rejected, scanned>>
calls == <<call, answer, failure>>
vars == <<pc, vision, page, work, calls, degraded, warned, report>>

NoReport == [status |-> "completed", ledger |-> FALSE, drift |-> FALSE]

-----------------------------------------------------------------------------
(* Batches of scanned pages.                                               *)

\* plan_batches: consecutive chunks of the list, gaps between pages kept.
PlanBatches(list) ==
  [b \in 1..((Len(list) + BatchPages - 1) \div BatchPages) |->
     SubSeq(list, (b - 1) * BatchPages + 1,
            IF b * BatchPages <= Len(list) THEN b * BatchPages ELSE Len(list))]

Batches == PlanBatches(scanned)
BatchIds == DOMAIN Batches

\* Answers of a call: no usable JSON, JSON that fails validation, or blocks,
\* known by the pages they name and by whether they carry text.  Besides
\* pages of the batch a block may name none, or a page of another batch.
Tags(b) ==
  LET own == ToSet(Batches[b])
      other == {p \in Pages \ own : \A q \in Pages \ own : p <= q}
  IN own \cup other \cup {NoPage}
Answers(b) ==
  {[kind |-> k, tags |-> {}, text |-> FALSE] : k \in {"none", "invalid"}}
  \cup [kind : {"blocks"}, tags : SUBSET Tags(b), text : BOOLEAN]
NoAnswer == [kind |-> "pending", tags |-> {}, text |-> FALSE]

Running == {b \in DOMAIN call : call[b] = "running"}

\* The page a block of batch b is kept for: its own, the only page of the
\* batch when it names none, or nothing.
PageOf(b, tag) ==
  IF tag = NoPage /\ Len(Batches[b]) = 1 THEN Batches[b][1] ELSE tag
ReturnedPages(b) ==
  {PageOf(b, tag) : tag \in answer[b].tags} \cap ToSet(Batches[b])

MissingIgnored(b) ==
  IF answer[b].kind = "blocks" THEN {} ELSE ToSet(Batches[b])

\* The pages of batch b that end up with no transcription.
MissingPages(b) ==
  IF answer[b].kind = "blocks" THEN ToSet(Batches[b]) \ ReturnedPages(b)
  ELSE ToSet(Batches[b])

\* The list of these pages, which is in order as scanned_pages is.
Ascending(pages) ==
  {list \in [1..Cardinality(pages) -> pages] :
     \A i, k \in DOMAIN list : i < k => list[i] < list[k]}

VisionBlocks(b) ==
  IF answer[b].kind = "blocks"
  THEN {<<p, IF answer[b].text THEN "vision" ELSE "image">> : p \in ReturnedPages(b)}
  ELSE {}
-----------------------------------------------------------------------------
(* Text pages: zones, recognised blocks, and the body they leave.          *)

Line(p, roles) == {p} \X roles

\* The header is recognised on page 1 only, a signature on every page.
HeaderLines(p, roles) == IF p = 1 THEN Line(p, roles \cap {"head"}) ELSE {}
SignatureLines(p, roles) == Line(p, roles \cap {"sign", "label"})

\* restore_unconsumed_zones: every line no recognised block stands for.
BodyLines(p, roles) ==
  Line(p, roles) \ (HeaderLines(p, roles) \cup SignatureLines(p, roles))

\* Running headers: page numbers are stripped, and the same margin text on
\* two pages.
Stripped(lines) ==
  LET margins == {l \in lines : l[2] = "margin"}
      numbers == {l \in lines : l[2] = "number"}
  IN numbers \cup (IF Cardinality(margins) >= 2 THEN margins ELSE {})

-----------------------------------------------------------------------------
(* The verdict: report.status as the last part of convert_pdf computes it. *)

Chars(lines) == Cardinality({l \in lines : l[2] /= "image"})
Covers(pct) == Chars(extracted) = 0 \/ 100 * Chars(blocks) >= pct * Chars(extracted)

AfterTables == IF rejected THEN "completed_with_warnings" ELSE "completed"

HasLedger == extracted /= {}

AfterLedger(status, drift) ==
  IF HasLedger /\ drift /\ status /= "failed" THEN "completed_with_warnings" ELSE status

AfterCoverage(status) ==
  IF Chars(blocks) = 0 THEN "failed"
  ELSE IF ~Covers(CoveragePct) THEN "completed_with_warnings" ELSE status

AfterDegradedLax(status) ==
  IF 100 * Len(degraded) > FailedPct * NumPages \/ 1 \in ToSet(degraded)
  THEN "failed" ELSE status

AfterDegraded(status) ==
  IF degraded = <<>> THEN status
  ELSE IF 100 * Len(degraded) > FailedPct * NumPages \/ 1 \in ToSet(degraded)
       THEN "failed" ELSE "completed_with_warnings"

\* The confidence is the lower of the block average and the coverage, and
\* zero when nothing was emitted.
LowConfidence(lowAverage) == Chars(blocks) = 0 \/ lowAverage \/ ~Covers(WarnPct)

AfterConfidence(status, lowAverage) ==
  IF status /= "failed" /\ LowConfidence(lowAverage)
  THEN "completed_with_warnings" ELSE status

Verdict(drift, lowAverage) ==
  AfterConfidence(AfterDegraded(AfterCoverage(AfterLedger(AfterTables, drift))), lowAverage)

\* The ledger compares the text layer with everything in the document, so a
\* transcription counts as extra characters, and so does the label the
\* renderer writes over every list of recipients unless it is the one read.
\* Below one percent the divergence passes.
Diverges == extracted /= {l \in blocks : l[2] /= "image"} \/ signed /= {}

-----------------------------------------------------------------------------
Init ==
  /\ pc = "ingest"
  /\ vision \in BOOLEAN
  /\ page = 1
  /\ extracted = {} /\ blocks = {} /\ signed = {} /\ scanned = <<>>
  /\ rejected = FALSE
  /\ call = <<>> /\ answer = <<>> /\ failure = "none"
  /\ degraded = <<>> /\ warned = {}
  /\ report = NoReport

\* check_password and open_document.
Open ==
  /\ pc = "ingest"
  /\ pc' = "walk"
  /\ UNCHANGED <<vision, page, work, calls, degraded, warned, report>>

Refuse ==
  /\ pc = "ingest"
  /\ pc' = "raised" /\ failure' = "password"
  /\ UNCHANGED <<vision, page, work, call, answer, degraded, warned, report>>

NextPage ==
  /\ page' = page + 1
  /\ UNCHANGED <<pc, vision, calls, degraded, warned, report>>

\* A page with a text layer: digital, decoded legacy, or with tables.
ReadPage(roles) ==
  /\ extracted' = extracted \cup Line(page, roles)
  /\ blocks' = blocks \cup HeaderLines(page, roles) \cup BodyLines(page, roles)
  /\ signed' = signed \cup SignatureLines(page, roles)

TextPage ==
  /\ pc = "walk" /\ page <= NumPages
  /\ \E roles \in Layouts : "cell" \notin roles /\ ReadPage(roles)
  /\ UNCHANGED <<scanned, rejected>>
  /\ NextPage

\* Accepted tables carry their cells; those of a rejected one stay text.
TablePage ==
  /\ pc = "walk" /\ page <= NumPages
  /\ \E roles \in Layouts, gate \in BOOLEAN :
       /\ "cell" \in roles
       /\ ReadPage(roles)
       /\ rejected' = (rejected \/ ~gate)
  /\ UNCHANGED scanned
  /\ NextPage

\* A scanned page, or a legacy page no standard table decodes.
ScannedPage ==
  /\ pc = "walk" /\ page <= NumPages
  /\ scanned' = Append(scanned, page)
  /\ UNCHANGED <<extracted, blocks, signed, rejected>>
  /\ NextPage

-----------------------------------------------------------------------------
(* Scanned pages.                                                          *)

NothingScanned ==
  /\ pc = "walk" /\ page > NumPages /\ scanned = <<>>
  /\ pc' = "assemble"
  /\ UNCHANGED <<vision, page, work, calls, degraded, warned, report>>

\* Without a key every scanned page degrades, each with its warning.
NoVision ==
  /\ pc = "walk" /\ page > NumPages /\ scanned /= <<>> /\ ~vision
  /\ degraded' = degraded \o scanned
  /\ warned' = warned \cup ToSet(scanned)
  /\ pc' = "assemble"
  /\ UNCHANGED <<vision, page, work, calls, report>>

PlanCalls ==
  /\ pc = "walk" /\ page > NumPages /\ scanned /= <<>> /\ vision
  /\ call' = [b \in BatchIds |-> "waiting"]
  /\ answer' = [b \in BatchIds |-> NoAnswer]
  /\ pc' = "vision"
  /\ UNCHANGED <<vision, page, work, failure, degraded, warned, report>>

\* The semaphore admits ParallelCalls batches at a time.
StartCall(b) ==
  /\ pc = "vision" /\ call[b] = "waiting"
  /\ Cardinality(Running) < ParallelCalls
  /\ call' = [call EXCEPT ![b] = "running"]
  /\ UNCHANGED <<pc, vision, page, work, answer, failure, degraded, warned, report>>

CallReturns(b) ==
  /\ pc \in {"vision", "closing"} /\ call[b] = "running"
  /\ call' = [call EXCEPT ![b] = "finished"]
  /\ \E a \in Answers(b) : answer' = [answer EXCEPT ![b] = a]
  /\ UNCHANGED <<pc, vision, page, work, failure, degraded, warned, report>>

CallRaisesRetried(b) ==
  /\ pc \in {"vision", "closing"} /\ call[b] = "running"
  /\ call' = [call EXCEPT ![b] = "waiting"]
  /\ UNCHANGED <<pc, vision, page, work, answer, failure, degraded, warned, report>>

\* VisionAuthError, or any other exception of the SDK.
CallRaises(b) ==
  /\ pc \in {"vision", "closing"} /\ call[b] = "running"
  /\ call' = [call EXCEPT ![b] = "raised"]
  /\ \E e \in {"auth", "call"} :
       failure' = IF failure = "none" THEN e ELSE failure
  /\ UNCHANGED <<pc, vision, page, work, answer, degraded, warned, report>>

\* gather hands the first exception on; asyncio.run cancels the tasks still
\* waiting and joins the threads of the calls under way.
Abort ==
  /\ pc = "vision" /\ failure /= "none"
  /\ pc' = "closing"
  /\ call' = [b \in BatchIds |-> IF call[b] = "waiting" THEN "cancelled" ELSE call[b]]
  /\ UNCHANGED <<vision, page, work, answer, failure, degraded, warned, report>>

Propagate ==
  /\ pc = "closing" /\ Running = {}
  /\ pc' = "raised"
  /\ UNCHANGED <<vision, page, work, calls, degraded, warned, report>>

\* The loop of _run_scanned_vision over batches and results.
Collect ==
  /\ pc = "vision" /\ \A b \in BatchIds : call[b] = "finished"
  /\ LET missing == UNION {MissingPages(b) : b \in BatchIds}
     IN /\ \E list \in Ascending(missing) : degraded' = degraded \o list
        /\ warned' = warned \cup missing
  /\ blocks' = blocks \cup UNION {VisionBlocks(b) : b \in BatchIds}
  /\ pc' = "assemble"
  /\ UNCHANGED <<vision, page, extracted, signed, rejected, scanned, calls, report>>

-----------------------------------------------------------------------------
(* Assembly, rendering, verdict.                                           *)

\* Only the signature of the last page that carries one is kept, without
\* the label it consumed.
KeptSignature ==
  {l \in signed : l[2] = "sign" /\ \A other \in signed : other[1] <= l[1]}

Assemble ==
  /\ pc = "assemble"
  /\ blocks' = (blocks \cup KeptSignature) \ Stripped(blocks)
  /\ pc' = "deliver"
  /\ UNCHANGED <<vision, page, extracted, signed, rejected, scanned, calls,
                 degraded, warned, report>>

Deliver ==
  /\ pc = "deliver"
  /\ \E drift \in (IF HasLedger /\ Diverges THEN BOOLEAN ELSE {FALSE}),
        lowAverage \in BOOLEAN :
       report' = [status |-> Verdict(drift, lowAverage),
                  ledger |-> HasLedger, drift |-> drift]
  /\ pc' = "done"
  /\ UNCHANGED <<vision, page, work, calls, degraded, warned>>

\* A page, a stage of the assembly or the renderer raises.
StageRaises ==
  /\ pc \in {"walk", "assemble", "deliver"}
  /\ pc' = "raised" /\ failure' = "stage"
  /\ UNCHANGED <<vision, page, work, call, answer, degraded, warned, report>>

Finished ==
  /\ pc \in {"done", "raised"}
  /\ UNCHANGED vars

Step ==
  \/ Open \/ Refuse
  \/ TextPage \/ TablePage \/ ScannedPage
  \/ NothingScanned \/ NoVision \/ PlanCalls
  \/ \E b \in BatchIds : StartCall(b)
  \/ Abort \/ Propagate \/ Collect
  \/ Assemble \/ Deliver \/ StageRaises

Provider == \E b \in BatchIds : CallReturns(b) \/ CallRaises(b)

Next == Step \/ Provider \/ Finished

Spec == Init /\ [][Next]_vars

(* The worker thread runs on, and Gemini answers every call.              *)
FairSpec == Spec /\ WF_vars(Step) /\ WF_vars(Provider)

-----------------------------------------------------------------------------
(* Properties.                                                             *)

LinesOf(kinds) == Pages \X kinds

\* Every variable keeps its shape.
TypeOK ==
  /\ pc \in {"ingest", "walk", "vision", "closing", "assemble", "deliver", "done", "raised"}
  /\ vision \in BOOLEAN /\ rejected \in BOOLEAN
  /\ page \in 1..(NumPages + 1)
  /\ extracted \subseteq LinesOf(Roles)
  /\ blocks \subseteq LinesOf(Roles \cup {"vision", "image"})
  /\ signed \subseteq LinesOf({"sign", "label"})
  /\ scanned \in Seq(Pages) /\ degraded \in Seq(Pages)
  /\ warned \subseteq Pages
  /\ failure \in {"none", "password", "auth", "call", "stage"}
  /\ report.status \in {"completed", "completed_with_warnings", "failed"}

Transcribed == {l[1] : l \in {b \in blocks : b[2] \in {"vision", "image"}}}

\* Degrade, do not drop: once the vision stage is over each scanned page
\* either shows in the blocks or is degraded, once, and named by a warning;
\* and no transcription lands on a page that was not scanned
\* (pipeline.py:_run_scanned_vision).
ScannedAccounted ==
  pc \in {"assemble", "deliver", "done"} =>
    /\ ToSet(scanned) = Transcribed \cup ToSet(degraded)
    /\ Transcribed \cap ToSet(degraded) = {}
    /\ Cardinality(ToSet(degraded)) = Len(degraded)
    /\ ToSet(degraded) \subseteq warned

\* Lines the document leaves out: page numbers, margin texts repeated on
\* another page, the label of a list of recipients (the renderer writes its
\* own), and the bottom zone of a page before the last one with a signature
\* (strip_running_headers, build_signature, sig_candidates).
LeftOut(l) ==
  \/ l[2] \in {"number", "label"}
  \/ l[2] = "margin" /\ \E m \in extracted : m[2] = "margin" /\ m[1] /= l[1]
  \/ l[2] = "sign" /\ \E m \in extracted : m[2] \in {"sign", "label"} /\ m[1] > l[1]

\* All other text of the pages read is in the document, whatever zones,
\* tables and scanned pages come between (restore_unconsumed_zones).
TextIntact == pc = "done" => \A l \in extracted \ blocks : LeftOut(l)

\* A conversion that reports plain success has no degraded page, no rejected
\* table, no drift in the ledger, and emitted enough of the text it read
\* (convert_pdf, stage 7).
HonestStatus ==
  pc = "done" /\ report.status = "completed" =>
    /\ degraded = <<>> /\ ~rejected /\ ~report.drift
    /\ Chars(blocks) > 0
    /\ Covers(CoveragePct) /\ Covers(WarnPct)

\* No Gemini call is under way once convert_pdf has collected the answers,
\* returned or raised: the thread pool is joined even on a failure
\* (convert_scanned_pages_parallel under asyncio.run).
NoCallOutlives ==
  pc \in {"assemble", "deliver", "done", "raised"} => Running = {}

\* No line and no page is dropped but for those reasons.
NothingDropped == ScannedAccounted /\ TextIntact

\* When every call returns so does the conversion, and leaves none behind.
Concludes == <>(pc \in {"done", "raised"}) /\ []NoCallOutlives

=============================================================================
