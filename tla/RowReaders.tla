----------------------------- MODULE RowReaders -----------------------------
(***************************************************************************)
(* The table functions other than read_pdf, from their bind data to the    *)
(* last chunk: how each walks its document, what it keeps between the      *)
(* calls of the engine, and when it says that there is no more.            *)
(*                                                                         *)
(* Native readers get one file per state (clone_bind) and one thread, so   *)
(* the file list has one entry here; pdf_write_page_images, which walks    *)
(* its list itself, is taken with one file. A document is what the         *)
(* function walks: pages, or for the listing functions their items. Each   *)
(* entry gives some rows, <<entry, k>>, or makes the function throw. The   *)
(* entries of pdf_redact_lateral are the rows of its input; one with no    *)
(* rows has a NULL argument, which the function skips (no document has     *)
(* zero pages, LoadDoc refuses it). What is in a row is left out.          *)
(***************************************************************************)
EXTENDS Integers, Sequences

CONSTANTS
  VectorSize,   (* STANDARD_VECTOR_SIZE                        *)
  MaxEntries,   (* bound on the entries of a document          *)
  MaxRows,      (* bound on the rows of an entry               *)
  Functions     (* the table functions of the instance         *)

ByPage == {"read_pdf_words", "read_pdf_lines"}
AtInit == {"read_pdf_elements", "pdf_chunks", "read_pdf_tables"}
OncePerPage == {"pdf_pages_info", "pdf_split", "pdf_split_blank"}
Drawn == {"pdf_page_images", "pdf_write_page_images"}
Rewritten == {"pdf_ocr", "pdf_redact"}
OfQpdf == {"pdf_form_fields", "pdf_annotations", "pdf_signatures", "pdf_images"}
OneRow == {"pdf_info", "pdf_qpdf_info", "pdf_sign"}
OfDocument == {"pdf_outline", "pdf_structure", "pdf_attachments", "pdf_revisions", "pdf_fonts", "pdf_destinations"}
AllFunctions ==
  ByPage \cup AtInit \cup OncePerPage \cup Drawn \cup Rewritten \cup OfQpdf \cup OneRow
    \cup OfDocument \cup {"pdf_redact_lateral"}

ASSUME SizesPositive ==
  /\ VectorSize \in Nat \ {0}
  /\ MaxEntries \in Nat
  /\ MaxRows \in Nat
ASSUME FunctionsKnown == Functions \subseteq AllFunctions

\* Functions that read first_page and last_page while they walk the pages.
Ranged == ByPage \cup AtInit \cup Drawn
\* Functions that read ignore_errors.
Tolerant == {"pdf_info", "pdf_outline", "pdf_structure"}
\* Functions whose answer comes page by page.
PageBased == ByPage \cup AtInit \cup OncePerPage \cup Drawn \cup Rewritten
\* Functions that can fail on a page or input row: its rendering, or its text recognition.
MayThrow == (ByPage \cup Drawn \cup Rewritten \cup {"pdf_redact_lateral"}) \cup (AtInit \ {"read_pdf_tables"})
\* Functions that give exactly one row for each entry.
Single ==
  OneRow \cup Drawn \cup Rewritten
    \cup {"pdf_outline", "pdf_structure", "pdf_revisions", "pdf_destinations", "pdf_split"}
\* Functions that give at most one.
AtMostOne == {"pdf_attachments", "pdf_pages_info", "pdf_split_blank"}

VARIABLES
  call,      (* function and options of the call                              *)
  doc,       (* the document it reads                                         *)
  pc,        (* "init", "idle" (the engine's turn), "scan", "collect",        *)
             (* "done" or "failed"                                            *)
  taken,     (* file_idx is past the file, or executed is set                 *)
  live,      (* doc is open (words, lines, images), row_active (lateral)      *)
  cur,       (* page_idx, the loop over pages or items, or current_row        *)
  item,      (* rows of entry cur + 1 already pushed to the vector            *)
  rows,      (* the row vector: rows, boxes, lines, emitted or page_rows      *)
  rowIdx,    (* row_idx, word_idx, line_idx or emit_idx                       *)
  given,     (* every row written to an output chunk, in order                *)
  handed,    (* how many of them have left in a chunk                         *)
  base,      (* input rows of the chunks before this one (lateral)            *)
  size       (* input.size() (lateral)                                        *)

vars == <<call, doc, pc, taken, live, cur, item, rows, rowIdx, given, handed, base, size>>

inputVars == <<call, doc>>
chunkVars == <<given, handed>>
lateralVars == <<base, size>>
walkVars == <<taken, live, cur, item, rows, rowIdx>>

-----------------------------------------------------------------------------
\* ParseNamed lets no other page range through: first_page is 0 when it is not
\* given and last_page is -1.
Calls(fn) ==
  { c \in [fn: {fn}, first: 0..(MaxEntries + 1), last: (-1)..(MaxEntries + 1),
           ignore: BOOLEAN, draws: BOOLEAN] :
      /\ c.last # 0
      /\ c.first > 0 /\ c.last > 0 => c.last >= c.first
      /\ fn \notin Ranged \cup {"pdf_structure"} => c.first = 0 /\ c.last = -1
      /\ fn \notin Tolerant => ~c.ignore
      /\ fn # "pdf_page_images" => c.draws }

\* A row of pdf_structure carries the page of its element, 0 when it has none.
Documents(fn) ==
  { d \in [opens: BOOLEAN,
           entries: UNION {[1..n -> [rows: 0..MaxRows, bad: BOOLEAN, page: 0..MaxEntries]] :
                           n \in 0..MaxEntries}] :
      /\ d.opens /\ fn \in PageBased => Len(d.entries) > 0
      /\ d.opens /\ fn \in OneRow => Len(d.entries) = 1
      /\ ~d.opens => d.entries = <<>> /\ fn # "pdf_redact_lateral"
      /\ \A e \in 1..Len(d.entries) :
           /\ d.entries[e].bad => fn \in MayThrow /\ d.entries[e].rows = 1
           /\ fn \in Single => d.entries[e].rows = 1
           /\ fn \in AtMostOne => d.entries[e].rows <= 1
           /\ fn # "pdf_structure" => d.entries[e].page = 0 }

TheRow == <<1, 1>>
Entries == doc.entries
RowsOf(e) == [k \in 1..Entries[e].rows |-> <<e, k>>]

\* Mutant: the range is applied to the rows and not to the walk.
WalkFromTheFirst == 0
\* first_page - 1 and last_page as the walks over pages compute them.
FirstPage0 == IF call.fn \in Ranged /\ call.first > 0 THEN call.first - 1 ELSE 0
LastPage0 ==
  IF call.fn \in Ranged /\ call.last >= 0 /\ call.last < Len(Entries)
    THEN call.last ELSE Len(Entries)

\* pdf_page_images throws on a page it cannot draw, when a column asks for it.
Throws(e) == Entries[e].bad /\ call.draws

Init ==
  /\ \E fn \in Functions : call \in Calls(fn) /\ doc \in Documents(fn)
  /\ pc = IF call.fn \in ByPage \cup AtInit THEN "init" ELSE "idle"
  /\ taken = FALSE
  /\ live = FALSE
  /\ cur = 0
  /\ item = 0
  /\ rows = <<>>
  /\ rowIdx = 0
  /\ given = <<>>
  /\ handed = 0
  /\ base = 0
  /\ size = 0

-----------------------------------------------------------------------------
(* Steps the scan functions share. *)
Room == Len(given) - handed < VectorSize
VectorDone == rowIdx >= Len(rows)

Throw ==
  /\ pc' = "failed"
  /\ UNCHANGED <<inputVars, walkVars, chunkVars, lateralVars>>

\* One row of the vector is written to the output.
EmitRow ==
  /\ pc = "scan"
  /\ Room
  /\ ~VectorDone
  /\ given' = Append(given, rows[rowIdx + 1])
  /\ rowIdx' = rowIdx + 1
  /\ UNCHANGED <<inputVars, pc, taken, live, cur, item, rows, handed, lateralVars>>

\* The chunk leaves; the engine calls again unless it is empty.
ReturnChunk ==
  /\ pc' = IF handed = Len(given) THEN "done" ELSE "idle"
  /\ handed' = Len(given)
  /\ UNCHANGED <<inputVars, given, lateralVars>>

\* The document is read and its rows are about to be collected.
BeginFile ==
  /\ taken' = TRUE
  /\ rows' = <<>>
  /\ rowIdx' = 0
  /\ IF doc.opens
       THEN pc' = "collect" /\ cur' = FirstPage0 /\ item' = 0
       ELSE /\ pc' = IF call.fn \in Tolerant /\ call.ignore THEN "scan" ELSE "failed"
            /\ UNCHANGED <<cur, item>>
  /\ UNCHANGED <<inputVars, live, chunkVars, lateralVars>>

\* One turn of a loop that fills the row vector; keeps says which rows stay.
PushRow(keeps) ==
  /\ pc = "collect"
  /\ cur < LastPage0
  /\ ~Throws(cur + 1)
  /\ item < Entries[cur + 1].rows
  /\ rows' = IF keeps THEN Append(rows, <<cur + 1, item + 1>>) ELSE rows
  /\ item' = item + 1
  /\ UNCHANGED <<inputVars, pc, taken, live, cur, rowIdx, chunkVars, lateralVars>>

NextEntry ==
  /\ pc = "collect"
  /\ cur < LastPage0
  /\ ~Throws(cur + 1)
  /\ item >= Entries[cur + 1].rows
  /\ cur' = cur + 1
  /\ item' = 0
  /\ UNCHANGED <<inputVars, pc, taken, live, rows, rowIdx, chunkVars, lateralVars>>

EntryThrows ==
  /\ pc = "collect"
  /\ cur < LastPage0
  /\ Throws(cur + 1)
  /\ Throw

Collected(then) ==
  /\ pc = "collect"
  /\ cur >= LastPage0
  /\ pc' = then
  /\ UNCHANGED <<inputVars, walkVars, chunkVars, lateralVars>>

Collect(keeps, then) == PushRow(keeps) \/ NextEntry \/ EntryThrows \/ Collected(then)

\* break out of the row loop, or a full chunk.
Break ==
  /\ pc = "scan"
  /\ ~Room \/ (VectorDone /\ taken)
  /\ ReturnChunk
  /\ UNCHANGED walkVars

\* A function that collects the rows of its file when the engine first calls it.
CollectingScan(keeps) ==
  \/ EmitRow
  \/ pc = "scan" /\ Room /\ VectorDone /\ ~taken /\ BeginFile
  \/ Collect(keeps, "scan")
  \/ Break

-----------------------------------------------------------------------------
(* Listings and inspections. *)
\* One row per file: info is read and written in the row loop itself.
FileRow ==
  /\ pc = "scan"
  /\ Room
  /\ ~taken
  /\ taken' = TRUE
  /\ IF doc.opens
       THEN pc' = pc /\ given' = Append(given, TheRow)
       ELSE /\ pc' = IF call.fn \in Tolerant /\ call.ignore THEN "scan" ELSE "failed"
            /\ given' = given
  /\ UNCHANGED <<inputVars, live, cur, item, rows, rowIdx, handed, lateralVars>>

PdfInfoScan == call.fn = "pdf_info" /\ (FileRow \/ Break)
PdfQpdfInfoScan == call.fn = "pdf_qpdf_info" /\ (FileRow \/ Break)

PdfOutlineScan == call.fn = "pdf_outline" /\ CollectingScan(TRUE)

\* Elements without a page stay whatever the range.
InStructureRange(page) ==
  \/ page <= 0
  \/ /\ page >= (IF call.first > 0 THEN call.first ELSE 1)
     /\ call.last < 0 \/ page <= call.last
PdfStructureScan ==
  /\ call.fn = "pdf_structure"
  /\ CollectingScan(InStructureRange(Entries[cur + 1].page))

\* Attachments that are not valid give no row.
PdfAttachmentsScan == call.fn = "pdf_attachments" /\ CollectingScan(TRUE)
PdfRevisionsScan == call.fn = "pdf_revisions" /\ CollectingScan(TRUE)
\* A page that cannot be created gives no row.
PdfPagesInfoScan == call.fn = "pdf_pages_info" /\ CollectingScan(TRUE)
PdfFontsScan == call.fn = "pdf_fonts" /\ CollectingScan(TRUE)
PdfDestinationsScan == call.fn = "pdf_destinations" /\ CollectingScan(TRUE)

-----------------------------------------------------------------------------
(* Elements, chunks and tables collect the whole document in init_global. *)
InitCollect == (pc = "init" /\ BeginFile) \/ Collect(TRUE, "idle")
VectorScan == EmitRow \/ Break

ReadPdfElementsInit == call.fn = "read_pdf_elements" /\ InitCollect
ReadPdfElementsScan == call.fn = "read_pdf_elements" /\ VectorScan
PdfChunksInit == call.fn = "pdf_chunks" /\ InitCollect
PdfChunksScan == call.fn = "pdf_chunks" /\ VectorScan
ReadPdfTablesInit == call.fn = "read_pdf_tables" /\ InitCollect
ReadPdfTablesScan == call.fn = "read_pdf_tables" /\ VectorScan

-----------------------------------------------------------------------------
(* Words and lines hold one page at a time. *)
\* Mutant: the index into the vector outlives the page.
LoadPageKeepsIndex(page0) ==
  /\ cur' = page0
  /\ rowIdx' = rowIdx
  /\ rows' = IF page0 < LastPage0 /\ ~Throws(page0 + 1) THEN RowsOf(page0 + 1) ELSE <<>>
\* WordsLoadPage and LinesLoadPage: the vector gets the rows of the page, none
\* past the range.
LoadPage(page0) ==
  /\ cur' = page0
  /\ rowIdx' = 0
  /\ rows' = IF page0 < LastPage0 /\ ~Throws(page0 + 1) THEN RowsOf(page0 + 1) ELSE <<>>

PageThrows(page0) == page0 < LastPage0 /\ Throws(page0 + 1)

\* OpenFile and LoadPage of init_global.
OpenPaged ==
  /\ pc = "init"
  /\ IF doc.opens
       THEN LoadPage(FirstPage0) /\ live' = TRUE
       ELSE UNCHANGED <<cur, rows, rowIdx, live>>
  /\ pc' = IF doc.opens /\ ~PageThrows(FirstPage0) THEN "idle" ELSE "failed"
  /\ UNCHANGED <<inputVars, taken, item, chunkVars, lateralVars>>

NextPage ==
  /\ pc = "scan"
  /\ live
  /\ Room
  /\ VectorDone
  /\ cur + 1 < LastPage0
  /\ LoadPage(cur + 1)
  /\ pc' = IF PageThrows(cur + 1) THEN "failed" ELSE pc
  /\ UNCHANGED <<inputVars, taken, live, item, chunkVars, lateralVars>>

\* The document is closed; later calls find none and give an empty chunk.
LastPageDone ==
  /\ pc = "scan"
  /\ live
  /\ Room
  /\ VectorDone
  /\ cur + 1 >= LastPage0
  /\ cur' = cur + 1
  /\ taken' = TRUE
  /\ live' = FALSE
  /\ ReturnChunk
  /\ UNCHANGED <<item, rows, rowIdx>>

PagedReturn ==
  /\ pc = "scan"
  /\ ~Room \/ ~live
  /\ ReturnChunk
  /\ UNCHANGED walkVars

PagedScan == (live /\ EmitRow) \/ NextPage \/ LastPageDone \/ PagedReturn

ReadPdfWordsInit == call.fn = "read_pdf_words" /\ OpenPaged
ReadPdfWordsScan == call.fn = "read_pdf_words" /\ PagedScan
ReadPdfLinesInit == call.fn = "read_pdf_lines" /\ OpenPaged
ReadPdfLinesScan == call.fn = "read_pdf_lines" /\ PagedScan

-----------------------------------------------------------------------------
(* pdf_page_images returns one page per call. *)
NoPageLeft == ~live \/ cur >= LastPage0

OpenForImages ==
  /\ pc = "scan"
  /\ Len(given) = handed
  /\ NoPageLeft
  /\ ~taken
  /\ taken' = doc.opens
  /\ live' = doc.opens
  /\ cur' = FirstPage0
  /\ pc' = IF doc.opens THEN pc ELSE "failed"
  /\ UNCHANGED <<inputVars, item, rows, rowIdx, chunkVars, lateralVars>>

DrawPage ==
  /\ pc = "scan"
  /\ Len(given) = handed
  /\ ~NoPageLeft
  /\ ~Throws(cur + 1)
  /\ given' = Append(given, <<cur + 1, 1>>)
  /\ cur' = cur + 1
  /\ UNCHANGED <<inputVars, pc, taken, live, item, rows, rowIdx, handed, lateralVars>>

CannotDraw ==
  /\ pc = "scan"
  /\ Len(given) = handed
  /\ ~NoPageLeft
  /\ Throws(cur + 1)
  /\ Throw

ReturnImage ==
  /\ pc = "scan"
  /\ Len(given) > handed \/ (NoPageLeft /\ taken)
  /\ ReturnChunk
  /\ UNCHANGED walkVars

PdfPageImagesScan ==
  /\ call.fn = "pdf_page_images"
  /\ OpenForImages \/ DrawPage \/ CannotDraw \/ ReturnImage

-----------------------------------------------------------------------------
(* Functions that do their work when the engine first calls them (executed) *)
(* and then emit what it left: the writers, and the qpdf listings.          *)
PdfSplitScan == call.fn = "pdf_split" /\ CollectingScan(TRUE)
PdfSplitBlankScan == call.fn = "pdf_split_blank" /\ CollectingScan(TRUE)
PdfOcrScan == call.fn = "pdf_ocr" /\ CollectingScan(TRUE)
PdfRedactScan == call.fn = "pdf_redact" /\ CollectingScan(TRUE)
PdfWritePageImagesScan == call.fn = "pdf_write_page_images" /\ CollectingScan(TRUE)
PdfSignScan == call.fn = "pdf_sign" /\ CollectingScan(TRUE)
PdfFormFieldsScan == call.fn = "pdf_form_fields" /\ CollectingScan(TRUE)
PdfAnnotationsScan == call.fn = "pdf_annotations" /\ CollectingScan(TRUE)
PdfSignaturesScan == call.fn = "pdf_signatures" /\ CollectingScan(TRUE)
PdfImagesScan == call.fn = "pdf_images" /\ CollectingScan(TRUE)

-----------------------------------------------------------------------------
(* pdf_redact_lateral, an in-out function: the engine hands it chunks of    *)
(* input rows and calls it again with the same chunk while it answers       *)
(* HAVE_MORE_OUTPUT.                                                        *)
Lateral == call.fn = "pdf_redact_lateral"
InputRow == base + cur + 1

\* Mutant: a skipped row is not counted.
SkipWithoutCounting ==
  /\ pc = "scan"
  /\ Room
  /\ ~live
  /\ cur < size
  /\ Entries[InputRow].rows = 0 /\ ~Throws(InputRow)
  /\ UNCHANGED vars
SkipNullRow ==
  /\ pc = "scan"
  /\ Room
  /\ ~live
  /\ cur < size
  /\ Entries[InputRow].rows = 0 /\ ~Throws(InputRow)
  /\ cur' = cur + 1
  /\ UNCHANGED <<inputVars, pc, taken, live, item, rows, rowIdx, chunkVars, lateralVars>>

\* A NULL output path, a bad box list, or PdfRedactExecuteFile.
RowThrows ==
  /\ pc = "scan"
  /\ Room
  /\ ~live
  /\ cur < size
  /\ Throws(InputRow)
  /\ Throw

RedactRow ==
  /\ pc = "scan"
  /\ Room
  /\ ~live
  /\ cur < size
  /\ Entries[InputRow].rows > 0 /\ ~Throws(InputRow)
  /\ rows' = RowsOf(InputRow)
  /\ rowIdx' = 0
  /\ live' = TRUE
  /\ UNCHANGED <<inputVars, pc, taken, cur, item, chunkVars, lateralVars>>

RowDone ==
  /\ pc = "scan"
  /\ live
  /\ VectorDone
  /\ live' = FALSE
  /\ rows' = <<>>
  /\ rowIdx' = 0
  /\ cur' = cur + 1
  /\ UNCHANGED <<inputVars, pc, taken, item, chunkVars, lateralVars>>

\* HAVE_MORE_OUTPUT: the chunk is full and the row or the input is not finished.
HaveMoreOutput ==
  /\ pc = "scan"
  /\ ~Room
  /\ (live /\ ~VectorDone) \/ (~live /\ cur < size)
  /\ handed' = Len(given)
  /\ pc' = "idle"
  /\ UNCHANGED <<inputVars, walkVars, given, lateralVars>>

\* NEED_MORE_INPUT: current_row is reset for the next chunk.
NeedMoreInput ==
  /\ pc = "scan"
  /\ ~live
  /\ cur >= size
  /\ handed' = Len(given)
  /\ base' = base + size
  /\ size' = 0
  /\ cur' = 0
  /\ pc' = "idle"
  /\ UNCHANGED <<inputVars, taken, live, item, rows, rowIdx, given>>

PdfRedactLateralInOut ==
  /\ Lateral
  /\ \/ live /\ EmitRow
     \/ SkipNullRow
     \/ RowThrows
     \/ RedactRow
     \/ RowDone
     \/ HaveMoreOutput
     \/ NeedMoreInput

\* The engine's next chunk of input rows, and the empty one that answers FINISHED.
EngineInput ==
  /\ Lateral
  /\ pc = "idle"
  /\ size = 0
  /\ base < Len(Entries)
  /\ \E n \in 1..(Len(Entries) - base) : size' = n
  /\ UNCHANGED <<inputVars, pc, walkVars, chunkVars, base>>

EngineFinished ==
  /\ Lateral
  /\ pc = "idle"
  /\ size = 0
  /\ base >= Len(Entries)
  /\ pc' = "done"
  /\ UNCHANGED <<inputVars, walkVars, chunkVars, lateralVars>>

\* The engine asks for the next chunk.
EngineCall ==
  /\ pc = "idle"
  /\ Lateral => size > 0
  /\ pc' = "scan"
  /\ UNCHANGED <<inputVars, walkVars, chunkVars, lateralVars>>

-----------------------------------------------------------------------------
Inspections ==
  \/ PdfInfoScan \/ PdfQpdfInfoScan \/ PdfOutlineScan \/ PdfStructureScan
  \/ PdfAttachmentsScan \/ PdfRevisionsScan \/ PdfPagesInfoScan \/ PdfFontsScan
  \/ PdfDestinationsScan
Materialised ==
  \/ ReadPdfElementsInit \/ ReadPdfElementsScan \/ PdfChunksInit \/ PdfChunksScan
  \/ ReadPdfTablesInit \/ ReadPdfTablesScan
PageCursors ==
  \/ ReadPdfWordsInit \/ ReadPdfWordsScan \/ ReadPdfLinesInit \/ ReadPdfLinesScan
  \/ PdfPageImagesScan
Executed ==
  \/ PdfSplitScan \/ PdfSplitBlankScan \/ PdfOcrScan \/ PdfRedactScan
  \/ PdfWritePageImagesScan \/ PdfSignScan \/ PdfFormFieldsScan \/ PdfAnnotationsScan
  \/ PdfSignaturesScan \/ PdfImagesScan
Engine == EngineInput \/ EngineFinished \/ EngineCall

Next == Inspections \/ Materialised \/ PageCursors \/ Executed \/ PdfRedactLateralInOut \/ Engine

Spec == Init /\ [][Next]_vars /\ WF_vars(Next)

-----------------------------------------------------------------------------
(* Properties *)
\* The rows the documentation promises: those of the pages from first_page to
\* last_page, 1-based and inclusive, or of every page.
Wanted(e) ==
  /\ call.fn \in Ranged => call.first <= e /\ (call.last = -1 \/ e <= call.last)
  /\ call.fn = "pdf_structure" =>
       \/ Entries[e].page = 0
       \/ call.first <= Entries[e].page /\ (call.last = -1 \/ Entries[e].page <= call.last)

RowOfAnswer(r) ==
  /\ doc.opens
  /\ r[1] \in 1..Len(Entries)
  /\ r[2] \in 1..Entries[r[1]].rows
  /\ Wanted(r[1])
Expected == {r \in (1..MaxEntries) \X (1..MaxRows) : RowOfAnswer(r)}

\* The stream every reader implements: each row of the answer once and in order,
\* no more rows in a chunk than it holds, and an end only after the last row.
Stream == INSTANCE RowStream WITH
  expected <- Expected,
  outcome <- IF pc \in {"done", "failed"} THEN pc ELSE "open"
KeepsStream == Stream!Spec

\* A query fails only on a file it was not asked to skip or on a page it was
\* asked for, and it never passes over such a page or file.
FailsOnlyForCause ==
  LET refused == ~doc.opens /\ ~(call.fn \in Tolerant /\ call.ignore)
      broken == doc.opens /\ \E e \in 1..Len(Entries) : Wanted(e) /\ Throws(e)
  IN /\ pc = "failed" => refused \/ broken
     /\ pc = "done" => ~refused /\ ~broken

\* An engine that keeps asking gets to the end of every answer.
Ends == <>(pc \in {"done", "failed"})
=============================================================================
