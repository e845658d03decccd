------------------------------ MODULE PageCalls ------------------------------
(***************************************************************************)
(* Calls of the word readers, of pdf_ocr, pdf_redact, pdf_split_blank,     *)
(* pdf_stamp, pdf_sign, pdf_revisions and pdf_structure, and of any        *)
(* function with options: a question, which the code answers in one step.  *)
(* What questions there can be is a constant of each topic, and what the   *)
(* callers of the code see to of them is PageAssumption.                   *)
(***************************************************************************)
EXTENDS TextLayers, Redaction, SplitBlank, Stamps, Signature, Revisions, StructureTree, Options

CONSTANTS
  OcrPages,      (* pages for LoadWordsForPage     *)
  LayerCalls,    (* calls of PdfOcrExecute         *)
  Redactions,    (* calls of PdfRedactExecuteFile  *)
  Scans,         (* calls of PdfSplitBlankExecute  *)
  Stampings,     (* calls of Watermark and Bates   *)
  Signings,      (* calls of SignDetached          *)
  Files,         (* files for pdf_revisions        *)
  Trees,         (* documents for pdf_structure    *)
  ScalarCalls,   (* chunks of a scalar function    *)
  TableCalls     (* calls of a table function      *)

Listed(s) == Len(s) \in Nat /\ s = [i \in 1..Len(s) |-> s[i]]

\* What OcrPagePdf returns of a page and a resolution.
Recognitions ==
  [fails : BOOLEAN, confidence : Int, height : Int, words : Seq([text : STRING, y : Int])]
Recognisable(page) ==
  /\ page.first \in Recognitions /\ page.second \in Recognitions
  /\ page.force \in BOOLEAN /\ page.auto \in BOOLEAN /\ page.retry \in BOOLEAN /\ page.dpi \in Int

\* A page: what it draws is in its resources, and no picture of it is one of the two
\* passes that will be made over it.
Trials == [fails : BOOLEAN, confidence : Int, count : Nat, sheets : Nat \ {0}]
Printed(page) ==
  /\ page.native \in Nat /\ page.readable \in BOOLEAN /\ page.retry \in BOOLEAN /\ page.dpi \in Int
  /\ page.first \in Trials /\ page.second \in Trials
  /\ Listed(page.content)
  /\ IsFiniteSet(DOMAIN page.xobjects)
  /\ \A k \in DOMAIN page.content : page.content[k][1] = "Do" => page.content[k][2] \in DOMAIN page.xobjects
  /\ \A name \in DOMAIN page.xobjects : page.xobjects[name] \notin {page.first, page.second}

\* A call: any number of pages, and a range as it is bound (FinalizeReadOptions).
Askable(call) ==
  /\ Listed(call.pages)
  /\ \A i \in DOMAIN call.pages : Printed(call.pages[i])
  /\ call.first \in Int /\ call.last \in Int /\ call.last >= -1
  /\ call.force \in BOOLEAN

\* A call: pages and boxes of any number, and any document, in which a page draws
\* what its resources name.
Sheets ==
  {page \in [x0 : Int, x1 : Int, y0 : Int, y1 : Int, W : Nat \ {0}, H : Nat \ {0}, rotation : {0, 90, 180, 270}] :
     page.x0 < page.x1 /\ page.y0 < page.y1}
Redactable(job) ==
  /\ job.pages \in Seq(Sheets)
  /\ job.boxes \in Seq([page : Int, x : Int, y : Int, w : Int, h : Int])
  /\ DOMAIN job.draws = DOMAIN job.pages
  /\ \A p \in DOMAIN job.pages : \A x \in job.draws[p] :
       \E e, f \in job.entries :
         e.from = p /\ e.key = "Resources" /\ f.from = e.to /\ f.key = "XObject" /\ f.to = x

\* A scan: pages of any number and any look.
Looks == [readable : BOOLEAN, glyphs : BOOLEAN, drawn : BOOLEAN, pixels : Nat, white : Nat]
Scannable(scan) == scan.pages \in Seq(Looks) /\ scan.threshold \in Int

\* A document to stamp: every page names one of its finite font dictionaries, and a
\* number is one that can be stored.
Dictionary(fonts) == fonts \in [DOMAIN fonts -> Nat] /\ DOMAIN fonts \subseteq Nat /\ IsFiniteSet(DOMAIN fonts)
Operators == {"text", "q", "Q", "drawing"}
Stampable(job) ==
  /\ job.doc = [pages |-> job.doc.pages, fonts |-> job.doc.fonts, content |-> job.doc.content]
  /\ job.doc.fonts = [d \in DOMAIN job.doc.fonts |-> job.doc.fonts[d]]
  /\ \A d \in DOMAIN job.doc.fonts : Dictionary(job.doc.fonts[d])
  /\ job.doc.pages \in Seq(DOMAIN job.doc.fonts)
  /\ job.doc.content \in [1..Len(job.doc.pages) -> Seq(Operators)]
  /\ job.start \in MinNumber..MaxNumber /\ job.bates \in BOOLEAN

\* A document to sign: qpdf wrote one range and one hole for the new signature among
\* any other tokens, in a file that is shorter than the sentinel.
Tokens(texts, overs) ==
  [kind : {"text", "range", "hole"}, mine : BOOLEAN, text : texts, range : Seq(Nat), wide : BOOLEAN, over : overs]
Signable(job) ==
  /\ job.file \in Seq(Tokens({0}, {<<>>})) /\ Len(job.file) < Sentinel
  /\ \E i, j \in DOMAIN job.file :
       /\ job.file[i] = MyRange /\ job.file[j] = MyHole
       /\ \A k \in DOMAIN job.file : job.file[k].mine => k \in {i, j}
  /\ job.append \in Nat

\* A file to read: tokens in any order, and a number is an offset.
Kinds == {"table", "stream", "object", "startxref", "number", "eof", "other"}
Marks == [kind : Kinds, value : Nat \cup {NoPrev}, glued : BOOLEAN]
Scanned(file) ==
  /\ file \in Seq(Marks)
  /\ \A i \in DOMAIN file : file[i].kind = "number" => file[i].value # NoPrev

\* A tagged document: its objects refer to each other in any way, and every tag is in
\* the role map, which is finite, or is standard.
Nodes(doc) ==
  [is : {"array", "element", "content", "objr", "null"}, kids : Seq(DOMAIN doc.objects), page : Nat,
   tag : DOMAIN doc.roleMap \cup Standard]
Mapping(roleMap) ==
  /\ roleMap \in [DOMAIN roleMap -> DOMAIN roleMap \cup Standard \cup {NoRole}]
  /\ IsFiniteSet(DOMAIN roleMap) /\ NoRole \notin DOMAIN roleMap \cup Standard
Treed(doc) ==
  /\ doc.objects \in Seq(Nodes(doc)) /\ doc.key \in Seq(DOMAIN doc.objects) /\ Mapping(doc.roleMap)

\* A chunk for a function with options: the engine passes arguments of the types it
\* has declared, so that ocr_image gets a blob, pdf_to_text no options, and neither
\* pdf_text nor ocr_image has a second argument that could be NULL.
Functions == {"pdf_text", "pdf_to_text", "pdf_render", "pdf_pages", "pdf_stamp", "pdf_rewrite", "ocr_image"}
Argued(function, row) ==
  /\ row.opt = [key \in DOMAIN row.opt |-> row.opt[key]]
  /\ row.options = "absent" => DOMAIN row.opt = {}
  /\ row.blob \in BOOLEAN /\ row.denied \in BOOLEAN /\ row.ranges \in BOOLEAN
  /\ function \in {"pdf_text", "ocr_image"} => row.second # Null
  /\ function = "pdf_to_text" =>
       /\ row.options = "absent"
       /\ row = [input |-> row.input, second |-> row.second, options |-> row.options, opt |-> row.opt,
                 blob |-> row.blob, denied |-> row.denied, ranges |-> row.ranges]
  /\ function = "ocr_image" => row.blob
Callable(call) ==
  /\ call.function \in Functions /\ Listed(call.rows)
  /\ \A i \in DOMAIN call.rows : Argued(call.function, call.rows[i])

\* A table function: the engine binds it with parameters that it has.
Families == {"read_pdf", "pdf_info", "pdf_objects", "pdf_render", "pdf_split"}
Bindable(call) == call.family \in Families /\ DOMAIN call.given \subseteq Advertised(call.family)

ASSUME PageAssumption ==
  /\ LowConfidence \in Int /\ HighDpi \in Int /\ MaxNumber \in Nat /\ Sentinel \in Nat
  /\ \A page \in OcrPages : Recognisable(page)
  /\ \A call \in LayerCalls : Askable(call)
  /\ \A job \in Redactions : Redactable(job)
  /\ \A scan \in Scans : Scannable(scan)
  /\ \A job \in Stampings : Stampable(job)
  /\ \A job \in Signings : Signable(job)
  /\ \A file \in Files : Scanned(file)
  /\ \A doc \in Trees : Treed(doc)
  /\ \A call \in ScalarCalls : Callable(call)
  /\ \A call \in TableCalls : Bindable(call)

VARIABLES topic, question, answer    (* answer.done, answer.is *)

pageVars == <<topic, question, answer>>

NoAnswer == [done |-> FALSE]
PageInit ==
  /\ \/ topic = "ocr page" /\ question \in OcrPages
     \/ topic = "ocr layer" /\ question \in LayerCalls
     \/ topic = "redact" /\ question \in Redactions
     \/ topic = "split" /\ question \in Scans
     \/ topic = "stamp" /\ question \in Stampings
     \/ topic = "sign" /\ question \in Signings
     \/ topic = "revisions" /\ question \in Files
     \/ topic = "structure" /\ question \in Trees
     \/ topic = "scalar" /\ question \in ScalarCalls
     \/ topic = "table" /\ question \in TableCalls
  /\ answer = NoAnswer

Answer(t, value) ==
  /\ topic = t
  /\ ~answer.done
  /\ answer' = [done |-> TRUE, is |-> value]
  /\ UNCHANGED <<topic, question>>

PageNext ==
  \/ Answer("ocr page", LoadWordsForPage(question))
  \/ Answer("ocr layer", PdfOcrExecute(question))
  \/ Answer("redact", PdfRedactExecuteFile(question))
  \/ Answer("split", PdfSplitBlankExecute(question))
  \/ Answer("stamp", Stamp(question))
  \/ Answer("sign", SignAndRead(question))
  \/ Answer("revisions", EnumeratePdfRevisions(question))
  \/ Answer("structure", ReadStructure(question))
  \/ Answer("scalar", ScalarCall(question))
  \/ Answer("table", PdfTableFamilyBind(question))

PageSpec == PageInit /\ [][PageNext]_pageVars

-----------------------------------------------------------------------------
Answered(t) == topic = t /\ answer.done

\* Recognition never costs the words a page carries, and words keep to the raster
\* they were recognised on (LoadWordsForPage, OcrPageWords); pdf_ocr lays them over
\* the pages that were asked for and leaves what a page drew (PdfOcrExecute).
KeepsBestWords ==
  /\ Answered("ocr page") => BestWords(question, answer.is)
  /\ Answered("ocr layer") => SearchableAsAsked(question, answer.is)

\* pdf_redact blackens the pixels its boxes touch, and nothing else, on pages of any
\* CropBox and rotation (RenderRedactedPage).
CoversBoxes == Answered("redact") => BlackAsBoxed(question, answer.is)

\* Nothing is left in a redacted output that only redacted pages, the catalog and the
\* annotations and private data of other pages lead to; those pages keep their content
\* and what it refers to, which can be an object of a redacted page as well
\* (RebuildPagesAsImages).
OnlyOthersRemain ==
  Answered("redact") => LeavesNothing(question, answer.is) /\ KeepsOtherPages(question, answer.is)

\* pdf_split by blank pages puts every page with content in one document
\* (PdfSplitBlankExecute).
RunsOfContent == Answered("split") => ContentInRuns(question, answer.is)

\* A stamp reaches every page with a font of its own, and Bates numbers follow each
\* other (Watermark, Bates).
StampsEveryPage == Answered("stamp") => OwnStamps(question, answer.is)

\* pdf_sign signs every byte but the signature, or fails; pdf_signatures tells
\* growth and change (SignDetached, ReadSignatures).
SignsWholeFile == Answered("sign") => SignedWhole(question, answer.is)

\* pdf_revisions follows the /Prev links of a file, and counts every update of a
\* file that only grew (EnumeratePdfRevisions).
RevisionsFollowPrev ==
  Answered("revisions") => FollowsPrev(question, answer.is) /\ CountsUpdates(question, answer.is)

\* pdf_structure lists the tree once and in order, whatever circles and sharing
\* there are in it, with the standard roles of its tags (ReadStructure).
StructureListsTree ==
  Answered("structure") => ListsTree(question, answer.is) /\ MapsRoles(question, answer.is)

\* An option that is given where it does not apply fails, or is one of the three that
\* the code says it ignores; no effect has a NULL, a denied path or an error before it
\* (PdfFamilyText to PdfFamilyRewrite, PdfTableFamilyBind and the scans it binds).
OptionsAreRead ==
  /\ Answered("scalar") => OptionsTakeEffect(question, answer.is)
  /\ Answered("table") => VariantAsAsked(question, answer.is)

-----------------------------------------------------------------------------
\* What a comment says of pdf_redact, which the code does not do where pages share
\* resources: "the underlying text is destroyed, not merely covered" (above
\* RebuildPagesAsImages).
UnderlyingDestroyed == Answered("redact") => DestroysDrawn(question, answer.is)
=============================================================================
