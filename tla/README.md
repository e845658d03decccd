# A TLA+ model of duckdb-pdf

duckdb-pdf is a DuckDB extension that reads, converts, edits and writes PDF
files from SQL. It is built from poppler (text, geometry, rasters), qpdf
(object-level edits), tesseract or an external service (OCR) and LibreOffice
(office documents). This directory holds TLA+ modules that model the parts of
`src/src` whose behaviour depends on the order of events or on the shape of a
document, TLC configurations that check them on small instances, and theorems
that TLAPS proves for every value of the constants.

Line numbers refer to the files under `src/src`. `PROJECT.json` maps every
definition to the lines it models.

## The system

| Part | Where | State it keeps | Operations |
|---|---|---|---|
| Native multi-file reader | `pdf_extension.cpp` 10000-10281 | per file: open error, bytes, `input_mutex`, `input_loaded`, `init_mutex`, `decode_global`, `claimed`, `done`; per thread: current reader and its decode state | open, read ahead (`ScheduleIO`), admit a thread (`TryInitializeScan`), `Scan`, `LoadInput` |
| read_pdf scan | 2400-2850 | per file: `load_done`, `load_failed`, `load_mutex`, `next_page`, page range; per thread: a private poppler document | load a file once, claim the next page, extract it, fill a chunk |
| Rows of one OCR page | 2140-2300, 2755-2800 | none | native text, OCR, retry at double resolution, choice between them |
| Staged outputs | 5471-5535, 7480-7560, 8072-8160 | the destination, a staging file beside it | reserve a staging file, write it, rename it over the destination, remove it |
| Split | 7600-7700, `qpdf_ops.cpp` 156-274 | one staging file per part | write and publish each part |
| Split at blank pages | 7701-7875 | current run of pages | classify a page, close a run |
| pdf_ocr | 7888-8070 | staged output | OCR each page, add a text layer, publish |
| pdf_redact and its lateral form | 8547-8998 | per thread: row cursor of the current input chunk, rows of the current file | redact a file, emit its rows |
| Conversion of office documents | 6009-6495, `include/pdf_office_conversion.hpp` | temporary directory, child process, pipe | choose a converter, run it under a deadline, publish the result |
| COPY ... TO (FORMAT pdf) | 6540-7008 | rows under a lock | collect rows, render, publish |
| Bundled language model | `scripts/embed_tessdata.py` (generates the extractor) | a model file in the temporary directory | extract it once, reuse it |
| OCR engine | `ocr_ops.cpp` | loaded plugin, one tesseract engine per thread, the redirected stderr | load a plugin, silence stderr, initialise the engine, recognise |
| Chunks for retrieval | 4950-5172 | none between calls: units, the chunk being filled, the overlap | cut elements into units, pack units into chunks |
| Inspection readers | 2920-5440, 7600-8998 | per scan: `file_idx` or `executed`, `page_idx`, a row vector and its cursor | 26 table functions (all but `read_pdf` and the table form of `ocr_image`): a row per object, page, word, line, chunk, table cell or output |
| Revisions | 3486-3759 | none | find `startxref` sections, walk the `/Prev` links |
| Layout and table reconstruction | 330-2035 | none (pure) | group words into lines, lines into blocks, blocks into tables |
| qpdf edits | `qpdf_ops.cpp` | none between calls, one mutex | merge, rotate, split, compress, encrypt, pages, watermark, Bates |
| Structure tree | `qpdf_ops.cpp` 536-745 | path and role-map seen set | walk a possibly cyclic tree |
| Signing | `qpdf_ops.cpp` 1590-2215, 8300-8545 | none | placeholder, digest, write, verify |
| Registration and options | 2058-2135, 10329-10638, `pdf_family_*.hpp`, `pdf_function_docs.hpp` | none | bind functions to names, choose a variant by its options |

**How they interact.** DuckDB calls the readers from several threads and calls
the scalar and table functions once per row or chunk. The readers share per-file state
behind two mutexes and a few atomics, and poppler behind one process-wide
recursive mutex (`PopplerMutex`, 177). Writers interact only through the file
system: each writes a private file beside the destination and renames it.
Converters and OCR plugins are external processes, shared objects or services.

**What is hard.** Threads that load one file once and share its page cursor; a
cancellation between a read and the bookkeeping after it; an error in one
thread that the others must not turn into a short result; the process that
dies, or the step that fails, between staging and publishing a file; child
processes, deadlines and inherited descriptors; engines and plugins that are
replaced while a thread still uses them; cursors that survive from one call of
the engine to the next; documents whose objects are shared, run in circles or
contain what the code searches for; boxes, numbers and page ranges at their limits.

## The modules

| Module | Models | Checked by | Proved |
|---|---|---|---|
| `PageDelivery`, `PageScan`, `PageScanInv`, `PageScanProofs` | parallel `read_pdf` | `scan_*` | yes |
| `RowStream`, `RowReaders`, `RowReadersInv`, `RowReadersProofs` | 26 table functions: all but `read_pdf` and the table form of `ocr_image` | `readers` | yes |
| `AtomicStore`, `StagedOutput`, `StagedOutputProofs` | every function that writes a file | `staged_*` | yes |
| `Conversion`, `ConversionProofs` | `to_pdf` and its converter processes | `convert_*` | but for liveness |
| `OcrEngine` | tesseract engines, stderr, plugins | `recognition` | yes, in `RecognitionProofs` |
| `BundledModel` | extraction of the built-in language model | `recognition` | yes, in `RecognitionProofs` |
| `MissingFonts` | the process-wide flag of a missing display font | `recognition` | yes, in `RecognitionProofs` |
| `Chunking`, `ChunkingProofs` | elements cut and packed into chunks | `documents`, `chunks_doc` | yes |
| `CopyTo`, `CopyToProofs` | COPY: sinks, wrapping, pagination | `documents` | yes |
| `Revisions` | `pdf_revisions` | `documents` | yes, in `DocumentsProofs` |
| `StructureTree` | `pdf_structure` | `documents` | yes, in `DocumentsProofs` |
| `SplitBlank` | which pages `pdf_split_blank` splits at | `documents` | yes, in `DocumentsProofs` |
| `OcrPage`, `TextLayers` | words of one page; pages, rows and layers of `pdf_ocr` | `documents` | yes, in `DocumentsProofs` |
| `Redaction` | boxes, pixels and remains of `pdf_redact` | `documents`, `redact_destroyed` | yes, in `DocumentsProofs` |
| `Signature` | `pdf_sign`, `pdf_signatures` | `documents` | yes, in `DocumentsProofs` |
| `Stamps` | watermark, Bates numbers | `documents` | yes, in `DocumentsProofs` |
| `Options` | options of the function families | `documents` | yes, in `DocumentsProofs` |
| `PageCalls`, `DocumentsProofs` | calls answered by the modules from `Revisions` on | `documents` | yes |

The `MC` modules give values to the constants. `MCRecognition` and `MCDocuments`
put several modules side by side: a behaviour picks one `topic` and stays with
it, since the modules share no state. Operators whose comment begins with
*Mutant* are not part of a specification: each is a plausible mistake in the
definition that follows it, and shows that a property notices it.

### PageDelivery and PageScan: the parallel read

`PageDelivery` is what `read_pdf` promises: every page the options select is
returned once and once only, a file is left out only under `ignore_errors`, and
a query that cannot keep this ends in an error. It knows no threads.

`PageScan` is the code. A step is the code between two points where another
thread can be seen or can see the result: taking a mutex, an atomic load, the
`fetch_add` of the cursor, a release store, the return to the engine.

| Code | Variable |
|---|---|
| `PdfNativeFileReader::input.error`, `input_loaded`, `input_mutex` | `inputError`, `inputLoaded`, `inputMutex` |
| `claimed`, `done`, `decode_global` | `claimed`, `done`, `decodeGlobal` |
| `ReadPdfFileSlot` | `loadDone`, `loadFailed`, `loadMutex`, `nextPage`, `lastPage` |
| `PdfNativeLocalState::reader`, `ReadPdfLocalState::doc`, `page_idx`, the output chunk | `reader`, `doc`, `page`, `chunk` |
| where a thread is, the exception it leaves with | `pc`, `fault` |
| the engine: its current file, the rows it received, how the query ended | `current`, `delivered`, `query` |

The engine is external: it opens files in any order, lets threads in under its
own lock (`AdmitScan`, `RefuseScan` are one step each), calls `Scan` until a
thread returns an empty chunk, and fails the query on the first exception.
`init_mutex` is one step, since nothing in its section can be seen outside. The
text of a page and its OCR are abstracted to success (`ProcessPage`) or an
exception (`PageFails`). `Interrupt` stands for a cancellation and for the
query deadline, both of which `BlockingInterruptCheck` reports.

### PageScanInv and PageScanProofs: the argument

The invariants above are not inductive. `IInv` adds what each program point
knows: a thread loads a slot only under its mutex and before `load_done`; a
thread that holds a page holds one below the cursor of a readable file; a page
the cursor has passed was returned or is held by somebody, or the query is
about to fail; a reader that admitted somebody is drained or has somebody
inside. `PageScanProofs` proves it inductive, one lemma per part and one step per
action, each for one thread or one file at a time, and derives from it:

| Theorem | Says |
|---|---|
| `TypeCorrect` | the variables keep their types |
| `PagesOnce` | no page is claimed, buffered or returned twice |
| `NobodyAbandons` | a reader that lets nobody in is drained, or somebody is still in it |
| `InterruptsKeptApart` | a cancelled read never counts as an unreadable file |
| `StrictFailuresReported` | in strict mode a failed file fails the query |
| `ScanKeepsPromise` | `PageScan` implements `PageDelivery` |

They hold for any sets of threads, any number of files and pages, any page
range and scan limit, under `ScanAssumption` alone: the sets of threads are
disjoint, counts are positive, page options are integers.

### RowStream and RowReaders: the other table functions

`RowStream` is what each promises the engine: each row of the answer
once and in order, in chunks with room for them, and the empty chunk that ends
an answer only after its last row. `RowReaders` is the code of the 26 functions, a
step per row pushed, row emitted, page entered and chunk returned.

| Code | Variable |
|---|---|
| the bind data: function, `first_page`, `last_page`, `ignore_errors` | `call` |
| what the function walks: pages, or its items; how many rows each gives, whether it throws | `doc` |
| where the scan is; `"idle"` is the engine's turn | `pc` |
| `executed`, or `file_idx` past the file; `doc` open or `row_active` | `taken`, `live` |
| `page_idx`, the loop over pages or items, `current_row` | `cur`, `item` |
| `rows`, `boxes`, `lines`, `emitted`, `page_rows` | `rows` |
| `row_idx`, `word_idx`, `line_idx`, `emit_idx` | `rowIdx` |
| the output chunk: every row written, how many have left | `given`, `handed` |
| rows of earlier input chunks, `input.size()` | `base`, `size` |

| Kind | Functions | Walk |
|---|---|---|
| `FileFunctions` | `pdf_info`, `pdf_qpdf_info` | a row per file, none kept |
| `Vectored` | outlines, fonts, elements, chunks, tables, split, redact, sign, form fields and the like | collect all rows in a vector (at the first call, or at init for `AtInit`), then emit them |
| `ByPage` | `read_pdf_words`, `read_pdf_lines` | a vector per page, the next page when it is spent |
| | `pdf_page_images` | one row per page, drawn on the way |
| | `pdf_redact_lateral` | the in-out protocol: called with an input chunk until it asks for another |

What is checked: all of them implement `RowStream` (`KeepsStream`); a query fails
exactly when its file or a page it was asked for is at fault, and never ends as if
there were nothing wrong (`FailsOnlyForCause`); it ends (`Ends`). `pdf_structure`
is the one reader that filters rows by page after its walk and keeps those
without a page.

DuckDB gives a native reader one file per state and one thread
(`clone_bind`, `MaxThreads` 1), so a file list has one entry here. What is in a
row is left out: it is the subject of the modules below, or of poppler and qpdf. The table form of
`ocr_image` (5955-5993) is not among the functions: it returns one row for one BLOB, has no file,
page or range to walk, and throws on an empty BLOB or where recognition does; what it calls is
`OcrEngine`.

### RowReadersInv and RowReadersProofs: the argument

`IInv` says where each kind of function stands in its answer. `Holds(s, e, k)`:
`s` is, in order, the rows of the answer up to row `k` of entry `e + 1`;
it relates what was given to the cursors (for `ByPage`, the images and the
lateral form), or the vector to the walk that fills it. `Clean(e)`: no page
that the walk has passed would have thrown. A vector that is being emitted is the
whole answer, and what was given is its first `rowIdx` rows.

| Theorem | Says |
|---|---|
| `Invariance` | `IInv` is inductive |
| `TypeCorrect` | the variables keep their types |
| `CauseOfFailure` | `FailsOnlyForCause` holds for every function |
| `Implements` | each of the 26 functions implements `RowStream` |

They hold for every chunk size, every length of document and number of rows per
entry, and every page range, under `SizesPositive` and `FunctionsKnown` alone.

### AtomicStore and StagedOutput: files put in place

`AtomicStore` promises that a destination goes in one step from what it held to
a complete document, that parts appear in order, and that what a call reports
is what it did. `StagedOutput` is the code: `AtomicPdfOutput`,
`SplitStagedOutput` and `TempFileGuard`, and the nine ways the functions use
them.

| Code | Variable |
|---|---|
| directory entries, files and what is in them | `names`, `file` |
| `AtomicPdfOutput::temporary_path_`, `SplitStagedOutput`, the layer files of `pdf_ocr`, by age | `temps` |
| the `QPDF` objects whose sources are open | `held` |
| `page_count` of the bytes read first | `seen` |
| number of ranges or pages to write, number renamed | `parts`, `published` |

| Kind | Functions |
|---|---|
| `rewrite` | merge, rotate, compress, encrypt, decrypt, watermark, Bates, sign and the like |
| `extract`, `chain` | `pdf_pages` without and with `rotate` (two staging files) |
| `author` | `text_to_pdf`, `write_pdf`, COPY |
| `split`, `blank`, `images` | `pdf_split`, `pdf_split_blank`, `pdf_write_page_images`: a file per part |
| `ocr`, `redact` | read the whole input, then open it again and compare the page counts |

A step is one file-system call or the work between two. Calls of any processes
interleave: `QpdfMutex` orders only those of one process, so nothing is assumed
of it. A job may throw at each of its steps and may die at any time. Renaming
replaces a name, while a file that is open stays what it was: `names` maps
names to inodes. Only the spelling and the inode are compared by
`PdfSameFile`, so paths have aliases and hard links here.

What is checked: a destructor never removes somebody else's staging file, and
no temporary file outlives a call that returned or threw (`StagingPrivate` and
`NoLitter`, checked with the types as `StagingSound`); sources that qpdf reads lazily keep their contents while they are
open (`SourcesStable`); the page-count comparison catches an input that was
replaced (`RecheckedSameLength`); refusing in-place operation protects the input under
every alias (`InputsKept`); all of it implements `AtomicStore`, so that a destination
never names an incomplete document (`AtomicPublication`).

Left out: destructors are taken to succeed in removing a file; nobody else
deletes files or replaces directories; a list of files given to `pdf_write_page_images`, which
publishes the pages of each file before it reads the next (9813-9855) and has one input here;
destinations that are symbolic links, the
Windows branch, and a power failure (the staged file is not synced before it is
renamed, and the code claims nothing about it).

### StagedOutputProofs: the argument

`IInv` has a part about the disk, `DiskInv`, and four about each job. The disk: what
a path names is complete; files that a job has not made are nowhere; a temporary
file is one of those its maker's destructors will remove. A job: its staging names
are different and its own (`TempsInv`); what it has open is complete, as long as
what it counted, and not its destination (`SourceInv`); what it has published
fits its program point and its verdict (`ProgressInv`); its youngest staging file is
incomplete until it was written (`StagedInv`).

The proof is not one case per action and conjunct: with nine kinds of jobs that
would hide the reason. It first shows that a step leaves the disk as it is, makes, fills, publishes or
removes a file (`DiskStep`), then that each of these leaves the facts of *other* jobs alone, and last
what each action leaves its own job with. A job's files are safe from the others
because no step writes a complete file, and rename moves a name, not a file.

| Theorem | Says |
|---|---|
| `Invariance`, `TypeCorrect` | `IInv` is inductive; the variables keep their types |
| `StagingIsSound` | nobody removes another job's staging file; no call that is over leaves one |
| `RecheckedKeepLength` | `pdf_ocr`, `pdf_redact` publish as many pages as they read first |
| `SourcesAreStable` | what a job has open does not change under it |
| `InputsAreKept` | a guarded job does not move its inputs |
| `PublicationIsAtomic` | `StagedOutput` implements `AtomicStore` |

They hold for any jobs of the nine kinds, paths, links, spellings and page counts
under `StagedAssumption`: a job has a destination and, unless it is an author, an input;
the sets of names and of files are disjoint; sizes are numbers. TLC finds `IInv` invariant on `staged_ocr`
(784,605 states) and `staged_parts` (410,219).

### Conversion: converters under a deadline

One call tries its backends in order (`pdf_office::Convert`). An attempt makes
its temporary directories, runs one or two processes (`RunCapture`, POSIX),
checks that the result begins with `%PDF-`, publishes it and removes the
directories. All calls are threads of one server process: what one has open is
inherited by the child another forks.

| Code | Variable |
|---|---|
| `TempDirGuard`s alive | `dirs` |
| who holds the write end of the pipe, and is the read end open | `writers`, `reading` |
| the child; a process it started | `child`, `helper` |
| `deadline` has passed | `late` |
| the reasons `Convert` collects | `failures` |

Converters are external: they exit with any status and any result, close their
output and go on, hang, or leave a helper process that keeps the pipe open.

What is checked: whatever way an attempt ends, no descriptor, directory or
unreaped child is left (`NothingLeft`, checked with the types as `AttemptsClean`); only the result of a process that ended
well is published (`PublishedWhenFinished`); an error names every backend tried
(`EveryBackendAnswers`); a call returns even if its converter never does
(`Returns`). A helper that goes on after its converter was killed is beyond
`RunCapture` (only the child is killed), and the model says so.

Left out: the 64 KiB cap on captured output; `waitpid` after the kill being
interrupted (6284) or `waitpid` failing (6304); an error of `read` on the pipe other than an
interruption, which the code takes for the end of the output (6293) and which is taken not to happen; a helper that writes into a
directory that is being removed; the Windows branch. `DefaultPdfOutput`
(6498-6509) gives `report.docx` and `report.xlsx` the same destination; the two
then race as any two jobs of `StagedOutput`.

### ConversionProofs: the argument

`IInv` follows an attempt: directories come one by one and go in reverse order
(`DirsInv`); the server holds the write end of a pipe only between opening it and closing it
in the parent, the read end until the loop is over, and a child until it is reaped
(`PipeInv`); what was published and how many failures were collected say where in
its route a call is (`AnswerInv`). The part that is not obvious: once the read loop
of a call has seen the end of its output, nobody holds its pipe *and nobody can come to hold
it*, because a process inherits a pipe only from one that has it. So what a call
publishes is written by nobody any more, although other calls fork in between.

| Theorem | Says |
|---|---|
| `Invariance` | `IInv` is inductive |
| `AttemptsAreClean` | an attempt leaves no descriptor, directory or child, whichever way it ends |
| `BackendsAnswer` | a call publishes once, or fails with a failure of each backend |
| `FinishedBeforePublished` | nobody writes a result any more when it is published |

They hold for any calls, made at any times, and any routes that end with
LibreOffice (`ConversionAssumption`). TLC finds `IInv` invariant on `convert_calls`
(522,446 states). That a call returns (`Returns`) stays with TLC.

### OcrEngine: engines that outlive their queries

Each thread keeps a tesseract engine from one page to the next and rebuilds it
only when model, directory or settings differ (`EnsureTesseract`); leptonica and
tesseract initialise with stderr redirected, under a guard that counts its
users (`StderrSilence`); an external OCR library stays loaded until another is
asked for, under one mutex.

| Code | Variable |
|---|---|
| `thread_local` engine: `ready`, language, directory, settings, page mode | `engine` |
| tesseract's own state | `api` |
| `depth`, `saved_fd` and descriptor 2 | `depth`, `saved`, `fd2` |
| the plugin mutex, the cached plugin, `dlopen` counts | `pluginMutex`, `cached`, `handles` |

Models come and go in the directories (external). `api` says what tesseract
holds, apart from what the code believes, so that `EngineIsTheRequested`
compares the two. The settings fingerprint is taken to tell settings apart, and
`Init` after `End` to start from nothing. Opening `/dev/null`, `dup` and the `dup2` that redirects may
fail, and then nothing is silenced; the `dup2` that restores is taken to succeed.

What is checked, and proved in `RecognitionProofs`: stderr is restored whenever no thread
silences it, in whatever order the guards come and go (`StderrRestored`); a page is
recognised with the model, directory, settings and mode of its own query
(`EngineIsTheRequested`); a plugin is called only while loaded, is that of the query, and
every other library is closed again (`PluginIsTheRequested`).

`IInv` strengthens them by what the counter means: `depth` is the number of
threads inside a guard, and descriptor 2 is redirected only while something is
saved; by the agreement of `engine` with `api` and with the request at
each program point; and by the mutex, without which the cached plugin could be
closed under its caller. `OcrAssumption` asks only that threads are finite in
number and that requests are well formed.

### BundledModel: the model extracted from the extension

The C++ that `embed_tessdata.py` generates writes the model to `path + ".tmp"`,
compares the size and renames. Callers are threads of any processes. The data
are `Pieces` writes; a file is the sequence of pieces it holds, a hole where
nothing was written. The stream loses its last piece without notice if closing
it fails, a call may fail at each step, and a process may die.

What holds for a caller alone, whatever fails and however often it dies: it takes no
file for the model but a whole one (`PartialNotReused`). With several callers the shared temporary name lets a call fail
though nothing did (the first renames the file both have open, and the rename of
the second, 155, finds nothing), and a file of the right size with a
hole may be reused while another is still writing it. What holds for them: the
model never disappears once there (`ModelStays`), and it is whole when all
callers are through and none died (`WholeWhenQuiet`; with `PartialNotReused` it
is checked as `NoPartialModel`).

### MissingFonts: a flag of the whole process

poppler reports a display font it cannot find through a callback that sets
`g_poppler_missing_display_font`. `RenderRedactedPage` resets the flag, draws, and
if it is set draws once more or refuses the page, all under `PopplerMutex`
(8672-8702). Other drawings take the mutex too; extraction of text does not on POSIX
(`PopplerDocGuard` is empty there) and may set the flag at any time. `FontsPresent`:
a page that is accepted was drawn with all of its fonts, whatever the others do.
They can only have it refused.

### RecognitionProofs: what threads and processes share

*Engines.* `IInv`, above, is proved in three parts that do not depend on one another, the
guards, the engines and the plugins; an engine is changed by no step of another thread
(`OtherThreads`), and the count of the guards follows their set (`SilencedCount`).

*Fonts.* A redactor holds `PopplerMutex` from its reset of the flag to its last
reading. Inside, only reports can come, and they only raise the flag; so a page
that was drawn without a font finds the flag raised (`FontInv`).

*Models.* While no call has failed and no process died, every file in use either
holds all its pieces, or whoever truncated it last is still writing it from the
beginning and will put them all (`Completing`): the writes of the others put
nothing but pieces of the same model. And nobody gets past its rename before
somebody has renamed (`Waits`). When all callers are idle, the first leaves a whole file
under the name, and the second a file at all. For a caller whose only predecessors are its
own attempts, files have no holes (`LoneInv`), so one of the right size is whole. No step
takes the name away: every unlink is of the temporary one.

| Theorem | Says |
|---|---|
| `Invariance`, `TypeCorrect` | `IInv` of `OcrEngine` is inductive; the variables keep their types |
| `StderrComesBack` | `StderrRestored`, for any number of threads |
| `RightEngine` | `EngineIsTheRequested`, and no page stays in an engine |
| `RightPlugin` | `PluginIsTheRequested`, and only the cached library is open |
| `FontsArePresent` | `FontsPresent`, for any number of redacting, drawing and reading threads |
| `ModelIsWhole` | `NoPartialModel`, for any number of callers, calls, processes and pieces |
| `ModelIsNeverRemoved` | `ModelStays`: a model that is there stays there |

`FontAssumption` and `ModelAssumption` say that `Nobody` and `NoFile` are no thread and
no file, and that counts are natural. TLC finds `ModelInv` and `FontInv` invariant on
`recognition`.

### Chunking and ChunkingProofs: elements to chunks

`read_pdf(..., grain := 'chunk')` packs the elements of a file into chunks of at
most `chunk_size` bytes that begin with the last `overlap` bytes of the one
before. First every element is cut into units (`ChunkSplitLongText`), a step per
cut, then the units are packed (`ChunksProcessFile`), a step per unit.

| Code | Variable |
|---|---|
| `elements`, `chunk_size`, `overlap` | `input`, `size`, `overlap` |
| the element being cut, `pos` | `elem`, `pos` |
| `current_heading`, as the element it is | `section` |
| `units` | `units` |
| `cur`, a range of units, and `cur_len` | `first`, `next`, `curLen` |
| `prev_overlap`, the rows | `tail`, `out` |

A text is a sequence of bytes of five kinds (letter, blank, line feed, first and
further byte of a code point): enough for all the code asks of a byte. Units
carry the element they are from and where in it they begin, and rows their range of
units and the length of their core, which only the properties read.

What is checked is the contract in the comment at 4959-4991: no text is lost,
repeated or reordered (`NothingLost`), pieces and chunks keep to their limits with
the exceptions the contract names (`WithinLimits`), a heading goes with the text that
follows it (`HeadingsMoveOn`), the overlap is an end of the chunk before, not always the longest that would
do, and cuts no word (`OverlapIsTail`), and each chunk bears the heading and the pages of its core
(`Labelled`; the two are checked as `TailAndLabels`). Where two headings follow each other the contract promises more
than the code does (`chunks_doc`).

| Theorem | Says |
|---|---|
| `Types` | the variables keep their types: no cut is outside its element |
| `TextIsKept` | no text is lost, repeated or moved on its way into the chunks (`NothingLost`) |
| `LimitsAreKept` | pieces and chunks are over the limit only where the contract allows it, `cur_len` is a length, and `n_chars` is bounded (`WithinLimits`) |
| `HeadingsStay` | no chunk ends with a heading that text follows |
| `RowsSayWhere` | a row repeats the end of the one before it from a word on, and bears the heading and the pages of its core (`TailAndLabels`) |

They hold for any elements, sizes and overlaps, under `ChunkingAssumption`:
sizes are what `PdfChunksBind` accepts (5209-5218); an element has text, since it is made of
words with glyphs (421), in UTF-8; and elements come page by page. The last two matter:
an element that began with a further byte would give such a piece, and `cur_len`
counts a joining byte that `flush` does not write after an empty text.

There are three invariants, each on top of the one before it.

- `IInv`: nothing is packed before all is cut, and `CurFits`, that what is being
  filled is within the limit, a single unit, or a heading with the unit it took. Without
  it `CoresFit` is not inductive: it is why the chunk that is left when its last heading moves
  is within the limit.
- `Cutting`: the cut stands at the first byte of a code point, past the beginning only
  of an element that does not fit (`AtPlace`); each unit is a piece of the text it is from,
  under the last heading (`PieceTrue`); units are in order (`PiecesOrdered`); and what
  has been cut is in a piece or white space (`CutSoFar`). That no piece begins with a further
  byte rests on white space not being part of a code point, as the cut passes
  over it.
- `Rows`: each row is an end of the text before it joined to its core, its length, heading and
  pages those of its units (`RowTrue`), and so will the next one be (`TailTrue`,
  `CurTrue`).

`Core` is a recursive function, so its defining equation has to be proved before it can be used
(`JoinExists`, `CoreIs`): the functions up to each number exist, and agree, by
a least counterexample, since the induction theorems of the library cannot be
instantiated here. TLC finds `Cutting` and `Rows` invariant on the instance of `documents`.

### What one call makes of a document

These modules are functions from a small document to an answer, each beside a
statement of what the answer has to be that does not follow the code's steps.
`MCDocuments` asks every question of a bounded set. The loops of the code are recursive
functions over the turns taken so far (`walk[n]`, `state[p]`, `found[i]`), each with an
operator of its own for one turn, so that there is a loop to state invariants of.

`Revisions` scans the tokens of a file for `startxref`, its number and `%%EOF`, and
walks the `/Prev` links from the last (3486-3759). The rows are the links of one
chain, each offset once, whatever the links say; in a file that only grew every
update is a row and the sizes add up (`FollowsPrev`, `CountsUpdates`).

`StructureTree` is the walk of `ReadStructure` (`qpdf_ops.cpp` 507-701) with its two
stacks, the set of visited objects, the two caps and the role map. The reference
is reachability through arrays. Every element is listed once, under an element
that contains it, in depth-first order with the page it names or inherits, and none
is missing unless a cap was reached (`ListsTree`); a tag gets the standard role its mapping
leads to (`MapsRoles`). Objects share kids and run in circles.

`SplitBlank` counts white pixels and closes runs of pages. Every page with content is
in one document and no separator is in any (`RunsOfContent`). What a raster
is, is external.

`OcrPage` chooses between native words and recognition, with the second pass at double
resolution (2135-2288). Recognition never costs the words a page carries, and the
words are those of the most confident pass on the raster of that pass
(`BestWords`). `TextLayers` builds on it: `PdfOcrExecute` (7888-8021) selects
the pages, renders a layer for each, and `AddTextLayers` lays it over what the page
drew, under a name that is free (`SearchableAsAsked`). The placement
of a layer on a rotated or cropped page is left out. A name is free here if no XObject has it; qpdf's
`getUniqueResourceName` also passes over the names of fonts and other resources.

`Redaction` projects boxes through CropBox, rotation and raster (8593-8866), refuses
boxes that are empty or lie outside, and rebuilds pages and catalog without the
original (`qpdf_ops.cpp` 1999-2089). `BlackAsBoxed` computes where each pixel lies in user
space, the other way round, and asks that the black ones are exactly those a box touches.
Quotients are exact: the rounding of doubles at the border of a pixel is not modelled.

What is left of the original is a question about a graph: an entry is a reference under a key of
the trailer and catalog, of a page (what it inherits included) or of another object, and
copying a page takes along all that its remaining entries lead to. The code does not prune: of a
page without boxes the resources are copied whole, and where pages share or inherit a
resource dictionary, an image or form that only the redacted page drew comes into the output with its
neighbour (run `redact_destroyed`). So what holds is not that nothing of a
redacted page is left, but this. Take any objects that only redacted pages, the catalog, each
other, and the annotations, actions and private data of other pages lead to: none of them is in the
output, in whatever circles they refer to each other (`LeavesNothing`). It is why annotations are
removed on *all* pages: the parents of a form field hold those on redacted pages too. The other way
round, a page without boxes keeps everything else it names, and all that this refers to
(`KeepsOtherPages`). The keys that count as annotations, actions and private data are listed
in `Interactive` and `PrivateData`, apart from the code's list; keys the code does not know
(`/AF`, `/DPart`, `/VP`) stay, in the code and here. Box and rotation of a page are numbers, not entries.

`Signature` writes placeholders, finds them again by a search in the written bytes,
patches them, reads the result back and publishes it only if it verifies. The document may
contain text that looks like either placeholder. A file that is published is signed over
every byte but the signature; read later, it covers the file until it grows and verifies until
it changes (`SignsWholeFile`). A signature is the message it was made over. The hole is one token: a change of the NUL padding
behind the signature, which `d2i` does not look at (`qpdf_ops.cpp` 1096-1100), counts as a change here. `Sentinel` is the offset in a
placeholder, 9999999999 in the code.

`Stamps` adds a font under a free key to a dictionary that pages may share and draws
after the page's content. Each page draws with the font added for it, and Bates numbers follow
each other as far as they fit their width (`StampsEveryPage`).
`MaxNumber` is the greatest number there is, 2^63 - 1 in the code.

`Options` is what the families of functions do with their options: which keys and values a
row may give, which operation it runs and with which of them, what NULL does, which variant a table
function binds, and which of its options the scan of that variant reads (`Reads`, from the code of
the scans, while `Variants` is from what is registered). A row takes effect only with options
that its operation gets (`OptionsTakeEffect`). A table function refuses only what no variant of the mode has, and
what it accepts its scan reads, but for three options (`Ignored`): `parse_tables` outside the page
grain and `ocr_endpoint`, which README.md:85 and :94 call ignored and reserved, and the password
of `pdf_objects` with kind `revisions`, which only a comment (3798) does (`VariantAsAsked`). What an operation does with an option it reads is the other modules' subject, or a library's.

`CopyTo` has steps: workers take chunks and sink them under the lock. The code asks the
engine for regular order in one thread (`REGULAR_COPY_TO_FILE`, 6994), so a chunk is taken only
when the one before it was sunk; without that the order of rows is lost, which is
the mutant of the run. Finalize wraps and paginates. `TextInOrder`: the words come out in
the order of the query, within margins and page capacity, with header and footer.

`PageCalls` asks the questions of all these modules but `CopyTo`: a call has a topic and a
question, and the code answers it in one step. Its constants are the sets of questions, and
`PageAssumption` is what the callers of the code see to:

| Topic | What is assumed of a question |
|---|---|
| OCR page, OCR layer | ranges as `FinalizeReadOptions` leaves them; resources contain what a page draws |
| redact | pages have an area; a page draws only what its resources name |
| split | counts of pixels are natural |
| stamp | a page names one of the dictionaries, which are finite; the start of Bates numbers is one that can be stored |
| sign | what qpdf wrote has one range and one hole for the new signature, among any others, and is shorter than `Sentinel` |
| revisions | a number is an offset |
| structure | objects refer to objects, in any way; the role map is finite |
| scalar, table | the engine passes values of the types it was told, and parameters that were registered |

TLC evaluates it over the questions of `MCDocuments`. Each property is about the answers to one
topic or two: `KeepsBestWords` (`BestWords`, `SearchableAsAsked`), `CoversBoxes`,
`OnlyOthersRemain` (`LeavesNothing`, `KeepsOtherPages`), `RunsOfContent`, `StampsEveryPage`, `SignsWholeFile`, `RevisionsFollowPrev`
(`FollowsPrev`, `CountsUpdates`), `StructureListsTree` (`ListsTree`, `MapsRoles`) and
`OptionsAreRead` (`OptionsTakeEffect`, `VariantAsAsked`).

### CopyToProofs: rows in order on full pages

`CopyInv`: at most one worker holds a chunk, and it is the one taken last; the buffer is the text
of the chunks before it, or of all chunks taken when nobody holds one. Only the regular
mode makes it inductive. What is written is then the layout of the text of all chunks, and each
loop of the layout has an invariant of its own: the lines read so far hold the words of the text
in order (`LinesHoldText`); the lines wrapped so far hold the words of a line, and one that holds
two fits (`PutWordRight`, `WrapIs`); the pages left behind are full, the one at hand has room for as
many lines as `y` says (`PageRoom`, `DrawLineRight`, `DrawIs`). That the number of lines of a page is the
quotient in `Capacity` is arithmetic (`Quotients`).

The module also holds what all of this rests on, and what `DocumentsProofs` uses again.
`FlattenSeq` and the loops are recursive functions, and the library's induction theorems cannot be
instantiated here; `Recursion` shows once, by a least counterexample, that such a function over
`0..n` has its defining equations, and `Steps` that what holds at 0 and is kept by a turn holds up
to `n`. From them follow `FlattenIs`, `FlattenConcat`, `FlattenFlatten`, `PickedFlatten` and the
like.

| Theorem | Says |
|---|---|
| `CopyCorrect` | `TextInOrder`, for any chunks, options and workers, under `CopyAssumption`: cells are sequences of widths, `None` is no chunk |

### DocumentsProofs: documents of any size

The answers take one step; what has to be proved is what the operators compute. That an answer is
what the code makes of its question is `CallInv`; each theorem then rests on a lemma about one
question.

*Redaction.* `BlackWhereBoxed` is arithmetic: a pixel column lies between the projected ends of a
box, rounded down and up and clamped, exactly if its open interval in user space meets the box
(`OnAxis` and its lemmas, with fractions compared by cross-multiplication); that is shown once along
and once against the axis, and each of the four rotations uses it twice. A box that is not `Outside`
has a pixel. `OthersRemain` is about the graph. The objects outside a group that only redacted pages,
the catalog and removed entries lead to are closed under copying: they hold what the kept entries of
other pages name, and nothing outside the group refers into it. What is copied is the least
such set (`WholeCopy`, `CopyIsLeast`), so the group has no part in it; and what is copied, being closed
itself, holds all that the other pages keep.

*Layers and stamps.* `LaidOver` shows that a layer under a free name is drawn besides what the page
drew; that among `n + 1` names one is free of `n` objects is counting (`NewName`, `NewFont`).
`StampedTo` says of the loop over the pages what is in every dictionary so far: the fonts it had, and
one for each page that named it, which a later page in the same dictionary does not displace
(`StampedMore`).

*Blank pages.* `RunTrue`: the closed ranges lie in order before the run at hand, each is a maximal run
of pages with content, and every page with content so far is in one of them or in that run
(`RunExtends`).

*Signatures.* If the read-back succeeds, both searches found the placeholders of the new
signature: had the hole been another one, the new one would be empty and nothing would be verified;
had the range, the new one would still hold `Sentinel`, which leads out of the file
(`SignedFile`). `MessageIs` shows that the two spans are all
of the file but the hole, and `LaterIs` what a change or growth leaves of that.

*Revisions.* `ChainTrue`: the chain starts at the newest section, each of its sections is the `/Prev`
of the one before it and the last with its offset, and no offset comes twice. So it cannot be longer
than there are sections, which is how many turns the code's walk has at most (`WalkStops`). In a file
that only grew the walk retraces the sections one by one (`Retraced`).

*Structure tree.* Three walks. That of a role stops because every turn sees a new tag of a finite map
(`RoleWalkStops`), and `RoleTrue` says that it has seen nothing but what the tag is mapped to. That of
`CollectStructureChildren` meets only what the keys contain, in every set closed under arrays
(`Sound`), loses nothing of it while the arrays are fewer than the cap (`Gathered`: an item is never
deeper than there are open arrays), and keeps the order of keys without arrays (`Ordered`). For the
walk over the elements `ListTrue` relates rows and stack: each of both is linked to the row of its
parent and preceded by its older siblings; the parents of what is pending are nested, each above or the
same as that of what is popped before it, and above the last row (`Under`), which makes the order
depth-first; and the children of each row are listed or pending (`Reached`). A row that is added leaves
ancestors as they are (`UnderKept`).

*Options.* A case per function and format; no induction but over the rows of a chunk, which are
independent (`ChunkHonoured`). For the table functions, a case per variant: what is registered for it is
what its scan reads, and the options it ignores (`ReadOrIgnored`).

| Theorem | Says |
|---|---|
| `BestWordsKept` | `KeepsBestWords`: on pages with any words, for any confidences and resolutions; on calls of any number of pages |
| `BoxesAreCovered` | `CoversBoxes`: any CropBox, rotation, raster and number of boxes |
| `OnlyOthersAreKept` | `OnlyOthersRemain`: any graph of objects, any pages and boxes |
| `PagesAreInRuns` | `RunsOfContent`: any number of pages of any look, any threshold |
| `PagesAreStamped` | `StampsEveryPage`: any pages, shared dictionaries, fonts, starts and widths of numbers |
| `FileIsSigned` | `SignsWholeFile`: files of any length with any decoys, any change and growth |
| `RevisionsAreFollowed` | `RevisionsFollowPrev`: files of any length, any links and circles |
| `TreesAreListed` | `StructureListsTree`: any graph of objects, any role map, any caps |
| `EveryOptionIsRead` | `OptionsAreRead`: chunks of any length, options of any value, any parameters of a table function |

## Runs and bounds

| Run | Instance | Asks |
|---|---|---|
| `scan_ignore` | 2 workers, 1 open-ahead thread, files of 3 and 1 pages, `first_page` 0, `last_page` 2, `ignore_errors`, one row per chunk | delivery and its parts under errors that are ignored |
| `scan_strict` | 2 workers, files of 2 and 1 pages, strict, two rows per chunk, fair threads | the inductive invariant, reporting of failures, and that the scan ends |
| `readers` | the 26 functions; documents of up to 3 entries of up to 2 rows, any of which may throw; every page range; chunks of 2 rows | the stream each implements, the causes of failure, and that it ends |
| `staged_ocr` | `pdf_ocr` a into b, `pdf_pages` with rotate onto a, COPY onto b | the whole of `StagedOutput` but the guarded inputs |
| `staged_parts` | three groups of calls: `pdf_split_blank` of a and `pdf_merge` onto a; `pdf_split` over a hard link of its input, page images onto one of its parts and `pdf_pages`; `pdf_redact` of a, `pdf_merge` onto a, rewrites to an alias and to a hard link of their input | parts, a prefix of which remains after a failure; sources open while written; inputs |
| `convert_calls` | two calls of LibreOffice at once; one call of a native application and then LibreOffice | inherited descriptors, deadline, clean-up, what an error names |
| `convert_live` | the call with two backends, fair | it returns |
| `convert_doc` | two calls | README.md:285, broken by an inherited pipe |
| `recognition` | engines: 2 threads and requests that differ in model, settings, page mode or plugin; model: 3 callers in 2 processes, 2 pieces, one of them calls twice; fonts: 3 redacting threads, one that draws and one that reads | what threads share while they recognise and draw |
| `documents` | the topics below, and chunks: up to 3 elements of 7 kinds and 4 of 3 kinds on two pages; `chunk_size` 2, 4, 5 and 8, `overlap` 0 to 3 | what single calls make of documents |
| `chunks_doc` | 3 elements that need no cut | C3 (4969), for two headings in a row |
| `redact_destroyed` | the redactions of `documents` | `qpdf_ops.cpp`:1941, broken by a shared resource dictionary |

The inputs of `documents`:

| Topic | Inputs |
|---|---|
| revisions | files of up to 3 sections of 4 tokens, with any `/Prev` and `startxref` among the offsets of sections or none, glued and cut keywords; a section is a table, a stream or another object, whose `/Prev` counts as well |
| structure | all graphs of 3 objects with up to 2 kids; chains of 5 with arrays and elements; role maps over 3 tags. `DepthCap` 3 and `StepsPerLevel` 8, 256 and 4096 in the code: the cap on depth cuts the chains. `P` and `H` stand for the 56 standard roles |
| split | up to 4 pages of 7 kinds, thresholds of 75 and 100 |
| OCR page | two passes that differ in confidence (50, 55, 60, around `LowConfidence` 55), words and failure; resolutions of 399 and 400 around `HighDpi` |
| OCR layers | up to 3 pages with and without text, with photos under any of two names, layers of one and two sheets, every page range |
| redact | one box anywhere around a page in four rotations and two rasters; two pages with up to two boxes; two pages with any of nine entries, among them resources of each page, which may be one dictionary, a form it names, annotations and a form field |
| sign | 5 tokens, three of them decoys; then a byte changed anywhere, or one appended |
| stamp | up to 3 pages on two shared dictionaries with 0 to 2 fonts, 4-bit numbers from -8 to 6 |
| options | up to 4 options of each function at a time, with NULLs, denied paths and unknown keys; every table function in every mode, for a path and for a list, with none or one of its options, given or NULL; two-row chunks of `pdf_stamp` |
| COPY | 3 chunks, 2 workers, rows that wrap, hold line feeds or a word wider than a line; 4 layouts, two of which are refused when the query is bound |

`VectorSize` 2 makes an answer of three rows take two chunks and one of two or
four fill its last: the cases where an end could come too early or a row too
late. Three entries leave one before, in and after a page range. Three sections
are the least that can form a circle that is not the newest's own; three objects
the least with a shared kid in a circle. The bounds on recognition and redaction put a
value on each side of every comparison.

Two workers are the least that race for a slot and a page; the open-ahead
thread is the third party on `input_mutex`. Three pages (`scan_ignore`) leave one
to race for after each worker has taken one. The second file shows threads that move on
while others are still in the first. With a
`ScanLimit` of 2 the count refuses neither of two workers while pages are left; a reader that lets
nobody in is then one that was marked done, which one worker does while the other may still
hold a page. Symmetry is used over the workers, and over the threads
and suffixes of the other modules, in the runs without liveness.

In `StagedOutput`, `MaxFiles` is the number of files a job can make (two
layers and an output are 3, as are the parts of the small inputs), `MaxPages` the
length of a document whose length its inputs do not fix, and two `Suffixes` are
the least that make staging names of two jobs collide or differ. `Overlaps` lists the sets of calls that are made together, one of which a
behaviour has: two to four are a reader, the writer that replaces its input, and
others on its output or its aliases. In `Conversion` it does the same; every
call runs each backend once, and two calls are what inheritance takes. In `OcrEngine` nothing is bounded but the sets: two of
each are what makes a reuse wrong. `MaxCalls` bounds the calls of each caller of
`BundledModel`: one call of three callers shows every overlap of three, and the
second call of the first finds what any of them left behind. Three redactors are one
in each of reset, drawing and check at once. The texts of
`MCChunking` fit, must be cut at white space, or hold code points on the limit; sizes
from 2 to 8 put each limit on, before and after those places. Four elements are a
chunk, two headings and the unit that moves the second; the three further kinds of
paragraph change where cuts fall, not how units are packed.

**Deadlock** is checked in the scan runs: a scan that has ended says so by a step of its own. Jobs,
conversions, extractions, readers and packing end, and a question that was answered has no more
steps: their runs do not check it.

**Fairness** (`scan_strict`, `convert_live`, `readers`). The operating system schedules every
thread, so each thread's next step is weakly fair; mutexes are held for a bounded
section. Opening a file and ending the query are steps of the engine's own
loop. Nothing obliges the user to interrupt or the engine to read ahead. In
`Conversion` time passes and the server's threads run; the converters owe
nothing. In `RowReaders` one thread does everything and the engine keeps asking for the
next chunk until one is empty: `Next` is weakly fair.

## Disagreements between code and documentation

| Run | Claim | What the run shows |
|---|---|---|
| `convert_doc` | README.md:285, a timeout of the converter process | a call times out though its converter ended, because a child of another call inherited its pipe |
| `chunks_doc` | pdf_extension.cpp:4969 "a 'heading' element never ends a chunk" | of two headings in a row the first is left at the end of a chunk |
| `redact_destroyed` | qpdf_ops.cpp:1941 "the underlying text is destroyed, not merely covered" | a form that only the redacted page drew is in the output, through the resource dictionary it shares with another page |

Nine more were met while modelling and have no run of their own.
README.md:29-30 says "options that do not apply to the selected mode fail rather than being silently
ignored", and README.md:169-170 that the password is supported for revisions: `pdf_objects` with kind `revisions`
takes one and discards it (3802), which the model has in `Ignored`; `VariantAsAsked` says that
there is no other such option but the two that README.md:85 and :94 name. pdf_extension.cpp:8535 calls
pages without boxes "copied through untouched" and qpdf_ops.cpp:2018 "carried over verbatim": once a page is
redacted they lose annotations, actions and private data, as qpdf_ops.cpp:2070 and README.md:258 say they do
and `KeepsOtherPages` allows. ocr_ops.hpp:82 says of best effort "missing model / plugin -> empty result,
don't throw": a plugin that cannot be loaded throws (`ocr_ops.cpp` 98), as it does in `OcrEngine`.
pdf_extension.cpp:2604 says that loading a slot "Throws when ignore_errors is
false": only the thread that met the error throws and a second one skips the
file, which is harmless, as `StrictReportsFailure` shows. README.md:222 says that
authoring "writes directly": it stages and renames like the other functions.
embed_tessdata.py:168 calls the extraction "Idempotent.": of two at once one may
fail though nothing else did. embed_tessdata.py:189 says that partial extracts are not reused: with several
callers one of the right size may be. `DefaultPdfOutput` gives two documents
that differ only in their extension one destination. pdf_extension.cpp:3695-3697
describes a fallback for a chain that reaches no section: it starts from a section that
was found, so the chain is never empty and the fallback is never taken.

## What is proved and what is only checked

Proved with TLAPS for every value of the constants: the theorems listed with each
module above. `PageScan` implements `PageDelivery`, `RowReaders` implements
`RowStream`, and `StagedOutput` implements `AtomicStore`. Each invariant that strengthens
another was first checked by TLC on the runs of its module.

Only checked by TLC, on the instances above:

| What | Why |
|---|---|
| `Terminates`, `Returns`, `Ends` | liveness under fairness is out of the prover's reach, as is `ENABLED` |

Every safety invariant and action property that a passing run checks is stated by a theorem.
What the three runs with a violation check is what a document says, and does not hold.

## Not modelled

- *Layout and table reconstruction* (330-2035, 4225-4860). Words are grouped by comparing
  floating-point distances with tuned thresholds; an exact claim would restate the
  thresholds. The readers take the rows as given.
- *qpdf's own edits*: the choice of pages in `pdf_pages` and `pdf_rotate`, compression,
  encryption and repair are single calls of qpdf. `StagedOutput` has their
  sources, staging and publication.
- *Geometry*: the placement of watermarks, Bates numbers and text layers, and the rounding of
  doubles where a box ends on the border of a pixel.
- *What libraries do*: poppler's text and rasters, tesseract's recognition, OpenSSL's
  signatures, libharu's drawing. They succeed or fail, or return numbers.
- *Ranges of numeric options* (`ParseNamed`), beyond the page ranges of `RowReaders`.
- *Function documentation*, which is data, and the registration of functions under names.
- *Power failure*: the staged file is not synced before it is renamed, and the code
  claims nothing about it.
- *Windows branches*, where they differ from POSIX.

## What is left

Models: the selection of pages by ranges (`qpdf_ops.cpp` 156-274) as a function
of the range strings; reading order of elements, with distances abstracted to an
order; the placement of layers and stamps on rotated pages.

Theorems: that the walks of `StructureTree` stay below the cap on steps for trees of a
given size, which `Uncut` now leaves to the hypothesis of completeness; liveness, if a prover for it
becomes available.
