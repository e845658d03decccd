------------------------------ MODULE PageScan ------------------------------
(***************************************************************************)
(* The parallel read_pdf scan of src/src/pdf_extension.cpp: one native     *)
(* reader per file (PdfNativeFileReader), whose bytes are read once by an  *)
(* open-ahead task or by the first scanning thread, and whose pages are    *)
(* claimed one by one by the scanning threads (ReadPdfScan, ClaimNextPage).*)
(*                                                                         *)
(* A step is the code between two points where another thread can be seen  *)
(* or can see the result: taking a mutex, an atomic load, an atomic        *)
(* fetch_add, a release store, the return to the engine.                   *)
(***************************************************************************)
EXTENDS Integers, FiniteSets

CONSTANTS
  Workers,       (* the engine's scanning threads                           *)
  IoThreads,     (* the engine's open-ahead threads                         *)
  NFiles, PageCount, FirstPage, LastPage, IgnoreErrors,
  ScanLimit,     (* scan_limit: scan states one reader admits               *)
  ChunkRows,     (* rows per chunk: 1 when OCR is needed, else 2048         *)
  NoThread       (* nobody holds the mutex                                  *)

ASSUME ScanAssumption ==
  /\ NFiles \in Nat \ {0}
  /\ PageCount \in [1..NFiles -> Nat \ {0}]
  /\ FirstPage \in Int /\ LastPage \in Int
  /\ IgnoreErrors \in BOOLEAN
  /\ ScanLimit \in Nat \ {0}
  /\ ChunkRows \in Nat \ {0}
  /\ Workers # {}
  /\ Workers \cap IoThreads = {}
  /\ NoThread \notin Workers \cup IoThreads

Threads == Workers \cup IoThreads
Files == 1..NFiles
NoFile == 0

VARIABLES
  \* the query
  query,         (* "running", "ok" or the kind of error it ended with      *)
  interrupted,   (* what BlockingInterruptCheck tests                       *)
  current,       (* the engine's file_index                                 *)
  delivered,     (* rows <<file, page>> returned to the engine              *)
  \* PdfNativeFileReader, per file
  opened, inputError, inputLoaded, inputMutex, claimed, done, decodeGlobal,
  \* ReadPdfFileSlot, per file
  loadDone, loadFailed, loadMutex, nextPage, lastPage,
  \* PdfNativeLocalState and ReadPdfLocalState, per thread
  pc, reader, doc, page, chunk, fault

queryVars == <<query, interrupted, current, delivered>>
inputVars == <<opened, inputError, inputLoaded, inputMutex>>
claimVars == <<claimed, done, decodeGlobal>>
slotVars == <<loadDone, loadFailed, loadMutex, nextPage, lastPage>>
localVars == <<reader, doc, page, chunk, fault>>
vars == <<queryVars, inputVars, claimVars, slotVars, pc, localVars>>

-----------------------------------------------------------------------------
(* The page range of a file, as EnsureFileSlotLoaded computes it.          *)

FirstOption == IF FirstPage > 0 THEN FirstPage - 1 ELSE 0

LastOf(f) ==
  IF LastPage < 0 \/ LastPage > PageCount[f] THEN PageCount[f] ELSE LastPage

FirstOf(f) == IF FirstOption > LastOf(f) THEN LastOf(f) ELSE FirstOption

-----------------------------------------------------------------------------
Init ==
  /\ query = "running"
  /\ interrupted = FALSE
  /\ current = 1
  /\ delivered = {}
  /\ opened = [f \in Files |-> FALSE]
  /\ inputError = [f \in Files |-> "none"]
  /\ inputLoaded = [f \in Files |-> FALSE]
  /\ inputMutex = [f \in Files |-> NoThread]
  /\ claimed = [f \in Files |-> 0]
  /\ done = [f \in Files |-> FALSE]
  /\ decodeGlobal = [f \in Files |-> FALSE]
  /\ loadDone = [f \in Files |-> FALSE]
  /\ loadFailed = [f \in Files |-> FALSE]
  /\ loadMutex = [f \in Files |-> NoThread]
  /\ nextPage = [f \in Files |-> 0]
  /\ lastPage = [f \in Files |-> 0]
  /\ pc = [t \in Threads |-> "idle"]
  /\ reader = [t \in Threads |-> NoFile]
  /\ doc = [t \in Threads |-> NoFile]
  /\ page = [t \in Threads |-> 0]
  /\ chunk = [t \in Threads |-> {}]
  /\ fault = [t \in Threads |-> "none"]

\* Control of thread t moves from one program point to another.
Goto(t, from, to) ==
  /\ pc[t] = from
  /\ pc' = [pc EXCEPT ![t] = to]

\* The thread leaves with an exception; mutexes are released by their guards.
Raise(t, from, kind) ==
  /\ Goto(t, from, "throw")
  /\ fault' = [fault EXCEPT ![t] = kind]

-----------------------------------------------------------------------------
(* The engine around the readers.                                          *)

\* The user cancels, or the deadline passes: every later check throws.
Interrupt ==
  /\ query = "running"
  /\ ~interrupted
  /\ interrupted' = TRUE
  /\ UNCHANGED <<query, current, delivered, inputVars, claimVars, slotVars, pc, localVars>>

\* The reader's constructor: an open error is kept for the scan to report
\* under the strict/ignore_errors policy.
OpenFile(f) ==
  /\ query = "running"
  /\ ~opened[f]
  /\ \E error \in {"none", "io"} :
       /\ ~(error = "io" /\ interrupted)
       /\ inputError' = [inputError EXCEPT ![f] = error]
  /\ opened' = [opened EXCEPT ![f] = TRUE]
  /\ UNCHANGED <<queryVars, inputLoaded, inputMutex, claimVars, slotVars, pc, localVars>>

\* An open error met after the interruption is the interruption.
OpenInterrupted(f) ==
  /\ query = "running"
  /\ ~opened[f]
  /\ interrupted
  /\ query' = "interrupt"
  /\ UNCHANGED <<interrupted, current, delivered, inputVars, claimVars, slotVars, pc, localVars>>

\* ScheduleIO hands LoadInput to an open-ahead thread.
ScheduleIO(t, f) ==
  /\ query = "running"
  /\ opened[f]
  /\ Goto(t, "idle", "load")
  /\ reader' = [reader EXCEPT ![t] = f]
  /\ UNCHANGED <<queryVars, inputVars, claimVars, slotVars, doc, page, chunk, fault>>

\* TryInitializeScan admits the thread; a thread that comes from another
\* reader starts with a fresh decode_local, that is without a document.
AdmitScan(w) ==
  /\ query = "running"
  /\ current \in Files /\ opened[current]
  /\ ~done[current] /\ claimed[current] < ScanLimit
  /\ claimed' = [claimed EXCEPT ![current] = @ + 1]
  /\ Goto(w, "idle", "load")
  /\ reader' = [reader EXCEPT ![w] = current]
  /\ doc' = [doc EXCEPT ![w] = IF reader[w] = current THEN @ ELSE NoFile]
  /\ UNCHANGED <<queryVars, inputVars, done, decodeGlobal, slotVars, page, chunk, fault>>

\* TryInitializeScan refuses; the engine closes the file and tries the next.
RefuseScan(w) ==
  /\ query = "running"
  /\ pc[w] = "idle"
  /\ current \in Files /\ opened[current]
  /\ done[current] \/ claimed[current] >= ScanLimit
  /\ claimed' = [claimed EXCEPT ![current] = IF done[current] THEN @ ELSE @ + 1]
  /\ current' = current + 1
  /\ UNCHANGED <<query, interrupted, delivered, inputVars, done, decodeGlobal, slotVars, pc, localVars>>

\* No file is left for the thread, or the query has failed under it.
Retire(w) ==
  /\ current \notin Files \/ query # "running"
  /\ Goto(w, "idle", "end")
  /\ UNCHANGED <<queryVars, inputVars, claimVars, slotVars, localVars>>

\* The engine reports the exception of a thread; the first one counts.
Throw(t) ==
  /\ Goto(t, "throw", "end")
  /\ query' = IF query = "running" THEN fault[t] ELSE query
  /\ UNCHANGED <<interrupted, current, delivered, inputVars, claimVars, slotVars, localVars>>

Finish ==
  /\ query = "running"
  /\ current \notin Files
  /\ \A w \in Workers : pc[w] = "end"
  /\ query' = "ok"
  /\ UNCHANGED <<interrupted, current, delivered, inputVars, claimVars, slotVars, pc, localVars>>

-----------------------------------------------------------------------------
(* PdfNativeFileReader::LoadInput, run by open-ahead and scanning threads. *)

AfterLoad(t) == IF t \in Workers THEN "init" ELSE "idle"

\* The interrupt checks before input_mutex (Scan's own one included).
LoadCheck(t) ==
  /\ \/ interrupted /\ Raise(t, "load", "interrupt")
     \/ ~interrupted /\ Goto(t, "load", "lockInput") /\ UNCHANGED fault
  /\ UNCHANGED <<queryVars, inputVars, claimVars, slotVars, reader, doc, page, chunk>>

\* input_mutex is free and the bytes are there: return at once.
LoadAlready(t) ==
  /\ Goto(t, "lockInput", AfterLoad(t))
  /\ inputMutex[reader[t]] = NoThread
  /\ inputLoaded[reader[t]]
  /\ UNCHANGED <<queryVars, inputVars, claimVars, slotVars, localVars>>

\* Take input_mutex; bytes are read only when opening had not failed.
LoadAcquire(t) ==
  /\ pc[t] = "lockInput"
  /\ inputMutex[reader[t]] = NoThread
  /\ ~inputLoaded[reader[t]]
  /\ inputMutex' = [inputMutex EXCEPT ![reader[t]] = t]
  /\ Goto(t, "lockInput", IF inputError[reader[t]] = "none" THEN "read" ELSE "loaded")
  /\ UNCHANGED <<queryVars, opened, inputError, inputLoaded, claimVars, slotVars, localVars>>

\* ReadPdfHandleBytes: complete, an I/O error or short read, or stopped by
\* the interruption, which the handler stores like any other exception.
ReadHandle(t) ==
  /\ Goto(t, "read", "loaded")
  /\ \E error \in {"none", "io", "interrupt"} :
       /\ error = "interrupt" => interrupted
       /\ inputError' = [inputError EXCEPT ![reader[t]] = error]
  /\ UNCHANGED <<queryVars, opened, inputLoaded, inputMutex, claimVars, slotVars, localVars>>

\* Mutant: no interrupt check after the read.
LoadFinishUnchecked(t) ==
  /\ Goto(t, "loaded", AfterLoad(t))
  /\ inputMutex' = [inputMutex EXCEPT ![reader[t]] = NoThread]
  /\ inputLoaded' = [inputLoaded EXCEPT ![reader[t]] = TRUE]
  /\ UNCHANGED <<queryVars, opened, inputError, claimVars, slotVars, localVars>>

\* The check after the read, then input_loaded and the end of the guard.
LoadFinish(t) ==
  /\ pc[t] = "loaded"
  /\ inputMutex' = [inputMutex EXCEPT ![reader[t]] = NoThread]
  /\ \/ interrupted /\ Raise(t, "loaded", "interrupt") /\ UNCHANGED inputLoaded
     \/ /\ ~interrupted
        /\ Goto(t, "loaded", AfterLoad(t))
        /\ inputLoaded' = [inputLoaded EXCEPT ![reader[t]] = TRUE]
        /\ UNCHANGED fault
  /\ UNCHANGED <<queryVars, opened, inputError, claimVars, slotVars, reader, doc, page, chunk>>

-----------------------------------------------------------------------------
(* PdfNativeFileReader::Scan after the bytes are ready.                    *)

\* Mutant: every thread creates the decode state anew.
InitDecodeAlways(w) ==
  LET f == reader[w] IN
  /\ Goto(w, "init", "decode")
  /\ decodeGlobal' = [decodeGlobal EXCEPT ![f] = TRUE]
  /\ loadDone' = [loadDone EXCEPT ![f] = FALSE]
  /\ loadFailed' = [loadFailed EXCEPT ![f] = FALSE]
  /\ loadMutex' = [loadMutex EXCEPT ![f] = NoThread]
  /\ nextPage' = [nextPage EXCEPT ![f] = 0]
  /\ lastPage' = [lastPage EXCEPT ![f] = 0]
  /\ UNCHANGED <<queryVars, inputVars, claimed, done, localVars>>

\* Under init_mutex the first thread creates the shared decode state; a new
\* slot has nothing loaded and its cursor at 0.
InitDecode(w) ==
  LET f == reader[w] IN
  /\ Goto(w, "init", "decode")
  /\ decodeGlobal' = [decodeGlobal EXCEPT ![f] = TRUE]
  /\ IF decodeGlobal[f]
     THEN UNCHANGED slotVars
     ELSE /\ loadDone' = [loadDone EXCEPT ![f] = FALSE]
          /\ loadFailed' = [loadFailed EXCEPT ![f] = FALSE]
          /\ loadMutex' = [loadMutex EXCEPT ![f] = NoThread]
          /\ nextPage' = [nextPage EXCEPT ![f] = 0]
          /\ lastPage' = [lastPage EXCEPT ![f] = 0]
  /\ UNCHANGED <<queryVars, inputVars, claimed, done, localVars>>

\* ClaimNextPage found nothing: the thread drops its document and returns
\* the rows it has.
NoMorePages(w, from) ==
  /\ Goto(w, from, "return")
  /\ doc' = [doc EXCEPT ![w] = NoFile]

\* What EnsureFileSlotLoaded answers once load_done is set: a slot that
\* failed is passed over, strict mode or not.
SlotAnswer(w, from) ==
  /\ pc[w] = from
  /\ loadDone[reader[w]]
  /\ \/ ~loadFailed[reader[w]] /\ Goto(w, from, "claim") /\ UNCHANGED doc
     \/ loadFailed[reader[w]] /\ NoMorePages(w, from)

\* Head of the ReadPdfScan loop: the interrupt check.
DecodeInterrupted(w) ==
  /\ interrupted
  /\ Raise(w, "decode", "interrupt")
  /\ UNCHANGED <<queryVars, inputVars, claimVars, slotVars, reader, doc, page, chunk>>

\* Then the acquire load of load_done: unset, the mutex is next.
DecodeUnloaded(w) ==
  /\ ~interrupted
  /\ Goto(w, "decode", "lockSlot")
  /\ ~loadDone[reader[w]]
  /\ UNCHANGED <<queryVars, inputVars, claimVars, slotVars, localVars>>

\* Set, the slot answers without the mutex.
DecodeLoaded(w) ==
  /\ ~interrupted
  /\ SlotAnswer(w, "decode")
  /\ UNCHANGED <<queryVars, inputVars, claimVars, slotVars, reader, page, chunk, fault>>

\* Mutant: load_done is not tested again under load_mutex.
LockSlotUnchecked(w) ==
  /\ Goto(w, "lockSlot", "loadSlot")
  /\ loadMutex[reader[w]] = NoThread
  /\ loadMutex' = [loadMutex EXCEPT ![reader[w]] = w]
  /\ UNCHANGED <<queryVars, inputVars, claimVars, loadDone, loadFailed, nextPage, lastPage, localVars>>

\* Under load_mutex load_done is tested again, and the slot is loaded only
\* if it is still unset.
LockSlot(w) ==
  LET f == reader[w] IN
  /\ Goto(w, "lockSlot", "loadSlot")
  /\ loadMutex[f] = NoThread
  /\ ~loadDone[f]
  /\ loadMutex' = [loadMutex EXCEPT ![f] = w]
  /\ UNCHANGED <<queryVars, inputVars, claimVars, loadDone, loadFailed, nextPage, lastPage, localVars>>

LockSlotLoaded(w) ==
  /\ SlotAnswer(w, "lockSlot")
  /\ loadMutex[reader[w]] = NoThread
  /\ UNCHANGED <<queryVars, inputVars, claimVars, slotVars, reader, page, chunk, fault>>

\* The probe document opens: page bounds and cursor are set. Nothing is
\* published yet.
LoadSlot(w) ==
  LET f == reader[w] IN
  /\ Goto(w, "loadSlot", "publish")
  /\ inputError[f] = "none"
  /\ lastPage' = [lastPage EXCEPT ![f] = LastOf(f)]
  /\ nextPage' = [nextPage EXCEPT ![f] = FirstOf(f)]
  /\ loadFailed' = [loadFailed EXCEPT ![f] = FALSE]
  /\ UNCHANGED <<queryVars, inputVars, claimVars, loadDone, loadMutex, localVars>>

\* The stored input error is rethrown, or the probe cannot open the bytes.
LoadSlotFails(w) ==
  LET f == reader[w] IN
  /\ Goto(w, "loadSlot", "publish")
  /\ loadFailed' = [loadFailed EXCEPT ![f] = TRUE]
  /\ UNCHANGED <<queryVars, inputVars, claimVars, loadDone, loadMutex, nextPage, lastPage, localVars>>

\* The release store of load_done and the end of the guard.
ReleaseSlot(w) ==
  /\ loadDone' = [loadDone EXCEPT ![reader[w]] = TRUE]
  /\ loadMutex' = [loadMutex EXCEPT ![reader[w]] = NoThread]
  /\ UNCHANGED <<queryVars, inputVars, claimVars, loadFailed, nextPage, lastPage, reader, page, chunk>>

PublishSlot(w) ==
  /\ Goto(w, "publish", "claim")
  /\ ~loadFailed[reader[w]]
  /\ ReleaseSlot(w)
  /\ UNCHANGED <<doc, fault>>

\* Mutant: a failed load is passed over in strict mode too.
PublishFailureSilent(w) ==
  /\ pc[w] = "publish"
  /\ loadFailed[reader[w]]
  /\ ReleaseSlot(w)
  /\ NoMorePages(w, "publish")
  /\ UNCHANGED fault

\* The thread that met the error reports it, unless errors are ignored.
PublishFailure(w) ==
  /\ pc[w] = "publish"
  /\ loadFailed[reader[w]]
  /\ ReleaseSlot(w)
  /\ \/ ~IgnoreErrors /\ Raise(w, "publish", "load") /\ UNCHANGED doc
     \/ IgnoreErrors /\ NoMorePages(w, "publish") /\ UNCHANGED fault

\* Mutant: the fast path gives up one page early.
ClaimCheckEarly(w) ==
  LET f == reader[w] IN
  /\ pc[w] = "claim"
  /\ \/ nextPage[f] + 1 < lastPage[f] /\ Goto(w, "claim", "fetch") /\ UNCHANGED doc
     \/ nextPage[f] + 1 >= lastPage[f] /\ NoMorePages(w, "claim")
  /\ UNCHANGED <<queryVars, inputVars, claimVars, slotVars, reader, page, chunk, fault>>

\* ClaimNextPage, fast path: a relaxed look at the cursor.
ClaimCheck(w) ==
  LET f == reader[w] IN
  /\ pc[w] = "claim"
  /\ \/ nextPage[f] < lastPage[f] /\ Goto(w, "claim", "fetch") /\ UNCHANGED doc
     \/ nextPage[f] >= lastPage[f] /\ NoMorePages(w, "claim")
  /\ UNCHANGED <<queryVars, inputVars, claimVars, slotVars, reader, page, chunk, fault>>

\* Mutant: the cursor is read and not advanced.
ClaimFetchStuck(w) ==
  /\ Goto(w, "fetch", "page")
  /\ page' = [page EXCEPT ![w] = nextPage[reader[w]]]
  /\ UNCHANGED <<queryVars, inputVars, claimVars, slotVars, reader, doc, chunk, fault>>

\* ClaimNextPage, the atomic fetch_add: other threads may have taken the
\* pages that were left when this one looked.
ClaimFetch(w) ==
  LET f == reader[w] IN
  /\ pc[w] = "fetch"
  /\ nextPage' = [nextPage EXCEPT ![f] = @ + 1]
  /\ \/ /\ nextPage[f] < lastPage[f] /\ Goto(w, "fetch", "page")
        /\ page' = [page EXCEPT ![w] = nextPage[f]]
        /\ UNCHANGED doc
     \/ nextPage[f] >= lastPage[f] /\ NoMorePages(w, "fetch") /\ UNCHANGED page
  /\ UNCHANGED <<queryVars, inputVars, claimVars, loadDone, loadFailed, loadMutex, lastPage,
                 reader, chunk, fault>>

\* The private document is opened if the thread has none; the row is named
\* after the document it came from. The chunk goes back when it is full.
ProcessPage(w) ==
  LET from == IF doc[w] = NoFile THEN reader[w] ELSE doc[w]
      rows == chunk[w] \cup {<<from, page[w]>>}
  IN
  /\ doc' = [doc EXCEPT ![w] = from]
  /\ chunk' = [chunk EXCEPT ![w] = rows]
  /\ Goto(w, "page", IF Cardinality(rows) < ChunkRows THEN "decode" ELSE "return")
  /\ UNCHANGED <<queryVars, inputVars, claimVars, slotVars, reader, page, fault>>

\* Mutant: ignore_errors swallows the failure of a claimed page.
PageFailsIgnored(w) ==
  /\ Goto(w, "page", "return")
  /\ UNCHANGED <<queryVars, inputVars, claimVars, slotVars, localVars>>

\* Opening the private document or a required OCR throws: the claimed page
\* is lost, and ignore_errors does not cover it.
PageFails(w) ==
  /\ Raise(w, "page", "page")
  /\ UNCHANGED <<queryVars, inputVars, claimVars, slotVars, reader, doc, page, chunk>>

\* Scan returns: an empty chunk marks the reader done and sends the thread
\* to the engine for another file, a chunk with rows brings it back here.
ReturnChunk(w) ==
  LET f == reader[w] IN
  /\ pc[w] = "return"
  /\ delivered' = delivered \cup chunk[w]
  /\ chunk' = [chunk EXCEPT ![w] = {}]
  /\ done' = [done EXCEPT ![f] = @ \/ chunk[w] = {}]
  /\ Goto(w, "return", IF chunk[w] = {} \/ query # "running" THEN "idle" ELSE "load")
  /\ UNCHANGED <<query, interrupted, current, inputVars, claimed, decodeGlobal, slotVars,
                 reader, doc, page, fault>>

-----------------------------------------------------------------------------
LoadInput(t) ==
  LoadCheck(t) \/ LoadAlready(t) \/ LoadAcquire(t) \/ ReadHandle(t) \/ LoadFinish(t)

ReadPdfScan(w) ==
  \/ InitDecode(w) \/ DecodeInterrupted(w) \/ DecodeUnloaded(w) \/ DecodeLoaded(w)
  \/ LockSlot(w) \/ LockSlotLoaded(w) \/ LoadSlot(w) \/ LoadSlotFails(w)
  \/ PublishSlot(w) \/ PublishFailure(w)
  \/ ClaimCheck(w) \/ ClaimFetch(w)
  \/ ProcessPage(w) \/ PageFails(w) \/ ReturnChunk(w)

WorkerStep(w) ==
  AdmitScan(w) \/ RefuseScan(w) \/ Retire(w) \/ LoadInput(w) \/ ReadPdfScan(w) \/ Throw(w)

IoStep(t) == LoadInput(t) \/ Throw(t)

\* A finished query does nothing more.
Stopped == query # "running" /\ (\A t \in Workers : pc[t] = "end") /\ UNCHANGED vars

Next ==
  \/ Interrupt
  \/ \E f \in Files : OpenFile(f) \/ OpenInterrupted(f)
  \/ \E t \in IoThreads : IoStep(t) \/ \E f \in Files : ScheduleIO(t, f)
  \/ \E w \in Workers : WorkerStep(w)
  \/ Finish
  \/ Stopped

\* The engine opens the files of a running query, gives every thread time
\* and ends the query; nothing obliges it to interrupt or to read ahead.
Fairness ==
  /\ \A f \in Files : WF_vars(OpenFile(f) \/ OpenInterrupted(f))
  /\ \A t \in IoThreads : WF_vars(IoStep(t))
  /\ \A w \in Workers : WF_vars(WorkerStep(w))
  /\ WF_vars(Finish)

Spec == Init /\ [][Next]_vars
FairSpec == Spec /\ Fairness

-----------------------------------------------------------------------------
(* Properties.                                                             *)

ProgramPoints ==
  {"idle", "load", "lockInput", "read", "loaded", "init", "decode", "lockSlot", "loadSlot",
   "publish", "claim", "fetch", "page", "return", "throw", "end"}

Faults == {"interrupt", "load", "page"}

QueryTypes ==
  /\ query \in {"running", "ok"} \cup Faults
  /\ interrupted \in BOOLEAN
  /\ current \in 1..(NFiles + 1)
  /\ delivered \subseteq Files \X Nat

InputTypes ==
  /\ opened \in [Files -> BOOLEAN]
  /\ inputError \in [Files -> {"none", "io", "interrupt"}]
  /\ inputLoaded \in [Files -> BOOLEAN]
  /\ inputMutex \in [Files -> Threads \cup {NoThread}]

ClaimTypes ==
  /\ claimed \in [Files -> Nat]
  /\ done \in [Files -> BOOLEAN]
  /\ decodeGlobal \in [Files -> BOOLEAN]

SlotTypes ==
  /\ loadDone \in [Files -> BOOLEAN]
  /\ loadFailed \in [Files -> BOOLEAN]
  /\ loadMutex \in [Files -> Workers \cup {NoThread}]
  /\ nextPage \in [Files -> Nat]
  /\ lastPage \in [Files -> Nat]

LocalTypes ==
  /\ reader \in [Threads -> 0..NFiles]
  /\ doc \in [Threads -> 0..NFiles]
  /\ page \in [Threads -> Nat]
  /\ chunk \in [Threads -> SUBSET (Files \X Nat)]
  /\ fault \in [Threads -> Faults \cup {"none"}]

\* The types of the variables.
TypeOK ==
  /\ QueryTypes
  /\ InputTypes
  /\ ClaimTypes
  /\ SlotTypes
  /\ pc \in [Threads -> ProgramPoints]
  /\ LocalTypes

\* Rows a thread is about to produce: the claimed page, named after the
\* document it will be read from.
Pending(w) ==
  IF pc[w] = "page" THEN {<<IF doc[w] = NoFile THEN reader[w] ELSE doc[w], page[w]>>} ELSE {}

\* A page is claimed, buffered or returned once: whatever two threads hold
\* never overlaps, and nothing held was returned before (the atomic cursor of
\* ClaimNextPage, the once-only decode_global, the fresh decode_local).
EachPageOnce ==
  /\ \A w \in Workers :
       /\ Pending(w) \cap chunk[w] = {}
       /\ (Pending(w) \cup chunk[w]) \cap delivered = {}
  /\ \A u, v \in Workers :
       u # v => (Pending(u) \cup chunk[u]) \cap (Pending(v) \cup chunk[v]) = {}

\* An unfinished file is never abandoned: when a reader is marked done, or
\* has admitted its last scan state, each page its slot still has unclaimed
\* belongs to a thread that is inside the reader (TryInitializeScan, Scan).
NoPageAbandoned ==
  \A f \in Files :
    query = "running" /\ (done[f] \/ claimed[f] >= ScanLimit) =>
      \/ loadDone[f] /\ (loadFailed[f] \/ nextPage[f] >= lastPage[f])
      \/ \E w \in Workers : reader[w] = f /\ pc[w] \notin {"idle", "end"}

\* A cancelled read is never taken for an unreadable file: no bytes count as
\* loaded, and no slot fails, on an error that is the interruption
\* (the second check of LoadInput).
InterruptIsNoFileError ==
  \A f \in Files : inputError[f] = "interrupt" => ~inputLoaded[f] /\ ~loadFailed[f]

\* In strict mode a file that failed to load always fails the query, although
\* the other threads pass over its slot in silence (EnsureFileSlotLoaded).
StrictReportsFailure ==
  query = "ok" /\ ~IgnoreErrors => \A f \in Files : ~loadFailed[f]

\* The scan keeps the promise of PageDelivery.
Skipped == {f \in Files : IgnoreErrors /\ loadDone[f] /\ loadFailed[f]}
Outcome == IF query \in {"running", "ok"} THEN query ELSE "failed"
Promise == INSTANCE PageDelivery WITH skipped <- Skipped, outcome <- Outcome

\* Every page the options select is returned once, a file is left out only
\* under ignore_errors, and a query that cannot keep this ends in an error.
KeepsPromise == Promise!Spec

\* A scan always comes to an end, in success or in an error.
Terminates == <>(query # "running")
=============================================================================
