---------------------------- MODULE PageScanInv ----------------------------
(***************************************************************************)
(* The inductive invariant behind the theorems of PageScanProofs. What     *)
(* makes it inductive is the bookkeeping a reader of ClaimNextPage does in *)
(* the margin: which thread may be where, what each program point knows of *)
(* the slot, and that every row in flight lies below the cursor.           *)
(***************************************************************************)
EXTENDS PageScan

LoadPoints == {"load", "lockInput", "read", "loaded"}
DecodePoints == {"decode", "lockSlot", "loadSlot", "publish", "claim", "fetch", "page", "return"}
ScanPoints == LoadPoints \cup {"init"} \cup DecodePoints

\* A page of f that the cursor has passed.
Passed(f, p) == FirstOf(f) <= p /\ p < nextPage[f] /\ p < LastOf(f)

Readable(f) == loadDone[f] /\ ~loadFailed[f]

\* Nothing is left to claim in the slot of f.
Drained(f) == loadDone[f] /\ (loadFailed[f] \/ nextPage[f] >= lastPage[f])

\* Where threads can be, and that a thread in a scan has a reader.
ThreadsInPlace ==
  /\ \A t \in Threads : pc[t] \in ScanPoints => reader[t] \in Files
  /\ \A t \in Threads \ Workers : pc[t] \in LoadPoints \cup {"idle", "throw", "end"}
  /\ \A t \in Threads : pc[t] = "throw" => fault[t] # "none"
  /\ \A w \in Workers : doc[w] \in {NoFile, reader[w]}

\* A thread reads the bytes of a file under its mutex and before they count as
\* loaded, and decodes only after.
ReadingAt(t) ==
  pc[t] \in {"read", "loaded"} => inputMutex[reader[t]] = t /\ ~inputLoaded[reader[t]]

BytesAt(w) == pc[w] \in {"init"} \cup DecodePoints => inputLoaded[reader[w]]

InputAt(f) ==
  /\ loadFailed[f] => inputLoaded[f]
  /\ inputError[f] = "interrupt" => interrupted /\ ~inputLoaded[f]

InputKept ==
  /\ \A t \in Threads : ReadingAt(t)
  /\ \A w \in Workers : BytesAt(w)
  /\ \A f \in Files : InputAt(f)

\* The decode state of a reader, before and after it is created.
DecodeStates ==
  /\ \A w \in Workers : pc[w] \in DecodePoints => decodeGlobal[reader[w]]
  /\ \A f \in Files : ~decodeGlobal[f] =>
       ~loadDone[f] /\ ~loadFailed[f] /\ loadMutex[f] = NoThread

\* A thread loads a slot only under its mutex and before load_done is set,
\* and what it is about to publish is the page range or a failure.
LoadingAt(w) ==
  /\ pc[w] \in {"loadSlot", "publish"} => loadMutex[reader[w]] = w /\ ~loadDone[reader[w]]
  /\ pc[w] = "publish" /\ ~loadFailed[reader[w]] =>
       lastPage[reader[w]] = LastOf(reader[w]) /\ nextPage[reader[w]] = FirstOf(reader[w])

SlotAt(f) ==
  /\ ~loadDone[f] /\ loadFailed[f] => \E w \in Workers : reader[w] = f /\ pc[w] = "publish"
  /\ Readable(f) => lastPage[f] = LastOf(f) /\ FirstOf(f) <= nextPage[f]

SlotLoading ==
  /\ \A w \in Workers : LoadingAt(w)
  /\ \A f \in Files : SlotAt(f)

\* What a thread knows at each point of ClaimNextPage.
ClaimAt(w) ==
  /\ pc[w] \in {"claim", "fetch", "page"} => Readable(reader[w])
  /\ pc[w] = "page" => Passed(reader[w], page[w])
  /\ pc[w] = "return" => chunk[w] # {} \/ Drained(reader[w])

ClaimPoints == \A w \in Workers : ClaimAt(w)

\* Rows in flight and rows returned lie below the cursor of a readable file.
RowsAt(w) ==
  /\ \A r \in chunk[w] : r[1] = reader[w] /\ Readable(r[1]) /\ Passed(r[1], r[2])
  /\ pc[w] \notin DecodePoints \cup {"throw", "end"} => chunk[w] = {}

RowsBelowCursor ==
  /\ \A w \in Workers : RowsAt(w)
  /\ \A r \in delivered : Readable(r[1]) /\ Passed(r[1], r[2])

\* A page the cursor has passed was returned, or is with a thread, or with
\* a thread that is about to fail the query.
HeldBy(f, p, w) == <<f, p>> \in chunk[w] \cup Pending(w) \/ pc[w] = "throw"

PageKept(f, p) == <<f, p>> \in delivered \/ \E w \in Workers : HeldBy(f, p, w)

Alive == query \in {"running", "ok"}

\* No page is lost while the query runs.
NoPageLost ==
  Alive =>
    /\ \A f \in Files : Readable(f) =>
         \A p \in 0..(PageCount[f] - 1) : Passed(f, p) => PageKept(f, p)
    /\ \A w \in Workers : pc[w] = "end" => chunk[w] = {}

\* A reader that has admitted somebody is drained or has somebody inside.
Inside(w, f) == reader[w] = f /\ pc[w] \in ScanPoints \cup {"throw"}

Attended(f) ==
  /\ done[f] => Drained(f)
  /\ claimed[f] > 0 /\ ~done[f] => \E w \in Workers : Inside(w, f)
  /\ f < current => claimed[f] > 0 \/ done[f]

ReadersAttended == Alive => \A f \in Files : Attended(f)

\* A failed slot has been, or is about to be, reported in strict mode; a
\* query that ended well has nobody at work.
FailureReported ==
  /\ Alive /\ ~IgnoreErrors =>
       \A f \in Files : loadDone[f] /\ loadFailed[f] => \E w \in Workers : pc[w] = "throw"
  /\ query = "ok" => current \notin Files /\ \A w \in Workers : pc[w] = "end"

IInv ==
  /\ TypeOK
  /\ ThreadsInPlace
  /\ InputKept
  /\ DecodeStates
  /\ SlotLoading
  /\ ClaimPoints
  /\ RowsBelowCursor
  /\ EachPageOnce
  /\ NoPageLost
  /\ ReadersAttended
  /\ FailureReported
=============================================================================
