--------------------------- MODULE RowReadersInv ---------------------------
(***************************************************************************)
(* The inductive invariant behind RowReadersProofs: where each kind of     *)
(* function stands in its answer, in terms of the cursors it keeps between *)
(* two calls.                                                              *)
(***************************************************************************)
EXTENDS RowReaders

Rows == (1..MaxEntries) \X (1..MaxRows)
FileFunctions == {"pdf_info", "pdf_qpdf_info"}
Cursored == ByPage \cup {"pdf_page_images", "pdf_redact_lateral"}
Vectored == AllFunctions \ (FileFunctions \cup Cursored)

Points == {"init", "idle", "scan", "collect", "done", "failed"}

TypeOK ==
  /\ call.fn \in Functions
  /\ call \in Calls(call.fn)
  /\ doc \in Documents(call.fn)
  /\ pc \in Points
  /\ taken \in BOOLEAN
  /\ live \in BOOLEAN
  /\ cur \in Nat
  /\ item \in Nat
  /\ rows \in Seq(Rows)
  /\ rowIdx \in Nat
  /\ given \in Seq(Rows)
  /\ handed \in Nat
  /\ base \in Nat
  /\ size \in Nat

Before(a, b) == a[1] < b[1] \/ (a[1] = b[1] /\ a[2] < b[2])
Sorted(s) == \A i, j \in 1..Len(s) : i < j => Before(s[i], s[j])
IsIn(r, s) == \E i \in 1..Len(s) : s[i] = r

\* The chunk under construction.
ChunkInv ==
  /\ handed <= Len(given)
  /\ Len(given) - handed <= VectorSize
  /\ pc \in {"init", "collect", "idle", "done"} => handed = Len(given)

\* Row r lies behind the position: k rows of entry e + 1.
Behind(r, e, k) == r[1] <= e \/ (r[1] = e + 1 /\ r[2] <= k)

\* s holds the rows of the answer behind the position, in order; or all of them.
HoldsOf(answer, s, e, k) ==
  /\ Sorted(s)
  /\ \A r \in Rows : IsIn(r, s) <=> r \in answer /\ Behind(r, e, k)
Holds(s, e, k) == HoldsOf(Expected, s, e, k)

HoldsAllOf(answer, s) ==
  /\ Sorted(s)
  /\ \A r \in Rows : IsIn(r, s) <=> r \in answer
HoldsAll(s) == HoldsAllOf(Expected, s)

\* No entry that the walk has passed, up to e, was one to fail on.
Broken == {e \in 1..Len(Entries) : Throws(e)}
Clean(e) == \A b \in Broken : b <= FirstPage0 \/ b > e
Skipped == ~doc.opens /\ call.fn \in Tolerant /\ call.ignore

\* Functions that fill a vector: what was emitted is its first rowIdx rows.
VectorInv ==
  /\ pc = "init" => ~taken
  /\ pc = "collect" => taken /\ doc.opens
  /\ pc \in {"init", "collect"} => rowIdx = 0
  /\ ~taken => rows = <<>>
  /\ call.fn \in AtInit /\ pc \in {"idle", "scan", "done"} => taken
  /\ rowIdx = Len(given)
  /\ rowIdx <= Len(rows)
  /\ \A i \in 1..rowIdx : given[i] = rows[i]
  /\ pc = "collect" =>
       /\ cur >= FirstPage0
       /\ cur < LastPage0 => item <= Entries[cur + 1].rows
       /\ cur >= LastPage0 => item = 0
       /\ Holds(rows, cur, item)
       /\ Clean(cur)
  /\ taken /\ pc \in {"idle", "scan", "done"} =>
       /\ HoldsAll(rows)
       /\ doc.opens \/ Skipped
       /\ Clean(LastPage0)
  /\ pc = "done" => taken /\ rowIdx = Len(rows)

\* Functions that read and write one row per file.
FileInv ==
  /\ pc \in {"idle", "scan", "done", "failed"}
  /\ ~taken => given = <<>> /\ pc # "done"
  /\ taken /\ pc # "failed" =>
       /\ given = IF doc.opens THEN <<TheRow>> ELSE <<>>
       /\ doc.opens \/ Skipped

Position == base + cur

PagedInv ==
  /\ pc \in {"init", "idle", "scan", "done"}
  /\ pc = "init" => ~live /\ given = <<>>
  /\ pc # "init" => doc.opens
  /\ live =>
       /\ cur >= FirstPage0
       /\ rows = IF cur < LastPage0 THEN RowsOf(cur + 1) ELSE <<>>
       /\ rowIdx <= Len(rows)
       /\ Holds(given, cur, rowIdx)
       /\ Clean(cur + 1)
  /\ ~live /\ pc # "init" => HoldsAll(given) /\ Clean(LastPage0)
  /\ pc = "done" => ~live

ImagesInv ==
  /\ pc \in {"idle", "scan", "done"}
  /\ taken <=> live
  /\ taken => doc.opens /\ cur >= FirstPage0
  /\ ~taken => given = <<>>
  /\ Holds(given, cur, 0)
  /\ Clean(cur)
  /\ pc = "done" => taken /\ cur >= LastPage0

LateralInv ==
  /\ pc \in {"idle", "scan", "done"}
  /\ doc.opens
  /\ cur <= size
  /\ base + size <= Len(Entries)
  /\ IF live
       THEN /\ cur < size
            /\ rows = RowsOf(InputRow)
            /\ rowIdx <= Len(rows)
       ELSE rowIdx = 0
  /\ Holds(given, Position, rowIdx)
  /\ Clean(IF live THEN Position + 1 ELSE Position)
  /\ pc = "done" => base = Len(Entries) /\ cur = 0

IInv ==
  /\ TypeOK
  /\ ChunkInv
  /\ FailsOnlyForCause
  /\ call.fn # "pdf_redact_lateral" => base = 0 /\ size = 0
  /\ call.fn \in Vectored => VectorInv
  /\ call.fn \in FileFunctions => FileInv
  /\ pc # "failed" =>
       /\ call.fn \in ByPage => PagedInv
       /\ call.fn = "pdf_page_images" => ImagesInv
       /\ call.fn = "pdf_redact_lateral" => LateralInv
=============================================================================
