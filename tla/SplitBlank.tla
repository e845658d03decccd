----------------------------- MODULE SplitBlank -----------------------------
(***************************************************************************)
(* pdf_split_blank: which pages separate documents, and the runs of pages  *)
(* between them.                                                           *)
(*                                                                         *)
(* A page is readable or not, has glyphs or not, and is drawn as a raster  *)
(* of white and other pixels, or cannot be drawn. The threshold is a       *)
(* percentage.                                                             *)
(***************************************************************************)
EXTENDS Integers, Sequences

PageRendersNearWhite(page, threshold) ==
  /\ page.drawn
  /\ page.pixels > 0
  /\ page.white * 100 >= threshold * page.pixels

\* A page that cannot be read never separates.
IsSeparator(page, threshold) ==
  page.readable /\ ~page.glyphs /\ PageRendersNearWhite(page, threshold)

\* One turn of the loop over pages: run.start is 0 outside a run.
ExtendRun(run, separates, page) ==
  IF separates
    THEN [start |-> 0,
          ranges |-> IF run.start = 0 THEN run.ranges ELSE Append(run.ranges, <<run.start, page - 1>>)]
    ELSE [run EXCEPT !.start = IF @ = 0 THEN page ELSE @]

\* The loop over the pages, from the first to the last.
RunAt(scan) ==
  LET run[p \in 0..Len(scan.pages)] ==
        IF p = 0 THEN [start |-> 0, ranges |-> <<>>]
        ELSE ExtendRun(run[p - 1], IsSeparator(scan.pages[p], scan.threshold), p)
  IN run

\* Mutant: a run that lasts to the end is forgotten.
ClosedRanges(scan) == RunAt(scan)[Len(scan.pages)].ranges

Ranges(scan) ==
  LET run == RunAt(scan)[Len(scan.pages)]
  IN IF run.start = 0 THEN run.ranges ELSE Append(run.ranges, <<run.start, Len(scan.pages)>>)

PdfSplitBlankExecute(scan) ==
  [k \in DOMAIN Ranges(scan) |->
     [document |-> k, first |-> Ranges(scan)[k][1], last |-> Ranges(scan)[k][2],
      count |-> Ranges(scan)[k][2] - Ranges(scan)[k][1] + 1]]

-----------------------------------------------------------------------------
Blank(scan, p) ==
  LET page == scan.pages[p]
  IN page.readable /\ ~page.glyphs /\ page.drawn /\ page.pixels > 0
       /\ 100 * (page.pixels - page.white) <= (100 - scan.threshold) * page.pixels

\* Every page that does not separate is in exactly one document, no separator is
\* in any, documents are in page order and as long as they can be, and only a page
\* that was read, has no glyphs and was seen to be white enough separates.
ContentInRuns(scan, rows) ==
  LET n == Len(scan.pages)
      in(p) == {k \in DOMAIN rows : rows[k].first <= p /\ p <= rows[k].last}
  IN /\ \A p \in 1..n : IF Blank(scan, p) THEN in(p) = {} ELSE \E k \in DOMAIN rows : in(p) = {k}
     /\ \A k \in DOMAIN rows :
          /\ rows[k].document = k
          /\ 1 <= rows[k].first /\ rows[k].last <= n
          /\ rows[k].count = rows[k].last - rows[k].first + 1 /\ rows[k].count > 0
          /\ rows[k].first > 1 => Blank(scan, rows[k].first - 1)
          /\ rows[k].last < n => Blank(scan, rows[k].last + 1)
          /\ k > 1 => rows[k - 1].last < rows[k].first
=============================================================================
