------------------------------ MODULE Revisions ------------------------------
(***************************************************************************)
(* pdf_revisions: the incremental updates of a file, found by a scan for   *)
(* "startxref <offset> %%EOF" and a walk of the /Prev links from the last  *)
(* of them.                                                                *)
(*                                                                         *)
(* A file is a sequence of tokens, and an offset is the number of tokens   *)
(* before it. A "table" (xref ... trailer) and a "stream" (a dictionary of *)
(* type XRef) carry the value of /Prev, or NoPrev; so does an "object",    *)
(* any other dictionary, which may have a /Prev of its own (a bookmark's). *)
(* A keyword that is not preceded by white space is glued to its left      *)
(* neighbour. The windows of 2 MB and 256 KB in which trailers and         *)
(* dictionaries are looked for are taken as long enough.                   *)
(***************************************************************************)
EXTENDS Integers, Sequences, SequencesExt, FiniteSetsExt

NoPrev == -1
IsDictionary(token) == token.kind \in {"table", "stream", "object"}

\* A startxref keyword whose number and %%EOF follow.
Complete(file, i) ==
  /\ file[i].kind = "startxref"
  /\ ~file[i].glued
  /\ i + 2 <= Len(file)
  /\ file[i + 1].kind = "number"
  /\ file[i + 2].kind = "eof"

\* The scan over the tokens; it resumes after a complete section and one byte after
\* a failed keyword.
Found(file) ==
  LET found[i \in 0..Len(file)] ==
        IF i = 0 THEN <<>>
        ELSE IF Complete(file, i) THEN Append(found[i - 1], [xref |-> file[i + 1].value, eof |-> i + 2])
        ELSE found[i - 1]
  IN found

PdfFindStartxrefSections(file) == Found(file)[Len(file)]

\* /Prev of the trailer at the offset, or of the first dictionary after it, whatever
\* that describes.
PdfReadPrevAtXref(file, offset) ==
  LET after == {i \in DOMAIN file : i > offset /\ IsDictionary(file[i])}
      dict == file[Min(after)]
  IN IF offset >= Len(file) \/ after = {} THEN NoPrev ELSE dict.value

\* Mutant: the first one.
FirstByXref(sections, offset) ==
  sections[Min({k \in DOMAIN sections : sections[k].xref = offset})]

\* The last section that names an offset.
ByXref(sections, offset) ==
  sections[Max({k \in DOMAIN sections : sections[k].xref = offset})]

Observed(sections, offset) == \E k \in DOMAIN sections : sections[k].xref = offset

\* One turn of the walk: chain is newest first, cur is where it leads.
Turn(file, sections, walk) ==
  IF walk.cur < 0 \/ (\E k \in DOMAIN walk.chain : walk.chain[k].xref = walk.cur) \/ ~Observed(sections, walk.cur)
    THEN walk
    ELSE [cur |-> PdfReadPrevAtXref(file, walk.cur), chain |-> Append(walk.chain, ByXref(sections, walk.cur))]

\* The walk from the newest section. A turn that does not stop it adds a section to
\* the chain, so there are no more of them than sections.
Walk(file, sections) ==
  LET walk[n \in 0..Len(sections)] ==
        IF n = 0 THEN [cur |-> Last(sections).xref, chain |-> <<>>] ELSE Turn(file, sections, walk[n - 1])
  IN walk

PrevChain(file, sections) == Reverse(Walk(file, sections)[Len(sections)].chain)

EnumeratePdfRevisions(file) ==
  LET sections == PdfFindStartxrefSections(file)
      chain == PrevChain(file, sections)
      eof(i) == IF i = 0 THEN 0 ELSE chain[i].eof
      size(i) == IF eof(i) < eof(i - 1) THEN 0 ELSE eof(i) - eof(i - 1)
  IN IF sections = <<>> THEN <<>>
     ELSE [i \in DOMAIN chain |->
            [xref |-> chain[i].xref, eof |-> chain[i].eof, size |-> size(i), incremental |-> i > 1]]

-----------------------------------------------------------------------------
\* The rows are the links of one chain: it ends at the offset the file names
\* last, each row is the /Prev of the next, no offset comes twice, and the chain
\* starts only where /Prev ends, leaves the sections that were seen, or returns
\* into the chain.
FollowsPrev(file, rows) ==
  LET sections == PdfFindStartxrefSections(file)
      oldest == PdfReadPrevAtXref(file, rows[1].xref)
  IN /\ rows = <<>> <=> sections = <<>>
     /\ rows # <<>> =>
          /\ Last(rows).xref = Last(sections).xref
          /\ Last(rows).eof = Last(sections).eof
          /\ \A i \in 2..Len(rows) : PdfReadPrevAtXref(file, rows[i].xref) = rows[i - 1].xref
          /\ \A i, j \in DOMAIN rows : rows[i].xref = rows[j].xref => i = j
          /\ \A i \in DOMAIN rows, k \in DOMAIN sections :
               sections[k].xref = rows[i].xref => sections[k].eof <= rows[i].eof
          /\ oldest = NoPrev \/ ~Observed(sections, oldest) \/ \E i \in DOMAIN rows : rows[i].xref = oldest

\* In a file that only grew, each update pointing at the one before it, every
\* section is a row and the sizes add up to the end of the last one.
Grown(file) ==
  LET s == PdfFindStartxrefSections(file)
  IN /\ s # <<>>
     /\ PdfReadPrevAtXref(file, s[1].xref) = NoPrev
     /\ \A k \in 2..Len(s) : PdfReadPrevAtXref(file, s[k].xref) = s[k - 1].xref
     /\ \A j, k \in DOMAIN s : s[j].xref = s[k].xref => j = k
CountsUpdates(file, rows) ==
  LET total[i \in 0..Len(rows)] == IF i = 0 THEN 0 ELSE total[i - 1] + rows[i].size
  IN Grown(file) =>
       /\ Len(rows) = Len(PdfFindStartxrefSections(file))
       /\ total[Len(rows)] = Last(rows).eof
=============================================================================
