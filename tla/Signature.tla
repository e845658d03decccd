------------------------------ MODULE Signature ------------------------------
(***************************************************************************)
(* pdf_sign and pdf_signatures: placeholders for the byte range and the    *)
(* signature are written, found again by a search in the bytes and patched *)
(* in place, and the result is read back before it is published.           *)
(*                                                                         *)
(* A file is a sequence of tokens of one byte each: plain "text", a        *)
(* "range" (a /ByteRange with its array) or a "hole" (a long run of zeros  *)
(* between < and >). One range and one hole belong to the new signature    *)
(* (mine); the search may meet others that the document happened to have.  *)
(* A signature is the message it was made over: CMS itself is not modelled.*)
(***************************************************************************)
EXTENDS Integers, Sequences, SequencesExt

CONSTANT Sentinel    (* 9999999999, an offset beyond the end of any file *)

Placeholder == <<0, Sentinel, Sentinel, Sentinel>>

Token(kind) == [kind |-> kind, mine |-> FALSE, text |-> 0, range |-> <<>>, wide |-> TRUE, over |-> <<>>]
MyRange == [Token("range") EXCEPT !.mine = TRUE, !.range = Placeholder]
MyHole == [Token("hole") EXCEPT !.mine = TRUE]

FirstToken(file, kind) == SelectInSeq(file, LAMBDA t : t.kind = kind)
Mine(file, kind) == SelectInSeq(file, LAMBDA t : t.kind = kind /\ t.mine)

\* off, len of span k of a range.
SpanOk(file, off, len) == off <= Len(file) /\ len <= Len(file) - off
Spans(range) == 1..(Len(range) \div 2)
Off(range, k) == range[2 * k - 1]
Extent(range, k) == range[2 * k]

\* The signed bytes a range names: the spans one after another, nothing when one of
\* them leaves the file.
Message(file, range) ==
  IF \E k \in Spans(range) : ~SpanOk(file, Off(range, k), Extent(range, k))
    THEN <<>>
    ELSE FlattenSeq([k \in Spans(range) |->
                       SubSeq(file, Off(range, k) + 1, Off(range, k) + Extent(range, k))])

ReadSignatures(file) ==
  LET range == file[Mine(file, "range")].range
      message == Message(file, range)
      over == file[Mine(file, "hole")].over
      last == Len(range) \div 2
  IN [covers |-> /\ range[1] = 0
                 /\ \A k \in Spans(range) : SpanOk(file, Off(range, k), Extent(range, k))
                 /\ Off(range, last) + Extent(range, last) = Len(file),
      hasVerified |-> over # <<>>,
      verified |-> over # <<>> /\ message # <<>> /\ over = message]

\* Mutant: the patched file is not read back.
SignUnread(job) ==
  LET c == FirstToken(job.file, "hole")
      r == FirstToken(job.file, "range")
      patched == [job.file EXCEPT ![r].range = <<0, c - 1, c, Len(job.file) - c>>]
      message == SubSeq(patched, 1, c - 1) \o SubSeq(patched, c + 1, Len(patched))
  IN IF job.signedBefore \/ ~job.file[r].wide \/ ~job.fits
       THEN [outcome |-> "throws", file |-> <<>>]
       ELSE [outcome |-> "signed", file |-> [patched EXCEPT ![c].over = message]]

\* file is what qpdf wrote, with the placeholders in it.
SignDetached(job) ==
  LET c == FirstToken(job.file, "hole")
      r == FirstToken(job.file, "range")
      patched == [job.file EXCEPT ![r].range = <<0, c - 1, c, Len(job.file) - c>>]
      message == SubSeq(patched, 1, c - 1) \o SubSeq(patched, c + 1, Len(patched))
      filled == [patched EXCEPT ![c].over = message]
      report == ReadSignatures(filled)
  IN IF \/ job.signedBefore
        \/ ~job.file[r].wide
        \/ ~job.fits
        \/ ~(report.covers /\ report.hasVerified /\ report.verified)
       THEN [outcome |-> "throws", file |-> <<>>]
       ELSE [outcome |-> "signed", file |-> filled]

\* What may happen to a signed file later: bytes are changed, or appended.
Later(job, file) ==
  LET changed == IF job.alter \in DOMAIN file
                   THEN [file EXCEPT ![job.alter].text = 1, ![job.alter].over = <<>>]
                   ELSE file
  IN changed \o [k \in 1..job.append |-> Token("text")]

SignAndRead(job) ==
  LET signed == SignDetached(job)
  IN IF signed.outcome = "throws"
       THEN [outcome |-> "throws", file |-> <<>>, report |-> [covers |-> FALSE, hasVerified |-> FALSE, verified |-> FALSE]]
       ELSE [outcome |-> "signed", file |-> signed.file, report |-> ReadSignatures(Later(job, signed.file))]

-----------------------------------------------------------------------------
\* A signed file differs from the written one in the byte range and the hole of the
\* new signature only, which is over every other byte of it. Read later, it covers
\* the whole file exactly until the file grows, and verifies exactly until a byte
\* that was there changes.
SignedWhole(job, answer) ==
  answer.outcome = "signed" =>
    LET file == answer.file
        hole == Mine(file, "hole")
    IN /\ ~job.signedBefore
       /\ Len(file) = Len(job.file)
       /\ \A i \in DOMAIN file : ~file[i].mine => file[i] = job.file[i]
       /\ file[hole].over = SubSeq(file, 1, hole - 1) \o SubSeq(file, hole + 1, Len(file))
       /\ answer.report.covers <=> job.append = 0
       /\ answer.report.verified <=> job.alter \notin DOMAIN file
=============================================================================
