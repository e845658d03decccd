------------------------------ MODULE Chunking ------------------------------
(* read_pdf(..., grain := 'chunk'): the elements of one file are cut into  *)
(* units of at most chunk_size bytes (ChunkSplitLongText), and the units   *)
(* packed into chunks (ChunksProcessFile).                                 *)
(*                                                                         *)
(* A text is a sequence of bytes of five kinds: an ASCII letter, a blank,  *)
(* a line feed, and the first and the further bytes of a longer code       *)
(* point.  A chunk under construction (cur) is always a range of units,    *)
(* first .. next - 1.                                                      *)
EXTENDS Integers, Sequences, SequencesExt

CONSTANTS Inputs,   \* sequences of elements: [heading, page, text]
          Limits    \* pairs <<chunk_size, overlap>>

Bytes == {"a", " ", "nl", "lead", "cont"}
IsAsciiSpace(b) == b \in {" ", "nl"}
Texts == Seq(Bytes)
Elements == [heading : BOOLEAN, page : Nat, text : Texts]

\* The further bytes of a code point follow its first.
IsUtf8(t) == \A i \in DOMAIN t : t[i] = "cont" => i > 1 /\ t[i - 1] \in {"lead", "cont"}

\* An element has words, and words have glyphs; the pages of a file are read in
\* order. PdfChunksBind refuses other sizes.
ASSUME ChunkingAssumption ==
  /\ Inputs \subseteq Seq(Elements)
  /\ \A s \in Inputs : \A i, j \in DOMAIN s :
       s[i].text # <<>> /\ IsUtf8(s[i].text) /\ (i < j => s[i].page <= s[j].page)
  /\ Limits \subseteq {l \in Nat \X Nat : l[2] < l[1]}

VARIABLES input, size, overlap,   \* the call: elements, chunk_size, overlap
          elem, pos,              \* the element being cut, and from where
          section,                \* current_heading: its element, 0 before any
          units,                  \* the pieces to pack
          first, next, curLen,    \* cur and cur_len
          tail,                   \* prev_overlap
          out, done

callVars == <<input, size, overlap>>
unitVars == <<elem, pos, section, units>>
packVars == <<first, next, curLen, tail, out, done>>
vars == <<callVars, unitVars, packVars>>

Init ==
  /\ input \in Inputs
  /\ \E l \in Limits : size = l[1] /\ overlap = l[2]
  /\ elem = 1 /\ pos = 0 /\ section = 0 /\ units = <<>>
  /\ first = 1 /\ next = 1 /\ curLen = 0 /\ tail = <<>> /\ out = <<>> /\ done = FALSE

-----------------------------------------------------------------------------
(* Elements to units.  Positions count from 0, as in the code.             *)

Splitting == elem <= Len(input)
Text == input[elem].text
SpaceAt(i) == IsAsciiSpace(Text[i + 1])
ContinuesAt(i) == Text[i + 1] = "cont"
Section == IF input[elem].heading THEN elem ELSE section

\* element and at, where the piece is from, are not part of it: properties are
\* about them.
Unit(upto) ==
  [text |-> SubSeq(Text, pos + 1, upto), page |-> input[elem].page,
   heading |-> input[elem].heading, section |-> Section, element |-> elem, at |-> pos]

\* A piece ends at upto; the white space that follows belongs to no piece.
Cut(upto, from) ==
  /\ units' = Append(units, Unit(upto))
  /\ section' = Section
  /\ \E to \in from..Len(Text) :
       /\ \A i \in from..(to - 1) : SpaceAt(i)
       /\ to < Len(Text) => ~SpaceAt(to)
       /\ pos' = to
  /\ UNCHANGED <<callVars, elem, packVars>>

TooLong == Splitting /\ Len(Text) - pos > size

\* Where a piece within the limit may end: after its first byte.
Within == (pos + 1)..(pos + size)

CutAtSpace ==
  /\ TooLong
  /\ \E cut \in Within :
       SpaceAt(cut) /\ (\A i \in Within : i > cut => ~SpaceAt(i)) /\ Cut(cut, cut + 1)

\* Mutant: a run without white space is cut at the limit, whatever is there.
CutAtLimit ==
  /\ TooLong /\ \A i \in Within : ~SpaceAt(i)
  /\ Cut(pos + size, pos + size)

\* A run without white space is cut before the last code point that begins.
CutAtCodepoint ==
  /\ TooLong /\ \A i \in Within : ~SpaceAt(i)
  /\ \E cut \in Within :
       ~ContinuesAt(cut) /\ (\A i \in Within : i > cut => ContinuesAt(i)) /\ Cut(cut, cut)

\* A code point longer than the limit is kept whole.
CutAfterCodepoint ==
  /\ TooLong /\ \A i \in Within : ContinuesAt(i)
  /\ \E cut \in (pos + 1)..Len(Text) :
       /\ \A i \in (pos + 1)..(cut - 1) : ContinuesAt(i)
       /\ cut < Len(Text) => ~ContinuesAt(cut)
       /\ Cut(cut, cut)

\* What is left of an element, or the whole of one that fits.
TakeRest ==
  /\ Splitting /\ ~TooLong
  /\ IF pos = 0 \/ pos < Len(Text)
       THEN units' = Append(units, Unit(Len(Text))) /\ section' = Section
       ELSE UNCHANGED <<units, section>>
  /\ elem' = elem + 1 /\ pos' = 0
  /\ UNCHANGED <<callVars, packVars>>

-----------------------------------------------------------------------------
(* Units to chunks.                                                        *)

Packing == ~Splitting /\ ~done
Empty == first = next

Joined(t, u) == IF t = <<>> THEN u ELSE t \o <<"nl">> \o u
Core(lo, hi) ==
  LET join[n \in Nat] == IF n <= lo THEN units[lo].text ELSE Joined(join[n - 1], units[n].text)
  IN join[hi]

Codepoints(t) == Cardinality({i \in DOMAIN t : t[i] # "cont"})
Pages(lo, hi) == {units[i].page : i \in lo..hi}

\* One row.  first, last and bytes, the units and the length of its core, are
\* not part of it: the properties are about them.
Row(lo, hi, bytes) ==
  LET text == Joined(tail, Core(lo, hi)) IN
    [chunk_idx |-> Len(out) + 1, text |-> text, n_chars |-> Codepoints(text),
     page_start |-> CHOOSE p \in Pages(lo, hi) : \A q \in Pages(lo, hi) : p <= q,
     page_end |-> CHOOSE p \in Pages(lo, hi) : \A q \in Pages(lo, hi) : p >= q,
     section |-> units[lo].section, first |-> lo, last |-> hi, bytes |-> bytes]

\* Mutant: the overlap begins in the middle of a word.
OverlapUntrimmed(t, start) ==
  IF overlap = 0 THEN start = Len(t)
  ELSE start = IF Len(t) <= overlap THEN 0 ELSE Len(t) - overlap

\* The last bytes of a text, from the first word that begins there.
ChunkComputeOverlap(t, start) ==
  LET from == Len(t) - overlap
      WordAt(i) == IsAsciiSpace(t[i]) /\ ~IsAsciiSpace(t[i + 1])
  IN CASE overlap = 0 -> start = Len(t)
       [] overlap > 0 /\ Len(t) <= overlap -> start = 0
       [] OTHER -> /\ start \in from..Len(t)
                   /\ start < Len(t) => WordAt(start)
                   /\ \A i \in from..(start - 1) : ~WordAt(i)

\* Mutant: a chunk reports the heading its last unit is under.
FlushWithLastHeading(lo, hi, bytes) ==
  LET row == [Row(lo, hi, bytes) EXCEPT !.section = units[hi].section] IN
    /\ out' = Append(out, row)
    /\ \E start \in 0..Len(row.text) :
         ChunkComputeOverlap(row.text, start) /\ tail' = SubSeq(row.text, start + 1, Len(row.text))

Flush(lo, hi, bytes) ==
  LET row == Row(lo, hi, bytes) IN
    /\ out' = Append(out, row)
    /\ \E start \in 0..Len(row.text) :
         ChunkComputeOverlap(row.text, start) /\ tail' = SubSeq(row.text, start + 1, Len(row.text))

Length(i) == Len(units[i].text)

\* Mutant: the joining byte is not counted.
AppendedUncounted == IF Empty THEN Length(next) ELSE curLen + Length(next)

Appended == IF Empty THEN Length(next) ELSE curLen + 1 + Length(next)
Full == ~Empty /\ Appended > size
AfterHeading == units[next - 1].heading
Lone == first = next - 1

More == Packing /\ next <= Len(units)

\* The unit fits, or cur is a heading alone, which takes it whatever its size.
Pack ==
  /\ More
  /\ Full => AfterHeading /\ Lone
  /\ curLen' = Appended /\ next' = next + 1
  /\ UNCHANGED <<callVars, unitVars, first, tail, out, done>>

\* Mutant: the chunk is closed with the heading that ends it.
KeepHeading ==
  /\ More /\ Full /\ AfterHeading /\ ~Lone
  /\ Flush(first, next - 1, curLen)
  /\ first' = next /\ next' = next + 1
  /\ curLen' = Length(next)
  /\ UNCHANGED <<callVars, unitVars, done>>

\* Mutant: the heading that is moved is forgotten.
DropHeading ==
  /\ More /\ Full /\ AfterHeading /\ ~Lone
  /\ Flush(first, next - 2, curLen - 1 - Length(next - 1))
  /\ first' = next /\ next' = next + 1
  /\ curLen' = Length(next)
  /\ UNCHANGED <<callVars, unitVars, done>>

\* The chunk is closed without the heading that ends it, which starts the next.
MoveHeading ==
  /\ More /\ Full /\ AfterHeading /\ ~Lone
  /\ Flush(first, next - 2, curLen - 1 - Length(next - 1))
  /\ first' = next - 1 /\ next' = next + 1
  /\ curLen' = Length(next - 1) + 1 + Length(next)
  /\ UNCHANGED <<callVars, unitVars, done>>

CloseAndPack ==
  /\ More /\ Full /\ ~AfterHeading
  /\ Flush(first, next - 1, curLen)
  /\ first' = next /\ next' = next + 1 /\ curLen' = Length(next)
  /\ UNCHANGED <<callVars, unitVars, done>>

Finish ==
  /\ Packing /\ next > Len(units)
  /\ IF Empty THEN UNCHANGED <<out, tail>> ELSE Flush(first, next - 1, curLen)
  /\ first' = next /\ curLen' = 0 /\ done' = TRUE
  /\ UNCHANGED <<callVars, unitVars, next>>

Next ==
  \/ CutAtSpace \/ CutAtCodepoint \/ CutAfterCodepoint \/ TakeRest
  \/ Pack \/ MoveHeading \/ CloseAndPack \/ Finish

Spec == Init /\ [][Next]_vars

-----------------------------------------------------------------------------
(* Properties.                                                             *)

TypeOK ==
  /\ input \in Inputs /\ <<size, overlap>> \in Limits
  /\ elem \in 1..(Len(input) + 1) /\ section \in 0..Len(input)
  /\ pos \in Nat /\ (Splitting => pos <= Len(Text))
  /\ units \in Seq([text : Texts, page : Nat, heading : BOOLEAN, section : Nat,
                    element : Nat, at : Nat])
  /\ first \in 1..next /\ next \in 1..(Len(units) + 1)
  /\ curLen \in Nat /\ done \in BOOLEAN

\* The chunks are consecutive ranges of the units, and all of them in the end:
\* whatever headings are moved, no unit is lost, repeated or out of order.
\* chunk_idx counts them (C7).
Tiled ==
  /\ \A k \in 1..Len(out) :
       /\ out[k].chunk_idx = k
       /\ out[k].first <= out[k].last
       /\ out[k].first = IF k = 1 THEN 1 ELSE out[k - 1].last + 1
  /\ first = IF out = <<>> THEN 1 ELSE out[Len(out)].last + 1
  /\ done => first = Len(units) + 1

\* The units are pieces of the elements in their order, an element that fits
\* is one piece, and what is in no piece is white space (C2).
Holds(i, e, p) == units[i].element = e /\ p \in (units[i].at + 1)..(units[i].at + Length(i))
Covered ==
  /\ \A i \in 1..Len(units) :
       units[i].text =
         SubSeq(input[units[i].element].text, units[i].at + 1, units[i].at + Length(i))
  /\ \A i, j \in 1..Len(units) : i < j =>
       \/ units[i].element < units[j].element
       \/ /\ units[i].element = units[j].element /\ units[i].at + Length(i) <= units[j].at
          /\ Len(input[units[i].element].text) > size
  /\ \A e \in 1..(elem - 1) : \A p \in 1..Len(input[e].text) :
       IsAsciiSpace(input[e].text[p]) \/ \E i \in 1..Len(units) : Holds(i, e, p)

\* No text is lost, repeated or put out of order on its way into the chunks.
NothingLost == Tiled /\ Covered

\* A piece exceeds chunk_size only if it is one code point, and starts with a
\* whole one (C2).
OneCodepoint(t) == \A i \in 2..Len(t) : t[i] = "cont"
PiecesFit == \A i \in 1..Len(units) : Length(i) <= size \/ OneCodepoint(units[i].text)
PiecesWhole == \A i \in 1..Len(units) : units[i].text[1] # "cont"

\* The core of a chunk is within chunk_size unless it is a single unit or a
\* heading that took one (C1, C3, C5), and cur_len is its length; so n_chars
\* is within chunk_size + overlap + 1, up to that heading.
CoresFit ==
  \A k \in 1..Len(out) :
    out[k].bytes <= size \/ out[k].first = out[k].last
      \/ (out[k].last = out[k].first + 1 /\ units[out[k].first].heading)
LengthsTrue ==
  /\ \A k \in 1..Len(out) : out[k].bytes = Len(Core(out[k].first, out[k].last))
  /\ \A k \in 1..Len(out) :
       LET glued == out[k].bytes > size /\ out[k].first < out[k].last IN
       out[k].n_chars <=
         size + overlap + 1 + (IF glued THEN Length(out[k].first) + 1 ELSE 0)

\* Chunks and pieces keep to their limits (ChunkSplitLongText, ChunksProcessFile).
WithinLimits == PiecesFit /\ PiecesWhole /\ CoresFit /\ LengthsTrue

\* A heading ends a chunk that is not the last only if another heading begins
\* the next one: it is never parted from the text that follows it (C3).
HeadingsMoveOn ==
  \A k \in 1..Len(out) :
    units[out[k].last].heading =>
      out[k].last = Len(units) \/ units[out[k].last + 1].heading

\* What the comment at pdf_extension.cpp:4969 says: a heading never ends a
\* chunk but the last one.
HeadingNeverLast ==
  \A k \in 1..(Len(out) - 1) : ~units[out[k].last].heading

\* The prefix of a chunk ends the text of the one before it, is within
\* overlap, and cuts no word of it (C4).
OverlapIsTail ==
  \A k \in 2..Len(out) :
    LET before == out[k - 1].text
        core == Core(out[k].first, out[k].last)
        prefix == SubSeq(out[k].text, 1, Len(out[k].text) - Len(core) - 1)
    IN /\ IsSuffix(core, out[k].text) /\ IsSuffix(prefix, before) /\ Len(prefix) <= overlap
       /\ Len(prefix) < Len(before) /\ prefix # <<>> =>
            IsAsciiSpace(before[Len(before) - Len(prefix)])
       /\ prefix = <<>> => out[k].text = core

\* A chunk is labelled with the last heading up to the element its core begins
\* in, that element included, and spans the pages of its core (C6, C7).
Headings(upto) == {e \in 1..upto : input[e].heading}
LastHeading(upto) ==
  IF Headings(upto) = {} THEN 0 ELSE CHOOSE e \in Headings(upto) : \A d \in Headings(upto) : d <= e
Labelled ==
  \A k \in 1..Len(out) :
    LET row == out[k]
    IN /\ row.section = LastHeading(units[row.first].element)
       /\ \A i \in row.first..row.last : units[i].page \in row.page_start..row.page_end
       /\ k > 1 => row.page_start >= out[k - 1].page_end

\* What a row says besides its core: where the text before it ends, and under which
\* heading and on which pages it is (ChunksProcessFile).
TailAndLabels == OverlapIsTail /\ Labelled
=============================================================================
