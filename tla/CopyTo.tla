------------------------------- MODULE CopyTo -------------------------------
(***************************************************************************)
(* COPY ... TO (FORMAT pdf): workers sink chunks of rows into one buffer,  *)
(* and the buffer is laid out on pages when all of them are done.          *)
(*                                                                         *)
(* A row is a sequence of cells, a cell a sequence of words; a word is its *)
(* width, and LineFeed stands for a line feed inside a cell (a NULL has no *)
(* words). Lengths are hundredths of a point. The staged file is           *)
(* StagedOutput's.                                                         *)
(***************************************************************************)
EXTENDS Integers, Sequences, SequencesExt

CONSTANTS
  Workers,
  None,
  Sources,       (* the chunks of a query, in order: sequences of rows     *)
  OptionSets     (* [font_size, page_size, margin, header, footer]          *)

ASSUME CopyAssumption ==
  /\ None \notin Nat
  /\ \A chunks \in Sources : chunks \in Seq(Seq(Seq(Seq(Nat))))
  /\ \A o \in OptionSets :
       o.font_size \in Int /\ o.margin \in Int /\ o.header \in BOOLEAN /\ o.footer \in BOOLEAN

LineFeed == 0    (* no word has no width *)
Space == 278     (* a blank of Helvetica at 10 points is 2.78 points wide   *)

VARIABLES
  source, options, copy,    (* copy: refused, sinking, rendered             *)
  taken,                    (* chunks handed to workers                     *)
  holding,                  (* the chunk of each worker, or None            *)
  buffer,                   (* PdfCopyGlobalState.buffer: words, line feeds *)
  pages                     (* [header, lines, footer]                      *)

copyVars == <<source, options, copy, taken, holding, buffer, pages>>

PageHeight == [letter |-> 79200, a4 |-> 84189, legal |-> 100800]
PageWidth == [letter |-> 61200, a4 |-> 59528, legal |-> 61200]

\* Options are checked when the query is bound.
PdfCopyBind(o) ==
  /\ 400 <= o.font_size /\ o.font_size <= 7200
  /\ o.page_size \in DOMAIN PageHeight
  /\ 0 <= o.margin /\ o.margin <= 21600
  /\ o.header \/ o.footer => o.margin >= 2400

CopyInit ==
  /\ source \in Sources
  /\ options \in OptionSets
  /\ copy = IF PdfCopyBind(options) THEN "sinking" ELSE "refused"
  /\ taken = 0
  /\ holding = [w \in Workers |-> None]
  /\ buffer = <<>>
  /\ pages = <<>>

\* Mutant: the mode for parallel copies.
ParallelMode == "parallel"
PdfCopyExecutionMode == "regular"

\* The engine hands out chunks in order, in the regular mode one at a time.
TakeChunk(w) ==
  /\ copy = "sinking"
  /\ taken < Len(source)
  /\ holding[w] = None
  /\ PdfCopyExecutionMode = "regular" => \A v \in Workers : holding[v] = None
  /\ taken' = taken + 1
  /\ holding' = [holding EXCEPT ![w] = taken + 1]
  /\ UNCHANGED <<source, options, copy, buffer, pages>>

\* The text of a row is its cells, next to each other, and a line feed.
RowText(row) == Append(FlattenSeq(row), LineFeed)
ChunkText(chunk) == FlattenSeq([r \in DOMAIN chunk |-> RowText(chunk[r])])

\* The whole chunk is appended under the lock.
PdfCopySink(w) ==
  /\ holding[w] # None
  /\ buffer' = buffer \o ChunkText(source[holding[w]])
  /\ holding' = [holding EXCEPT ![w] = None]
  /\ UNCHANGED <<source, options, copy, taken, pages>>

\* The lines of a text (getline): the last one may lack its line feed.
Lines(text) ==
  LET read[i \in 0..Len(text)] ==
        IF i = 0 THEN [done |-> <<>>, cur |-> <<>>]
        ELSE IF text[i] = LineFeed THEN [done |-> Append(read[i - 1].done, read[i - 1].cur), cur |-> <<>>]
        ELSE [done |-> read[i - 1].done, cur |-> Append(read[i - 1].cur, text[i])]
      end == read[Len(text)]
  IN IF end.cur = <<>> THEN end.done ELSE Append(end.done, end.cur)

Width(words) ==
  LET sum[i \in 0..Len(words)] == IF i = 0 THEN 0 ELSE sum[i - 1] + words[i]
  IN sum[Len(words)] + (IF words = <<>> THEN 0 ELSE Space * (Len(words) - 1))

\* Words go on the line as long as they fit; the first always does.
PutWord(out, cur, word, max_width) ==
  IF Width(Append(cur, word)) > max_width /\ cur # <<>>
    THEN [out |-> Append(out, cur), cur |-> <<word>>]
    ELSE [out |-> out, cur |-> Append(cur, word)]

WrapLine(words, max_width) ==
  LET wrap[i \in 0..Len(words)] ==
        IF i = 0 THEN [out |-> <<>>, cur |-> <<>>]
        ELSE PutWord(wrap[i - 1].out, wrap[i - 1].cur, words[i], max_width)
      end == wrap[Len(words)]
  IN Append(end.out, end.cur)

TextWidth(o) == PageWidth[o.page_size] - 2 * o.margin
Top(o) == PageHeight[o.page_size] - o.margin
LineHeight(o) == o.font_size + 400

\* A page with its header, drawn when it is created, and its footer, when it is left.
DrawnPage(o, done, lines) ==
  [header |-> o.header, lines |-> lines, footer |-> IF o.footer THEN Len(done) + 1 ELSE 0]

\* done are the pages left behind, lines those of the page at hand; y is where the
\* next line goes.
DrawLine(o, done, lines, y, line) ==
  IF 2 * y < 2 * o.margin + LineHeight(o)
    THEN [done |-> Append(done, DrawnPage(o, done, lines)), lines |-> <<line>>, y |-> Top(o) - LineHeight(o)]
    ELSE [done |-> done, lines |-> Append(lines, line), y |-> y - LineHeight(o)]

DrawLines(wrapped, o) ==
  LET draw[i \in 0..Len(wrapped)] ==
        IF i = 0 THEN [done |-> <<>>, lines |-> <<>>, y |-> Top(o)]
        ELSE DrawLine(o, draw[i - 1].done, draw[i - 1].lines, draw[i - 1].y, wrapped[i])
      end == draw[Len(wrapped)]
  IN Append(end.done, DrawnPage(o, end.done, end.lines))

RenderTextToPdf(content, o) ==
  LET lines == Lines(content)
  IN DrawLines(FlattenSeq([i \in DOMAIN lines |-> WrapLine(lines[i], TextWidth(o))]), o)

PdfCopyFinalize ==
  /\ copy = "sinking"
  /\ taken = Len(source)
  /\ \A w \in Workers : holding[w] = None
  /\ copy' = "rendered"
  /\ pages' = RenderTextToPdf(buffer, options)
  /\ UNCHANGED <<source, options, taken, holding, buffer>>

CopyNext == (\E w \in Workers : TakeChunk(w) \/ PdfCopySink(w)) \/ PdfCopyFinalize

CopySpec == CopyInit /\ [][CopyNext]_copyVars

-----------------------------------------------------------------------------
\* How many lines the body of a page can hold.
Capacity(o) == (2 * (Top(o) - o.margin) - LineHeight(o)) \div (2 * LineHeight(o)) + 1

Picked(text, kinds) == FlattenSeq([i \in DOMAIN text |-> IF text[i] \in kinds THEN <<text[i]>> ELSE <<>>])

\* The words of a written document are those of the query, in the order of its
\* rows whichever workers carried them; a line is too wide only if it is one word;
\* a page is left only when it is full, stays within the margins, and has the header,
\* and its own number in the footer.
TextInOrder ==
  copy = "rendered" =>
    LET o == options
        drawn == FlattenSeq([k \in DOMAIN pages |-> pages[k].lines])
        rows == FlattenSeq(source)
        words == Picked(FlattenSeq(FlattenSeq(rows)), Nat \ {LineFeed})
    IN /\ FlattenSeq(drawn) = words
       /\ Len(drawn) >= Len(rows)
       /\ \A i \in DOMAIN drawn : Len(drawn[i]) > 1 => Width(drawn[i]) <= TextWidth(o)
       /\ pages # <<>>
       /\ \A k \in DOMAIN pages :
            /\ Len(pages[k].lines) <= Capacity(o)
            /\ k < Len(pages) => Len(pages[k].lines) = Capacity(o)
            /\ pages[k].header = o.header
            /\ pages[k].footer = IF o.footer THEN k ELSE 0
=============================================================================
