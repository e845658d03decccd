--------------------------- MODULE ChunkingProofs ---------------------------
(* What Chunking promises for any elements, chunk_size and overlap.  Three *)
(* invariants, each on top of the one before: IInv, the shape of the cut   *)
(* and of the rows; Cutting, where each piece is from; Rows, what the rows *)
(* say.                                                                    *)
EXTENDS Chunking, SequenceTheorems, FiniteSetTheorems, TLAPS

\* Packing starts when all elements are cut, and cur is within chunk_size, a
\* single unit, or a heading with the unit it took.
BeforePacking ==
  Splitting => out = <<>> /\ first = 1 /\ next = 1 /\ ~done
CurFits ==
  first < next =>
    curLen <= size \/ next = first + 1 \/ (next = first + 2 /\ units[first].heading)
RowsAreSeq == \E S : out \in Seq(S)

IInv ==
  /\ TypeOK /\ BeforePacking /\ RowsAreSeq
  /\ Tiled /\ PiecesFit /\ CurFits /\ CoresFit /\ HeadingsMoveOn

Pieces ==
  [text : Texts, page : Nat, heading : BOOLEAN, section : Nat, element : Nat, at : Nat]

\* Appending to a sequence of any rows.
LEMMA OneMore ==
  ASSUME NEW s, \E S : s \in Seq(S), NEW e
  PROVE  /\ \E S : Append(s, e) \in Seq(S)
         /\ Len(s) \in Nat /\ Len(Append(s, e)) = Len(s) + 1
         /\ Append(s, e)[Len(s) + 1] = e
         /\ \A i \in 1..Len(s) : Append(s, e)[i] = s[i]
         /\ Append(s, e) # <<>>
<1>1. PICK S : s \in Seq(S)
  OBVIOUS
<1>2. s \in Seq(S \cup {e}) /\ e \in S \cup {e}
  BY <1>1
<1> QED
  BY <1>2, AppendProperties

LEMMA Initially == Init => IInv
<1> SUFFICES ASSUME Init PROVE IInv
  OBVIOUS
<1>1. TypeOK
  <2>1. <<size, overlap>> \in Limits
    <3>1. PICK l \in Limits : size = l[1] /\ overlap = l[2]
      BY DEF Init
    <3>2. l \in Nat \X Nat
      BY <3>1, ChunkingAssumption
    <3> QED
      BY <3>1, <3>2
  <2>2. input \in Inputs /\ input \in Seq(Elements)
    BY ChunkingAssumption DEF Init
  <2>3. Len(input) \in Nat
    BY <2>2
  <2>4. Splitting => Len(Text) \in Nat
    <3>1. Splitting => input[1] \in Elements
      BY <2>2, <2>3, ElementOfSeq DEF Init, Splitting
    <3>2. Splitting => Text \in Seq(Bytes)
      BY <3>1 DEF Init, Elements, Text, Texts
    <3> QED
      BY <3>2, LenProperties
  <2>5. units \in Seq(Pieces) /\ Len(units) = 0
    BY EmptySeq DEF Init
  <2>6. /\ elem \in 1..(Len(input) + 1) /\ section \in 0..Len(input)
        /\ pos \in Nat /\ (Splitting => pos <= Len(Text))
    BY <2>3, <2>4 DEF Init
  <2>7. first \in 1..next /\ next \in 1..(Len(units) + 1) /\ curLen \in Nat
    BY <2>5 DEF Init
  <2>8. done \in BOOLEAN
    BY DEF Init
  <2> QED
    BY <2>1, <2>2, <2>5, <2>6, <2>7, <2>8 DEF TypeOK, Pieces
<1>2. RowsAreSeq
  BY DEF Init, RowsAreSeq
<1> QED
  BY <1>1, <1>2 DEF Init, IInv, BeforePacking, Tiled, PiecesFit, CurFits, CoresFit, HeadingsMoveOn

-----------------------------------------------------------------------------
(* Elements to units.                                                      *)

\* What a call and its elements are.
LEMMA Typed ==
  ASSUME TypeOK
  PROVE  /\ size \in Nat /\ overlap \in Nat
         /\ input \in Seq(Elements) /\ Len(input) \in Nat /\ elem \in Nat
         /\ units \in Seq(Pieces) /\ Len(units) \in Nat
         /\ \A i \in 1..Len(units) : units[i] \in Pieces /\ Length(i) \in Nat
         /\ Splitting => Text \in Texts /\ Len(Text) \in Nat /\ input[elem].page \in Nat
                           /\ input[elem].heading \in BOOLEAN
<1>1. size \in Nat /\ overlap \in Nat
  BY ChunkingAssumption DEF TypeOK
<1>2. input \in Seq(Elements) /\ Len(input) \in Nat /\ elem \in Nat
  BY ChunkingAssumption DEF TypeOK
<1>3. units \in Seq(Pieces) /\ Len(units) \in Nat
  BY DEF TypeOK, Pieces
<1>4. ASSUME NEW i \in 1..Len(units) PROVE units[i] \in Pieces /\ Length(i) \in Nat
  <2>1. units[i] \in Pieces
    BY <1>3, <1>4, ElementOfSeq
  <2>2. units[i].text \in Seq(Bytes)
    BY <2>1 DEF Pieces, Texts
  <2> QED
    BY <2>1, <2>2, LenProperties DEF Length
<1>5. ASSUME Splitting
      PROVE  /\ Text \in Texts /\ Len(Text) \in Nat /\ input[elem].page \in Nat
             /\ input[elem].heading \in BOOLEAN
  <2>1. input[elem] \in Elements
    BY <1>2, <1>5 DEF TypeOK, Splitting
  <2> QED
    BY <2>1 DEF Elements, Text, Texts
<1> QED
  BY <1>1, <1>2, <1>3, <1>4, <1>5

\* The next element begins at its first byte.
LEMMA Onward ==
  ASSUME TypeOK, Splitting, UNCHANGED input,
         \/ elem' = elem /\ pos' \in Nat /\ pos' <= Len(Text)
         \/ elem' = elem + 1 /\ pos' = 0
  PROVE  /\ elem' \in 1..(Len(input) + 1) /\ pos' \in Nat
         /\ Splitting' => pos' <= Len(Text')
<1>1. CASE elem' = elem /\ pos' \in Nat /\ pos' <= Len(Text)
  BY <1>1 DEF TypeOK, Text
<1>2. CASE elem' = elem + 1 /\ pos' = 0
  <2>1. elem' \in 1..(Len(input) + 1)
    BY <1>2, Typed DEF TypeOK, Splitting
  <2>2. ASSUME Splitting' PROVE Len(Text') \in Nat
    <3>1. input' \in Seq(Elements) /\ elem' \in 1..Len(input')
      BY <2>1, <2>2, Typed DEF Splitting
    <3>2. input'[elem'] \in Elements
      BY <3>1, ElementOfSeq
    <3> QED
      BY <3>2 DEF Elements, Text, Texts
  <2> QED
    BY <1>2, <2>1, <2>2
<1> QED
  BY <1>1, <1>2

LEMMA UnitIs ==
  ASSUME TypeOK, Splitting, NEW upto \in pos..Len(Text)
  PROVE  /\ Len(SubSeq(Text, pos + 1, upto)) = upto - pos
         /\ \A i \in 1..(upto - pos) : SubSeq(Text, pos + 1, upto)[i] = Text[pos + i]
         /\ Section \in 0..Len(input) /\ Unit(upto) \in Pieces
<1>1. pos \in Nat /\ upto \in Nat /\ upto <= Len(Text) /\ Text \in Seq(Bytes) /\ pos <= upto
  BY Typed DEF TypeOK, Texts
<1>2. \A i \in (pos + 1)..upto : Text[i] \in Bytes
  BY <1>1
<1>3. /\ Len(SubSeq(Text, pos + 1, upto)) = IF pos + 1 <= upto THEN upto - (pos + 1) + 1 ELSE 0
      /\ \A i \in 1..(upto - (pos + 1) + 1) : SubSeq(Text, pos + 1, upto)[i] = Text[pos + 1 + i - 1]
      /\ SubSeq(Text, pos + 1, upto) \in Seq(Bytes)
  BY <1>1, <1>2, SubSeqProperties
<1>4. Section \in 0..Len(input)
  BY Typed DEF Section, TypeOK, Splitting
<1>5. Unit(upto) \in Pieces
  BY <1>3, <1>4, Typed DEF Unit, Pieces, TypeOK, Texts
<1> QED
  BY <1>1, <1>3, <1>4, <1>5

\* A piece that fits, or is one code point, joins the units.
LEMMA PieceJoins ==
  ASSUME IInv, Splitting, NEW upto \in pos..Len(Text),
         upto - pos <= size \/ OneCodepoint(SubSeq(Text, pos + 1, upto)),
         units' = Append(units, Unit(upto)), section' = Section,
         UNCHANGED <<callVars, packVars>>,
         \/ elem' = elem /\ pos' \in Nat /\ pos' <= Len(Text)
         \/ elem' = elem + 1 /\ pos' = 0
  PROVE  IInv'
<1> USE DEF IInv
<1>1. Len(SubSeq(Text, pos + 1, upto)) = upto - pos
  BY UnitIs
<1>2. Section \in 0..Len(input)
  BY UnitIs
<1>3. Unit(upto) \in Pieces
  BY UnitIs
<1>4. /\ units' \in Seq(Pieces) /\ Len(units') = Len(units) + 1
      /\ units'[Len(units) + 1] = Unit(upto)
      /\ \A i \in 1..Len(units) : units'[i] = units[i]
  BY <1>3, Typed, AppendProperties
<1>5. out = <<>> /\ first = 1 /\ next = 1 /\ done = FALSE
  BY DEF BeforePacking, TypeOK
<1>6. /\ input' = input /\ size' = size /\ overlap' = overlap
      /\ out' = <<>> /\ first' = 1 /\ next' = 1 /\ done' = FALSE /\ curLen' = curLen
  BY <1>5 DEF callVars, packVars
<1>7. TypeOK'
  <2>1. /\ elem' \in 1..(Len(input) + 1) /\ pos' \in Nat
        /\ Splitting' => pos' <= Len(Text')
    BY <1>6, Onward
  <2>2. next' \in 1..(Len(units') + 1)
    BY <1>4, <1>6, Typed
  <2>3. input' \in Inputs /\ <<size', overlap'>> \in Limits
    BY <1>6 DEF TypeOK
  <2>4. section' \in 0..Len(input') /\ elem' \in 1..(Len(input') + 1)
    BY <1>2, <1>6, <2>1
  <2>5. first' \in 1..next' /\ curLen' \in Nat
    BY <1>6 DEF TypeOK
  <2>6. done' \in BOOLEAN
    BY <1>6
  <2> QED
    BY <1>4, <2>1, <2>2, <2>3, <2>4, <2>5, <2>6 DEF TypeOK, Pieces
<1>8. PiecesFit'
  <2> SUFFICES ASSUME NEW i \in 1..Len(units')
               PROVE  Len(units'[i].text) <= size \/ OneCodepoint(units'[i].text)
    BY <1>6 DEF PiecesFit, Length
  <2>1. CASE i = Len(units) + 1
    <3>1. Unit(upto).text = SubSeq(Text, pos + 1, upto)
      BY DEF Unit
    <3>2. units'[i] = Unit(upto)
      BY <1>4, <2>1
    <3>3. units'[i].text = SubSeq(Text, pos + 1, upto)
      BY <3>1, <3>2
    <3> QED
      BY <1>1, <3>3
  <2>2. CASE i \in 1..Len(units)
    BY <1>4, <2>2 DEF PiecesFit, Length
  <2> QED
    BY <1>4, <2>1, <2>2, Typed
<1>9. Len(out') = 0
  BY <1>6
<1>10. BeforePacking' /\ Tiled' /\ CurFits' /\ CoresFit' /\ HeadingsMoveOn'
  BY <1>6, <1>9 DEF BeforePacking, Tiled, CurFits, CoresFit, HeadingsMoveOn
<1>11. RowsAreSeq'
  BY <1>6 DEF RowsAreSeq
<1> QED
  BY <1>7, <1>8, <1>10, <1>11

\* Cut at a place after the first byte.
LEMMA CutJoins ==
  ASSUME IInv, Splitting, NEW upto \in (pos + 1)..Len(Text), NEW from \in Nat, Cut(upto, from),
         upto - pos <= size \/ OneCodepoint(SubSeq(Text, pos + 1, upto))
  PROVE  IInv'
<1>1. pos \in Nat /\ Len(Text) \in Nat
  BY Typed DEF IInv, TypeOK
<1>2. upto \in pos..Len(Text)
  BY <1>1
<1>3. pos' \in Nat /\ pos' <= Len(Text)
  BY <1>1 DEF Cut
<1>4. /\ units' = Append(units, Unit(upto)) /\ section' = Section
      /\ elem' = elem /\ UNCHANGED <<callVars, packVars>>
  BY DEF Cut
<1> QED
  BY <1>2, <1>3, <1>4, PieceJoins

LEMMA SplittingStep ==
  ASSUME IInv, CutAtSpace \/ CutAtCodepoint \/ CutAfterCodepoint \/ TakeRest
  PROVE  IInv'
<1> USE DEF IInv
<1>1. pos \in Nat /\ size \in Nat
  BY Typed DEF TypeOK
<1>2. CASE CutAtSpace
  <2>1. PICK cut \in Within : Cut(cut, cut + 1)
    BY <1>2 DEF CutAtSpace
  <2>2. Splitting /\ Len(Text) \in Nat /\ Len(Text) - pos > size
    BY <1>2, Typed DEF CutAtSpace, TooLong
  <2>3. cut \in (pos + 1)..Len(Text) /\ cut + 1 \in Nat /\ cut - pos <= size
    BY <1>1, <2>2 DEF Within
  <2> QED
    BY <2>1, <2>2, <2>3, CutJoins
<1>3. CASE CutAtCodepoint
  <2>1. PICK cut \in Within : Cut(cut, cut)
    BY <1>3 DEF CutAtCodepoint
  <2>2. Splitting /\ Len(Text) \in Nat /\ Len(Text) - pos > size
    BY <1>3, Typed DEF CutAtCodepoint, TooLong
  <2>3. cut \in (pos + 1)..Len(Text) /\ cut \in Nat /\ cut - pos <= size
    BY <1>1, <2>2 DEF Within
  <2> QED
    BY <2>1, <2>2, <2>3, CutJoins
<1>4. CASE CutAfterCodepoint
  <2>1. PICK cut \in (pos + 1)..Len(Text) :
          Cut(cut, cut) /\ \A i \in (pos + 1)..(cut - 1) : ContinuesAt(i)
    BY <1>4 DEF CutAfterCodepoint
  <2>2. Splitting /\ Text \in Seq(Bytes) /\ Len(Text) \in Nat
    BY <1>4, Typed DEF CutAfterCodepoint, TooLong, Texts
  <2>3. OneCodepoint(SubSeq(Text, pos + 1, cut))
    <3>1. cut \in Nat /\ \A i \in (pos + 1)..cut : Text[i] \in Bytes
      BY <1>1, <2>2
    <3>2. /\ Len(SubSeq(Text, pos + 1, cut)) = cut - pos
          /\ \A i \in 1..(cut - pos) : SubSeq(Text, pos + 1, cut)[i] = Text[pos + i]
      <4>1. /\ Len(SubSeq(Text, pos + 1, cut)) =
                 IF pos + 1 <= cut THEN cut - (pos + 1) + 1 ELSE 0
            /\ \A i \in 1..(cut - (pos + 1) + 1) :
                 SubSeq(Text, pos + 1, cut)[i] = Text[pos + 1 + i - 1]
        BY <1>1, <3>1, SubSeqProperties
      <4> QED
        BY <1>1, <3>1, <4>1
    <3> SUFFICES ASSUME NEW i \in 2..(cut - pos) PROVE SubSeq(Text, pos + 1, cut)[i] = "cont"
      BY <3>2 DEF OneCodepoint
    <3>3. pos + i - 1 \in (pos + 1)..(cut - 1) /\ pos + i - 1 + 1 = pos + i
      BY <1>1, <3>1
    <3> QED
      BY <1>1, <2>1, <3>1, <3>2, <3>3 DEF ContinuesAt
  <2>4. cut \in Nat
    BY <1>1, <2>2
  <2> QED
    BY <2>1, <2>2, <2>3, <2>4, CutJoins
<1>5. CASE TakeRest
  <2>1. Splitting /\ Len(Text) \in Nat /\ Len(Text) - pos <= size /\ pos <= Len(Text)
    BY <1>1, <1>5, Typed DEF TakeRest, TooLong, TypeOK
  <2>2. elem' = elem + 1 /\ pos' = 0 /\ UNCHANGED <<callVars, packVars>>
    BY <1>5 DEF TakeRest
  <2>3. CASE pos = 0 \/ pos < Len(Text)
    <3>1. units' = Append(units, Unit(Len(Text))) /\ section' = Section
      BY <1>5, <2>3 DEF TakeRest
    <3>2. Len(Text) \in pos..Len(Text)
      BY <1>1, <2>1
    <3> QED
      BY <2>1, <2>2, <3>1, <3>2, PieceJoins
  <2>4. CASE ~(pos = 0 \/ pos < Len(Text))
    <3>1. UNCHANGED <<units, section>>
      BY <1>5, <2>4 DEF TakeRest
    <3>2. /\ input' = input /\ size' = size /\ overlap' = overlap /\ units' = units
          /\ section' = section /\ out' = out /\ first' = first /\ next' = next
          /\ curLen' = curLen /\ done' = done
      BY <2>2, <3>1 DEF callVars, packVars
    <3>3. TypeOK'
      <4>1. /\ elem' \in 1..(Len(input) + 1) /\ pos' \in Nat
            /\ Splitting' => pos' <= Len(Text')
        BY <2>1, <2>2, <3>2, Onward
      <4> QED
        BY <3>2, <4>1 DEF TypeOK
    <3>4. BeforePacking' /\ RowsAreSeq'
      BY <2>1, <3>2 DEF BeforePacking, RowsAreSeq
    <3>5. Tiled' /\ PiecesFit' /\ CurFits' /\ CoresFit' /\ HeadingsMoveOn'
      BY <3>2 DEF Tiled, PiecesFit, Length, CurFits, CoresFit, HeadingsMoveOn
    <3> QED
      BY <3>3, <3>4, <3>5
  <2> QED
    BY <2>3, <2>4
<1> QED
  BY <1>2, <1>3, <1>4, <1>5

-----------------------------------------------------------------------------
(* Units to chunks.                                                        *)

\* What flush writes.
LEMMA NewRow ==
  ASSUME NEW lo, NEW hi, NEW bytes, Flush(lo, hi, bytes)
  PROVE  \E row : /\ out' = Append(out, row) /\ row.chunk_idx = Len(out) + 1
                  /\ row.first = lo /\ row.last = hi /\ row.bytes = bytes
<1>1. out' = Append(out, Row(lo, hi, bytes))
  BY DEF Flush
<1>2. /\ Row(lo, hi, bytes).chunk_idx = Len(out) + 1
      /\ Row(lo, hi, bytes).first = lo /\ Row(lo, hi, bytes).last = hi
      /\ Row(lo, hi, bytes).bytes = bytes
  BY DEF Row
<1> QED
  BY <1>1, <1>2

\* A chunk that begins where cur does, fits, and ends with no heading that has
\* text after it joins the others.
LEMMA ChunkJoins ==
  ASSUME RowsAreSeq, Tiled, CoresFit, HeadingsMoveOn, first \in Nat,
         NEW hi \in Nat, first <= hi, NEW bytes, Flush(first, hi, bytes),
         \/ bytes <= size
         \/ hi = first
         \/ hi = first + 1 /\ units[first].heading,
         units[hi].heading => hi = Len(units) \/ units[hi + 1].heading,
         UNCHANGED <<size, units>>, first' = hi + 1, done' => hi = Len(units)
  PROVE  RowsAreSeq' /\ Tiled' /\ CoresFit' /\ HeadingsMoveOn'
<1>1. PICK row :
        /\ out' = Append(out, row) /\ row.chunk_idx = Len(out) + 1
        /\ row.first = first /\ row.last = hi /\ row.bytes = bytes
  BY NewRow
<1>2. /\ RowsAreSeq' /\ Len(out) \in Nat /\ Len(out') = Len(out) + 1
      /\ out'[Len(out) + 1] = row /\ out' # <<>>
      /\ \A k \in 1..Len(out) : out'[k] = out[k]
  <2>1. \E S : out \in Seq(S)
    BY DEF RowsAreSeq
  <2>2. \E S : Append(out, row) \in Seq(S)
    BY <2>1, OneMore
  <2>3. /\ Len(out) \in Nat /\ Len(Append(out, row)) = Len(out) + 1
        /\ Append(out, row)[Len(out) + 1] = row /\ Append(out, row) # <<>>
        /\ \A k \in 1..Len(out) : Append(out, row)[k] = out[k]
    BY <2>1, OneMore
  <2> QED
    BY <1>1, <2>2, <2>3 DEF RowsAreSeq
<1>3. out = <<>> <=> Len(out) = 0
  BY EmptySeq DEF RowsAreSeq
<1>4. Tiled'
  <2>1. ASSUME NEW k \in 1..Len(out')
        PROVE  /\ out'[k].chunk_idx = k
               /\ out'[k].first <= out'[k].last
               /\ out'[k].first = IF k = 1 THEN 1 ELSE out'[k - 1].last + 1
    <3>1. CASE k \in 1..Len(out)
      <4>1. k = 1 \/ k - 1 \in 1..Len(out)
        BY <1>2, <3>1
      <4> QED
        BY <1>2, <3>1, <4>1 DEF Tiled
    <3>2. CASE k = Len(out) + 1
      <4>1. out'[k].chunk_idx = k /\ out'[k].first = first /\ out'[k].last = hi
        BY <1>1, <1>2, <3>2
      <4>2. CASE Len(out) = 0
        BY <1>3, <3>2, <4>1, <4>2 DEF Tiled
      <4>3. CASE Len(out) # 0
        <5>1. k - 1 \in 1..Len(out) /\ k - 1 = Len(out) /\ k # 1
          BY <1>2, <3>2, <4>3
        <5>2. first = out[Len(out)].last + 1
          BY <1>3, <4>3 DEF Tiled
        <5> QED
          BY <1>2, <4>1, <5>1, <5>2
      <4> QED
        BY <4>2, <4>3
    <3> QED
      BY <1>2, <3>1, <3>2
  <2>2. first' = out'[Len(out')].last + 1
    BY <1>1, <1>2
  <2>3. done' => first' = Len(units') + 1
    OBVIOUS
  <2> QED
    BY <1>2, <2>1, <2>2, <2>3 DEF Tiled
<1>5. CoresFit'
  <2> SUFFICES ASSUME NEW k \in 1..Len(out')
               PROVE  \/ out'[k].bytes <= size \/ out'[k].first = out'[k].last
                      \/ out'[k].last = out'[k].first + 1 /\ units[out'[k].first].heading
    BY DEF CoresFit
  <2>1. CASE k \in 1..Len(out)
    BY <1>2, <2>1 DEF CoresFit
  <2>2. CASE k = Len(out) + 1
    BY <1>1, <1>2, <2>2
  <2> QED
    BY <1>2, <2>1, <2>2
<1>6. HeadingsMoveOn'
  <2> SUFFICES ASSUME NEW k \in 1..Len(out'), units[out'[k].last].heading
               PROVE  out'[k].last = Len(units) \/ units[out'[k].last + 1].heading
    BY DEF HeadingsMoveOn
  <2>1. CASE k \in 1..Len(out)
    BY <1>2, <2>1 DEF HeadingsMoveOn
  <2>2. CASE k = Len(out) + 1
    BY <1>1, <1>2, <2>2
  <2> QED
    BY <1>2, <2>1, <2>2
<1> QED
  BY <1>2, <1>4, <1>5, <1>6

\* Where cur is, while units are left to pack.
LEMMA Where ==
  ASSUME IInv, Packing
  PROVE  /\ first \in Nat /\ next \in Nat /\ 1 <= first /\ first <= next
         /\ next <= Len(units) + 1 /\ Len(units) \in Nat /\ size \in Nat
         /\ curLen \in Nat /\ done = FALSE /\ ~Splitting
         /\ next <= Len(units) => Length(next) \in Nat
         /\ ~Empty => first <= next - 1 /\ Length(next - 1) \in Nat
         /\ Empty <=> first = next
<1>1. /\ first \in Nat /\ next \in Nat /\ 1 <= first /\ first <= next
      /\ next <= Len(units) + 1 /\ Len(units) \in Nat /\ size \in Nat /\ curLen \in Nat
  BY Typed DEF IInv, TypeOK
<1>2. done = FALSE /\ ~Splitting
  BY DEF Packing, IInv, TypeOK
<1>3. next <= Len(units) => Length(next) \in Nat
  BY <1>1, Typed DEF IInv
<1>4. ~Empty => first <= next - 1 /\ Length(next - 1) \in Nat
  <2>1. ~Empty => next - 1 \in 1..Len(units) /\ first <= next - 1
    BY <1>1 DEF Empty
  <2> QED
    BY <2>1, Typed DEF IInv
<1> QED
  BY <1>1, <1>2, <1>3, <1>4 DEF Empty

LEMMA CurWithin ==
  ASSUME IInv, Packing, ~Empty
  PROVE  \/ curLen <= size \/ next = first + 1
         \/ next = first + 2 /\ units[first].heading
<1>1. first < next
  BY Where
<1>2. CurFits
  BY DEF IInv
<1> QED
  BY <1>1, <1>2 DEF CurFits

\* The elements are not touched: what remains is about cur and the rows.
LEMMA PackingStep ==
  ASSUME IInv, Packing, UNCHANGED <<callVars, unitVars>>,
         first' \in 1..next', next' \in 1..(Len(units) + 1), curLen' \in Nat,
         done' \in BOOLEAN, RowsAreSeq', Tiled', CurFits', CoresFit', HeadingsMoveOn'
  PROVE  IInv'
<1>1. /\ input' = input /\ size' = size /\ overlap' = overlap /\ elem' = elem
      /\ pos' = pos /\ section' = section /\ units' = units
  BY DEF callVars, unitVars
<1>2. TypeOK'
  <2>1. Splitting' <=> Splitting
    BY <1>1 DEF Splitting
  <2>2. ~Splitting
    BY DEF Packing
  <2> QED
    BY <1>1, <2>1, <2>2 DEF IInv, TypeOK
<1>3. BeforePacking'
  BY <1>1 DEF BeforePacking, Packing, Splitting
<1>4. PiecesFit'
  BY <1>1 DEF IInv, PiecesFit, Length
<1> QED
  BY <1>2, <1>3, <1>4 DEF IInv

LEMMA PackStep == ASSUME IInv, Pack PROVE IInv'
<1>1. Packing /\ next <= Len(units)
  BY DEF Pack, More
<1>2. /\ curLen' = Appended /\ next' = next + 1 /\ first' = first
      /\ out' = out /\ done' = done /\ units' = units /\ size' = size
      /\ UNCHANGED <<callVars, unitVars>>
  BY DEF Pack, callVars, unitVars
<1>3. Appended \in Nat
  BY <1>1, Where DEF Appended
<1>4. RowsAreSeq' /\ Tiled' /\ CoresFit' /\ HeadingsMoveOn'
  BY <1>2 DEF IInv, RowsAreSeq, Tiled, CoresFit, HeadingsMoveOn
<1>5. CurFits'
  <2>1. CASE Empty
    BY <1>1, <1>2, <2>1, Where DEF CurFits
  <2>2. CASE ~Empty /\ Appended > size
    <3>1. AfterHeading /\ Lone
      BY <2>2 DEF Pack, Full
    <3>2. next' = first + 2 /\ units[first].heading
      BY <1>1, <1>2, <3>1, Where DEF AfterHeading, Lone
    <3> QED
      BY <1>2, <3>2 DEF CurFits
  <2>3. CASE ~(Appended > size)
    BY <1>1, <1>2, <1>3, <2>3, Where DEF CurFits
  <2> QED
    BY <2>1, <2>2, <2>3
<1>6. first' \in 1..next' /\ next' \in 1..(Len(units) + 1)
  BY <1>1, <1>2, Where
<1>7. done' \in BOOLEAN
  BY <1>2 DEF IInv, TypeOK
<1> QED
  BY <1>1, <1>2, <1>3, <1>4, <1>5, <1>6, <1>7, PackingStep

LEMMA MoveHeadingStep == ASSUME IInv, MoveHeading PROVE IInv'
<1>1. /\ Packing /\ next <= Len(units) /\ ~Empty /\ AfterHeading /\ ~Lone
      /\ Flush(first, next - 2, curLen - 1 - Length(next - 1))
  BY DEF MoveHeading, More, Full
<1>2. /\ first' = next - 1 /\ next' = next + 1 /\ done' = done
      /\ curLen' = Length(next - 1) + 1 + Length(next)
      /\ units' = units /\ size' = size /\ UNCHANGED <<callVars, unitVars>>
  BY DEF MoveHeading, callVars, unitVars
<1>3. next - 2 \in Nat /\ first <= next - 2
  BY <1>1, Where DEF Lone
<1>4. /\ first' \in 1..next' /\ next' \in 1..(Len(units) + 1) /\ curLen' \in Nat
      /\ first' = next - 2 + 1 /\ next - 2 + 1 = next - 1
  <2>1. /\ first' \in 1..next' /\ next' \in 1..(Len(units) + 1)
        /\ first' = next - 2 + 1 /\ next - 2 + 1 = next - 1
    <3>1. /\ first \in Nat /\ next \in Nat /\ 1 <= first /\ Len(units) \in Nat
      BY <1>1, Where
    <3> QED
      BY <1>1, <1>2, <1>3, <3>1
  <2>2. Length(next - 1) \in Nat /\ Length(next) \in Nat
    BY <1>1, Where
  <2> QED
    BY <1>2, <2>1, <2>2
<1>5. /\ units[next - 1].heading /\ done' = FALSE
  BY <1>1, <1>2, Where DEF AfterHeading
<1>6. \/ curLen - 1 - Length(next - 1) <= size
      \/ next - 2 = first
      \/ next - 2 = first + 1 /\ units[first].heading
  <2>1. curLen <= size \/ next = first + 1 \/ next = first + 2
    BY <1>1, CurWithin
  <2>2. Length(next - 1) \in Nat /\ curLen \in Nat /\ size \in Nat
    BY <1>1, Where
  <2> QED
    BY <1>1, <1>3, <2>1, <2>2, Where
<1>7. RowsAreSeq' /\ Tiled' /\ CoresFit' /\ HeadingsMoveOn'
  <2>1. first \in Nat
    BY <1>1, Where
  <2> QED
    BY <1>1, <1>2, <1>3, <1>4, <1>5, <1>6, <2>1, ChunkJoins DEF IInv
<1>8. CurFits'
  <2>1. next' = first' + 2 /\ units'[first'].heading
    BY <1>1, <1>2, <1>5, Where
  <2> QED
    BY <2>1 DEF CurFits
<1>9. done' \in BOOLEAN
  BY <1>5
<1> QED
  BY <1>1, <1>2, <1>4, <1>7, <1>8, <1>9, PackingStep

LEMMA CloseAndPackStep == ASSUME IInv, CloseAndPack PROVE IInv'
<1>1. /\ Packing /\ next <= Len(units) /\ ~Empty /\ ~AfterHeading
      /\ Flush(first, next - 1, curLen)
  BY DEF CloseAndPack, More, Full
<1>2. /\ first' = next /\ next' = next + 1 /\ done' = done /\ curLen' = Length(next)
      /\ units' = units /\ size' = size /\ UNCHANGED <<callVars, unitVars>>
  BY DEF CloseAndPack, callVars, unitVars
<1>3. /\ next - 1 \in Nat /\ first <= next - 1 /\ first \in Nat
      /\ first' \in 1..next' /\ next' \in 1..(Len(units) + 1) /\ curLen' \in Nat
      /\ first' = next - 1 + 1 /\ done' = FALSE /\ next' = first' + 1
  BY <1>1, <1>2, Where
<1>4. ~units[next - 1].heading
  BY <1>1 DEF AfterHeading
<1>5. \/ curLen <= size \/ next - 1 = first
      \/ next - 1 = first + 1 /\ units[first].heading
  <2>1. \/ curLen <= size \/ next = first + 1
        \/ next = first + 2 /\ units[first].heading
    BY <1>1, CurWithin
  <2> QED
    BY <1>1, <2>1, Where
<1>6. RowsAreSeq' /\ Tiled' /\ CoresFit' /\ HeadingsMoveOn'
  BY <1>1, <1>2, <1>3, <1>4, <1>5, ChunkJoins DEF IInv
<1>7. CurFits'
  BY <1>3 DEF CurFits
<1>8. done' \in BOOLEAN
  BY <1>3
<1> QED
  BY <1>1, <1>2, <1>3, <1>6, <1>7, <1>8, PackingStep

LEMMA FinishStep == ASSUME IInv, Finish PROVE IInv'
<1>1. Packing /\ next > Len(units)
  BY DEF Finish
<1>2. /\ first' = next /\ next' = next /\ curLen' = 0 /\ done' = TRUE
      /\ units' = units /\ size' = size /\ UNCHANGED <<callVars, unitVars>>
  BY DEF Finish, callVars, unitVars
<1>3. /\ next = Len(units) + 1 /\ first \in Nat
      /\ first' \in 1..next' /\ next' \in 1..(Len(units) + 1) /\ curLen' \in Nat
  BY <1>1, <1>2, Where
<1>4. CASE Empty
  <2>1. out' = out /\ first' = first
    BY <1>1, <1>2, <1>4, Where DEF Finish
  <2>2. RowsAreSeq' /\ CoresFit' /\ HeadingsMoveOn'
    BY <1>2, <2>1 DEF IInv, RowsAreSeq, CoresFit, HeadingsMoveOn
  <2>3. Tiled'
    BY <1>2, <1>3, <2>1 DEF IInv, Tiled
  <2> QED
    BY <1>1, <1>2, <1>3, <2>2, <2>3, PackingStep DEF CurFits
<1>5. CASE ~Empty
  <2>1. /\ Flush(first, next - 1, curLen) /\ first <= next - 1 /\ next - 1 \in Nat
        /\ next - 1 = Len(units) /\ first' = next - 1 + 1
    BY <1>1, <1>2, <1>3, <1>5, Where DEF Finish
  <2>2. \/ curLen <= size \/ next - 1 = first
        \/ next - 1 = first + 1 /\ units[first].heading
    <3>1. \/ curLen <= size \/ next = first + 1
          \/ next = first + 2 /\ units[first].heading
      BY <1>1, <1>5, CurWithin
    <3> QED
      BY <1>1, <3>1, Where
  <2>3. RowsAreSeq' /\ Tiled' /\ CoresFit' /\ HeadingsMoveOn'
    BY <1>2, <1>3, <2>1, <2>2, ChunkJoins DEF IInv
  <2> QED
    BY <1>1, <1>2, <1>3, <2>3, PackingStep DEF CurFits
<1> QED
  BY <1>4, <1>5

-----------------------------------------------------------------------------

LEMMA Inductive == IInv /\ [Next]_vars => IInv'
<1> SUFFICES ASSUME IInv, [Next]_vars PROVE IInv'
  OBVIOUS
<1>1. CASE CutAtSpace \/ CutAtCodepoint \/ CutAfterCodepoint \/ TakeRest
  BY <1>1, SplittingStep
<1>2. CASE Pack
  BY <1>2, PackStep
<1>3. CASE MoveHeading
  BY <1>3, MoveHeadingStep
<1>4. CASE CloseAndPack
  BY <1>4, CloseAndPackStep
<1>5. CASE Finish
  BY <1>5, FinishStep
<1>6. CASE UNCHANGED vars
  <2>1. /\ input' = input /\ size' = size /\ overlap' = overlap /\ elem' = elem
        /\ pos' = pos /\ section' = section /\ units' = units /\ first' = first
        /\ next' = next /\ curLen' = curLen /\ out' = out /\ done' = done
    BY <1>6 DEF vars, callVars, unitVars, packVars
  <2>2. TypeOK'
    BY <2>1 DEF IInv, TypeOK, Splitting, Text
  <2>3. BeforePacking' /\ RowsAreSeq' /\ Tiled' /\ PiecesFit' /\ CurFits' /\ CoresFit'
          /\ HeadingsMoveOn'
    BY <2>1 DEF IInv, BeforePacking, Splitting, RowsAreSeq, Tiled, PiecesFit, Length,
                CurFits, CoresFit, HeadingsMoveOn
  <2> QED
    BY <2>2, <2>3 DEF IInv
<1> QED
  BY <1>1, <1>2, <1>3, <1>4, <1>5, <1>6 DEF Next

LEMMA Always == Spec => []IInv
<1> QED
  BY Initially, Inductive, PTL DEF Spec

-----------------------------------------------------------------------------
(* What the pieces are. The invariants below build on IInv.                *)

\* Where the cutting of an element stands: at the first byte of a code point, past the
\* beginning only if the element does not fit, and under the right heading.
AtPlace ==
  /\ IF Splitting THEN /\ pos < Len(Text) => ~ContinuesAt(pos)
                       /\ pos > 0 => Len(Text) > size
                  ELSE pos = 0
  /\ section = LastHeading(IF pos > 0 THEN elem ELSE elem - 1)

\* A unit is a piece, from a whole code point on, of an element that has been reached.
PieceTrue(u) ==
  /\ u.element \in 1..Len(input) /\ u.element <= elem
  /\ u.element = elem => u.at + Len(u.text) <= pos
  /\ u.text = SubSeq(input[u.element].text, u.at + 1, u.at + Len(u.text))
  /\ Len(u.text) > 0 /\ u.text[1] # "cont"
  /\ u.page = input[u.element].page /\ u.heading = input[u.element].heading
  /\ u.section = LastHeading(u.element)
PiecesTrue == \A i \in 1..Len(units) : PieceTrue(units[i])

\* One unit comes before another in the file.
Ahead(u, v) ==
  \/ u.element < v.element
  \/ /\ u.element = v.element /\ u.at + Len(u.text) <= v.at
     /\ Len(input[u.element].text) > size
PiecesOrdered == \A i, j \in 1..Len(units) : i < j => Ahead(units[i], units[j])

\* What has been cut is in a piece, or white space.
Kept(e, p) == IsAsciiSpace(input[e].text[p]) \/ \E i \in 1..Len(units) : Holds(i, e, p)
CutSoFar ==
  /\ \A e \in 1..(elem - 1) : \A p \in 1..Len(input[e].text) : Kept(e, p)
  /\ \A p \in 1..pos : Kept(elem, p)

Cutting == AtPlace /\ PiecesTrue /\ PiecesOrdered /\ CutSoFar

LEMMA Given ==
  ASSUME TypeOK, NEW e \in 1..Len(input)
  PROVE  /\ input[e].text \in Seq(Bytes) /\ Len(input[e].text) \in Nat
         /\ Len(input[e].text) > 0 /\ input[e].text[1] # "cont"
         /\ \A i \in 2..Len(input[e].text) :
              input[e].text[i] = "cont" => ~IsAsciiSpace(input[e].text[i - 1])
         /\ input[e].page \in Nat /\ input[e].heading \in BOOLEAN
         /\ \A f \in 1..Len(input) : e < f => input[e].page <= input[f].page
<1> DEFINE t == input[e].text
<1>1. input \in Inputs /\ input \in Seq(Elements)
  BY Typed DEF TypeOK
<1>2. DOMAIN input = 1..Len(input)
  BY <1>1, LenProperties
<1>3. input[e] \in Elements
  BY <1>1, ElementOfSeq
<1>4. t \in Seq(Bytes) /\ input[e].page \in Nat /\ input[e].heading \in BOOLEAN
  BY <1>3 DEF Elements, Texts
<1>5. t # <<>> /\ IsUtf8(t) /\ \A f \in 1..Len(input) : e < f => input[e].page <= input[f].page
  BY <1>1, <1>2, ChunkingAssumption
<1> HIDE DEF t
<1>6. Len(t) \in Nat /\ Len(t) > 0 /\ DOMAIN t = 1..Len(t)
  BY <1>4, <1>5, EmptySeq, LenProperties
<1>7. t[1] # "cont" /\ \A i \in 2..Len(t) : t[i] = "cont" => t[i - 1] \in {"lead", "cont"}
  <2>1. \A i \in 1..Len(t) : t[i] = "cont" => i > 1 /\ t[i - 1] \in {"lead", "cont"}
    BY <1>5, <1>6 DEF IsUtf8
  <2> QED
    BY <1>6, <2>1
<1>8. \A i \in 2..Len(t) : t[i] = "cont" => ~IsAsciiSpace(t[i - 1])
  BY <1>7 DEF IsAsciiSpace
<1> QED
  BY <1>4, <1>5, <1>6, <1>7, <1>8 DEF t

\* The last heading up to an element is that element, or the last one before it.
LEMMA HeadingOver ==
  ASSUME NEW e \in Nat \ {0}
  PROVE  LastHeading(e) = IF input[e].heading THEN e ELSE LastHeading(e - 1)
<1>1. CASE input[e].heading
  <2>1. e \in Headings(e) /\ \A d \in Headings(e) : d \in Nat /\ d <= e
    BY <1>1 DEF Headings
  <2>2. \A x \in Headings(e) : (\A d \in Headings(e) : d <= x) <=> x = e
    BY <2>1
  <2> QED
    BY <1>1, <2>1, <2>2 DEF LastHeading
<1>2. CASE ~input[e].heading
  <2>1. Headings(e) = Headings(e - 1)
    BY <1>2 DEF Headings
  <2> QED
    BY <1>2, <2>1 DEF LastHeading
<1> QED
  BY <1>1, <1>2

LEMMA SectionTrue ==
  ASSUME IInv, AtPlace, Splitting
  PROVE  Section = LastHeading(elem)
<1>1. elem \in Nat \ {0} /\ pos \in Nat
  BY Typed DEF IInv, TypeOK
<1> QED
  BY <1>1, HeadingOver DEF AtPlace, Section

LEMMA CuttingInit == Init => Cutting
<1> SUFFICES ASSUME Init PROVE Cutting
  OBVIOUS
<1>1. TypeOK
  BY Initially DEF IInv
<1>2. elem = 1 /\ pos = 0 /\ section = 0 /\ Len(units) = 0
  BY EmptySeq DEF Init
<1>3. AtPlace
  <2>1. LastHeading(0) = 0
    BY DEF LastHeading, Headings
  <2>2. Splitting => ~ContinuesAt(0)
    BY <1>1, <1>2, Typed, Given DEF Splitting, ContinuesAt, Text
  <2> QED
    BY <1>2, <2>1, <2>2 DEF AtPlace
<1>4. PiecesTrue /\ PiecesOrdered
  BY <1>2 DEF PiecesTrue, PiecesOrdered
<1>5. CutSoFar
  BY <1>2 DEF CutSoFar
<1> QED
  BY <1>3, <1>4, <1>5 DEF Cutting

LEMMA SameHeadings == ASSUME input' = input, NEW e PROVE LastHeading(e)' = LastHeading(e)
<1> QED
  BY DEF LastHeading, Headings

\* The piece from pos to upto joins the units, and white space is passed over.
LEMMA PieceKept ==
  ASSUME IInv, Cutting, Splitting, NEW upto \in (pos + 1)..Len(Text),
         units' = Append(units, Unit(upto)), section' = Section, UNCHANGED callVars,
         pos > 0 => Len(Text) > size,
         \/ /\ elem' = elem /\ pos' \in upto..Len(Text) /\ Len(Text) > size
            /\ \A i \in upto..(pos' - 1) : SpaceAt(i)
            /\ pos' < Len(Text) => ~ContinuesAt(pos')
         \/ elem' = elem + 1 /\ pos' = 0 /\ upto = Len(Text)
  PROVE  Cutting'
<1>1. PICK u, n : u = Unit(upto) /\ n = Len(units)
  OBVIOUS
<1>2. /\ pos \in Nat /\ upto \in Nat /\ Len(Text) \in Nat /\ pos < upto /\ upto <= Len(Text)
      /\ elem \in 1..Len(input) /\ Text = input[elem].text /\ Len(input) \in Nat /\ TypeOK
      /\ n \in Nat /\ size \in Nat /\ elem \in Nat
  BY <1>1, Typed DEF IInv, TypeOK, Splitting, Text
<1>3. /\ input' = input /\ size' = size
  BY DEF callVars
<1>4. upto \in pos..Len(Text)
  BY <1>2
<1>5. /\ units \in Seq(Pieces) /\ u \in Pieces /\ Len(SubSeq(Text, pos + 1, upto)) = upto - pos
      /\ SubSeq(Text, pos + 1, upto)[1] = Text[pos + 1]
  <2>1. units \in Seq(Pieces) /\ u \in Pieces /\ Len(SubSeq(Text, pos + 1, upto)) = upto - pos
    BY <1>1, <1>2, <1>4, UnitIs, Typed
  <2>2. \A i \in 1..(upto - pos) : SubSeq(Text, pos + 1, upto)[i] = Text[pos + i]
    BY <1>2, <1>4, UnitIs
  <2> QED
    BY <1>2, <2>1, <2>2
<1>6. /\ Len(units') = n + 1 /\ units'[n + 1] = u
      /\ \A i \in 1..n : units'[i] = units[i]
  BY <1>1, <1>5, AppendProperties
<1>7. /\ u.element = elem /\ u.at = pos /\ u.text = SubSeq(input[elem].text, u.at + 1, upto)
      /\ Len(u.text) = upto - pos /\ u.text[1] = Text[pos + 1] /\ u.section = Section
      /\ u.page = input[elem].page /\ u.heading = input[elem].heading
  BY <1>1, <1>2, <1>5 DEF Unit
<1>8. PiecesTrue'
  <2>1. ASSUME NEW v \in Pieces, PieceTrue(v) PROVE PieceTrue(v)'
    <3>1. v.element <= elem' /\ v.element \in 1..Len(input)
      BY <1>2, <2>1 DEF PieceTrue
    <3>2. v.element = elem' => v.at + Len(v.text) <= pos'
      <4>1. elem' = elem /\ v.element = elem' => v.at + Len(v.text) <= pos
        BY <2>1 DEF PieceTrue
      <4>2. elem' = elem + 1 => v.element # elem'
        BY <1>2, <2>1 DEF PieceTrue
      <4>3. v.at \in Nat /\ Len(v.text) \in Nat
        BY LenProperties DEF Pieces, Texts
      <4> QED
        BY <1>2, <4>1, <4>2, <4>3
    <3> QED
      BY <1>3, <2>1, <3>1, <3>2, SameHeadings DEF PieceTrue
  <2>2. PieceTrue(u)'
    <3>1. u.element <= elem' /\ (u.element = elem' => u.at + Len(u.text) <= pos')
      BY <1>2, <1>7
    <3>2. Len(u.text) > 0 /\ u.text[1] # "cont"
      <4>1. ~ContinuesAt(pos)
        BY <1>2 DEF Cutting, AtPlace
      <4> QED
        BY <1>2, <1>7, <4>1 DEF ContinuesAt
    <3>3. u.section = LastHeading(u.element)
      BY <1>7, SectionTrue DEF Cutting
    <3>4. u.at + Len(u.text) = upto
      BY <1>2, <1>7
    <3>5. u.text = SubSeq(input[u.element].text, u.at + 1, u.at + Len(u.text))
      BY <1>7, <3>4
    <3> QED
      BY <1>2, <1>3, <1>7, <3>1, <3>2, <3>3, <3>5, SameHeadings DEF PieceTrue
  <2>3. ASSUME NEW i \in 1..(n + 1) PROVE PieceTrue(units[i])'
    <3>1. CASE i = n + 1
      BY <1>6, <2>2, <3>1
    <3>2. CASE i \in 1..n
      <4>1. PieceTrue(units[i]) /\ units[i] \in Pieces
        BY <1>1, <1>2, <3>2, Typed DEF Cutting, PiecesTrue
      <4> QED
        BY <1>6, <2>1, <3>2, <4>1
    <3>3. i = n + 1 \/ i \in 1..n
      BY <1>2
    <3> QED
      BY <3>1, <3>2, <3>3
  <2> QED
    BY <1>6, <2>3 DEF PiecesTrue
<1>9. PiecesOrdered'
  <2>1. ASSUME NEW v, NEW w, Ahead(v, w) PROVE Ahead(v, w)'
    BY <1>3, <2>1 DEF Ahead
  <2>2. ASSUME NEW i \in 1..n PROVE Ahead(units[i], u)
    <3>1. PieceTrue(units[i])
      BY <1>1, <2>2 DEF Cutting, PiecesTrue
    <3>2. units[i].at \in Nat
      BY <1>1, <1>2, <2>2, Typed DEF Pieces
    <3>3. CASE units[i].element = elem
      <4>1. units[i].at + Len(units[i].text) <= pos /\ pos > 0
        <5>1. Len(units[i].text) \in Nat
          BY <1>1, <1>2, <2>2, Typed DEF Length
        <5> QED
          BY <1>2, <3>1, <3>2, <3>3, <5>1 DEF PieceTrue
      <4>2. Len(input[elem].text) > size
        BY <1>2, <4>1
      <4> QED
        BY <1>7, <3>3, <4>1, <4>2 DEF Ahead
    <3>4. CASE units[i].element # elem
      BY <1>2, <1>7, <3>1, <3>4 DEF Ahead, PieceTrue
    <3> QED
      BY <3>3, <3>4
  <2>3. ASSUME NEW i \in 1..(n + 1), NEW j \in 1..(n + 1), i < j
        PROVE  Ahead(units[i], units[j])'
    <3>1. i \in 1..n
      BY <1>2, <2>3
    <3>2. Ahead(units[i], units'[j])
      <4>1. CASE j = n + 1
        BY <1>6, <2>2, <3>1, <4>1
      <4>2. CASE j \in 1..n
        <5>1. Ahead(units[i], units[j])
          BY <1>1, <2>3, <3>1, <4>2 DEF Cutting, PiecesOrdered
        <5> QED
          BY <1>6, <4>2, <5>1
      <4>3. j = n + 1 \/ j \in 1..n
        BY <1>2
      <4> QED
        BY <4>1, <4>2, <4>3
    <3> QED
      BY <1>6, <2>1, <3>1, <3>2
  <2> QED
    BY <1>6, <2>3 DEF PiecesOrdered
<1>10. CutSoFar'
  <2>1. ASSUME NEW e, NEW p, Kept(e, p) PROVE Kept(e, p)'
    <3>1. CASE IsAsciiSpace(input[e].text[p])
      BY <1>3, <3>1 DEF Kept
    <3>2. CASE \E i \in 1..n : Holds(i, e, p)
      <4>1. PICK i \in 1..n : Holds(i, e, p)
        BY <3>2
      <4>2. Holds(i, e, p)'
        BY <1>6, <4>1 DEF Holds, Length
      <4> QED
        BY <1>2, <1>6, <4>2 DEF Kept
    <3> QED
      BY <1>1, <2>1, <3>1, <3>2 DEF Kept
  <2>2. ASSUME NEW p \in 1..upto, NEW e, e = elem PROVE Kept(e, p)'
    <3>1. CASE p \in 1..pos
      <4>1. Kept(e, p)
        BY <2>2, <3>1 DEF Cutting, CutSoFar
      <4> QED
        BY <2>1, <4>1
    <3>2. CASE p \in (pos + 1)..upto
      <4>1. n + 1 \in 1..Len(units') /\ Len(u.text) = upto - pos
        BY <1>2, <1>6, <1>7
      <4>2. p \in (u.at + 1)..(u.at + Len(u.text))
        BY <1>2, <1>7, <3>2
      <4>3. Holds(n + 1, e, p)'
        BY <1>6, <1>7, <2>2, <4>2 DEF Holds, Length
      <4> QED
        BY <4>1, <4>3 DEF Kept
    <3> QED
      BY <1>2, <3>1, <3>2
  <2>3. ASSUME NEW e \in 1..(elem - 1), NEW p \in 1..Len(input[e].text) PROVE Kept(e, p)'
    <3>1. Kept(e, p)
      BY <2>3 DEF Cutting, CutSoFar
    <3> QED
      BY <2>1, <3>1
  <2>4. CASE elem' = elem
    <3>1. ASSUME NEW p \in 1..pos', NEW e, e = elem PROVE Kept(e, p)'
      <4>1. CASE p \in 1..upto
        BY <2>2, <3>1, <4>1
      <4>2. CASE p \in (upto + 1)..pos'
        <5>1. p - 1 \in upto..(pos' - 1) /\ p - 1 + 1 = p
          BY <1>2, <2>4, <4>2
        <5>2. SpaceAt(p - 1)
          BY <1>2, <2>4, <5>1
        <5>3. IsAsciiSpace(input[e].text[p])
          BY <1>2, <3>1, <5>1, <5>2 DEF SpaceAt
        <5> QED
          BY <1>3, <5>3 DEF Kept
      <4> QED
        BY <1>2, <2>4, <4>1, <4>2
    <3> QED
      BY <1>3, <2>3, <2>4, <3>1 DEF CutSoFar
  <2>5. CASE elem' = elem + 1 /\ pos' = 0 /\ upto = Len(Text)
    <3>1. ASSUME NEW e \in 1..elem, NEW p \in 1..Len(input[e].text) PROVE Kept(e, p)'
      <4>1. CASE e = elem
        BY <1>2, <2>2, <2>5, <3>1, <4>1
      <4>2. CASE e \in 1..(elem - 1)
        BY <2>3, <3>1, <4>2
      <4> QED
        BY <1>2, <4>1, <4>2
    <3> QED
      BY <1>2, <1>3, <2>5, <3>1 DEF CutSoFar
  <2> QED
    BY <2>4, <2>5
<1>11. AtPlace'
  <2>1. section' = LastHeading(elem)
    BY SectionTrue DEF Cutting
  <2>2. CASE elem' = elem
    <3>1. pos' > 0 /\ Splitting' /\ Text' = Text
      BY <1>2, <1>3, <2>2 DEF Splitting, Text
    <3>2. pos' < Len(Text') => ~ContinuesAt(pos)'
      BY <1>2, <2>2, <3>1 DEF ContinuesAt
    <3> QED
      BY <1>2, <1>3, <2>1, <2>2, <3>1, <3>2, SameHeadings DEF AtPlace
  <2>3. CASE elem' = elem + 1 /\ pos' = 0
    <3>1. section' = LastHeading(elem - 1)'
      BY <1>2, <1>3, <2>1, <2>3, SameHeadings
    <3>2. Splitting' => ~ContinuesAt(pos)'
      <4>1. ASSUME Splitting' PROVE input[elem + 1].text[1] # "cont"
        BY <1>2, <1>3, <2>3, <4>1, Given DEF Splitting
      <4> QED
        BY <1>3, <2>3, <4>1 DEF ContinuesAt, Text
    <3> QED
      BY <2>3, <3>1, <3>2 DEF AtPlace
  <2> QED
    BY <2>2, <2>3
<1> QED
  BY <1>8, <1>9, <1>10, <1>11 DEF Cutting

\* A code point does not go on after white space.
LEMMA CutKept ==
  ASSUME IInv, Cutting, TooLong, NEW upto \in (pos + 1)..Len(Text), NEW from \in upto..Len(Text),
         \A i \in upto..(from - 1) : SpaceAt(i), Cut(upto, from),
         from = upto /\ upto < Len(Text) => ~ContinuesAt(upto)
  PROVE  Cutting'
<1>1. /\ Splitting /\ pos \in Nat /\ size \in Nat /\ Len(Text) \in Nat /\ Len(Text) > size
      /\ upto \in Nat /\ from \in Nat /\ TypeOK /\ elem \in 1..Len(input) /\ Text = input[elem].text
  BY Typed DEF TooLong, IInv, TypeOK, Splitting, Text
<1>2. PICK to \in from..Len(Text) : (\A i \in from..(to - 1) : SpaceAt(i)) /\ pos' = to
  BY DEF Cut
<1>3. \A i \in upto..(to - 1) : SpaceAt(i)
  <2>1. ASSUME NEW i \in upto..(to - 1) PROVE i \in upto..(from - 1) \/ i \in from..(to - 1)
    BY <1>1, <1>2
  <2> QED
    BY <1>2, <2>1
<1>4. to < Len(Text) => ~ContinuesAt(to)
  <2>1. CASE to = upto
    BY <1>1, <1>2, <2>1
  <2>2. CASE to # upto
    <3>1. to - 1 \in upto..(to - 1) /\ to - 1 + 1 = to /\ to + 1 - 1 = to
      BY <1>1, <1>2, <2>2
    <3>2. IsAsciiSpace(Text[to])
      BY <1>3, <3>1 DEF SpaceAt
    <3>3. to < Len(Text) => to + 1 \in 2..Len(Text)
      BY <1>1, <1>2
    <3> QED
      BY <1>1, <3>1, <3>2, <3>3, Given DEF ContinuesAt
  <2> QED
    BY <2>1, <2>2
<1>5. /\ units' = Append(units, Unit(upto)) /\ section' = Section /\ elem' = elem
      /\ UNCHANGED callVars
  BY DEF Cut
<1>6. pos' \in upto..Len(Text)
  BY <1>1, <1>2
<1> QED
  BY <1>1, <1>2, <1>3, <1>4, <1>5, <1>6, PieceKept

LEMMA RestKept ==
  ASSUME IInv, Cutting, TakeRest
  PROVE  Cutting'
<1>1. /\ Splitting /\ pos \in Nat /\ Len(Text) \in Nat /\ pos <= Len(Text) /\ TypeOK
      /\ elem \in 1..Len(input) /\ elem \in Nat /\ Text = input[elem].text /\ UNCHANGED callVars
      /\ elem' = elem + 1 /\ pos' = 0 /\ Len(Text) > 0 /\ Len(input) \in Nat
  BY Typed, Given DEF TakeRest, IInv, TypeOK, Splitting, Text
<1>2. CASE pos = 0 \/ pos < Len(Text)
  <2>1. units' = Append(units, Unit(Len(Text))) /\ section' = Section
    BY <1>2 DEF TakeRest
  <2>2. Len(Text) \in (pos + 1)..Len(Text)
    BY <1>1, <1>2
  <2>3. pos > 0 => Len(Text) > size
    BY <1>1 DEF Cutting, AtPlace
  <2> QED
    BY <1>1, <2>1, <2>2, <2>3, PieceKept
<1>3. CASE ~(pos = 0 \/ pos < Len(Text))
  <2>1. units' = units /\ section' = section /\ input' = input /\ size' = size /\ pos = Len(Text)
    BY <1>1, <1>3 DEF TakeRest, callVars
  <2>2. AtPlace'
    <3>1. section' = LastHeading(elem - 1)'
      BY <1>1, <2>1, SameHeadings DEF Cutting, AtPlace
    <3>2. Splitting' => ~ContinuesAt(pos)'
      <4>1. ASSUME Splitting' PROVE input[elem + 1].text[1] # "cont"
        BY <1>1, <2>1, <4>1, Given DEF Splitting
      <4> QED
        BY <1>1, <2>1, <4>1 DEF ContinuesAt, Text
    <3> QED
      BY <1>1, <3>1, <3>2 DEF AtPlace
  <2>3. PiecesTrue'
    <3>1. ASSUME NEW v, PieceTrue(v) PROVE PieceTrue(v)'
      BY <1>1, <2>1, <3>1, SameHeadings DEF PieceTrue
    <3> QED
      BY <2>1, <3>1 DEF Cutting, PiecesTrue
  <2>4. PiecesOrdered'
    BY <2>1 DEF Cutting, PiecesOrdered, Ahead
  <2>5. CutSoFar'
    <3>1. ASSUME NEW e, NEW p, Kept(e, p) PROVE Kept(e, p)'
      BY <2>1, <3>1 DEF Kept, Holds, Length
    <3>2. ASSUME NEW e \in 1..elem, NEW p \in 1..Len(input[e].text) PROVE Kept(e, p)
      BY <1>1, <2>1, <3>2 DEF Cutting, CutSoFar
    <3> QED
      BY <1>1, <2>1, <3>1, <3>2 DEF CutSoFar
  <2> QED
    BY <2>2, <2>3, <2>4, <2>5 DEF Cutting
<1> QED
  BY <1>2, <1>3

\* Packing leaves the pieces alone.
LEMMA CuttingSame ==
  ASSUME Cutting, UNCHANGED <<callVars, unitVars>>
  PROVE  Cutting'
<1>1. /\ input' = input /\ size' = size /\ elem' = elem /\ pos' = pos /\ section' = section
      /\ units' = units
  BY DEF callVars, unitVars
<1>2. AtPlace'
  BY <1>1, SameHeadings DEF Cutting, AtPlace, Splitting, Text, ContinuesAt
<1>3. PiecesTrue'
  <2>1. ASSUME NEW v, PieceTrue(v) PROVE PieceTrue(v)'
    BY <1>1, <2>1, SameHeadings DEF PieceTrue
  <2> QED
    BY <1>1, <2>1 DEF Cutting, PiecesTrue
<1>4. PiecesOrdered'
  BY <1>1 DEF Cutting, PiecesOrdered, Ahead
<1>5. CutSoFar'
  <2>1. ASSUME NEW e, NEW p, Kept(e, p) PROVE Kept(e, p)'
    BY <1>1, <2>1 DEF Kept, Holds, Length
  <2> QED
    BY <1>1, <2>1 DEF Cutting, CutSoFar
<1> QED
  BY <1>2, <1>3, <1>4, <1>5 DEF Cutting

LEMMA CuttingInductive == IInv /\ Cutting /\ [Next]_vars => Cutting'
<1> SUFFICES ASSUME IInv, Cutting, [Next]_vars PROVE Cutting'
  OBVIOUS
<1>1. pos \in Nat /\ size \in Nat
  BY Typed DEF IInv, TypeOK
<1>2. CASE CutAtSpace
  <2>1. PICK cut \in Within : SpaceAt(cut) /\ Cut(cut, cut + 1)
    BY <1>2 DEF CutAtSpace
  <2>2. TooLong /\ Len(Text) \in Nat /\ Len(Text) - pos > size
    BY <1>2, Typed DEF CutAtSpace, TooLong, IInv
  <2>3. cut \in (pos + 1)..Len(Text) /\ cut + 1 \in cut..Len(Text) /\ cut # cut + 1
    BY <1>1, <2>2 DEF Within
  <2>4. \A i \in cut..(cut + 1 - 1) : SpaceAt(i)
    <3>1. \A i \in cut..(cut + 1 - 1) : i = cut
      BY <2>3
    <3> QED
      BY <2>1, <3>1
  <2> QED
    BY <2>1, <2>2, <2>3, <2>4, CutKept
<1>3. CASE CutAtCodepoint
  <2>1. PICK cut \in Within : ~ContinuesAt(cut) /\ Cut(cut, cut)
    BY <1>3 DEF CutAtCodepoint
  <2>2. TooLong /\ Len(Text) \in Nat /\ Len(Text) - pos > size
    BY <1>3, Typed DEF CutAtCodepoint, TooLong, IInv
  <2>3. cut \in (pos + 1)..Len(Text) /\ cut \in cut..Len(Text) /\ cut..(cut - 1) = {}
    BY <1>1, <2>2 DEF Within
  <2> QED
    BY <2>1, <2>2, <2>3, CutKept
<1>4. CASE CutAfterCodepoint
  <2>1. PICK cut \in (pos + 1)..Len(Text) : (cut < Len(Text) => ~ContinuesAt(cut)) /\ Cut(cut, cut)
    BY <1>4 DEF CutAfterCodepoint
  <2>2. TooLong /\ Len(Text) \in Nat
    BY <1>4, Typed DEF CutAfterCodepoint, TooLong, IInv
  <2>3. cut \in cut..Len(Text) /\ cut..(cut - 1) = {}
    BY <1>1, <2>2
  <2> QED
    BY <2>1, <2>2, <2>3, CutKept
<1>5. CASE TakeRest
  BY <1>5, RestKept
<1>6. CASE Pack \/ MoveHeading \/ CloseAndPack \/ Finish \/ UNCHANGED vars
  <2>1. UNCHANGED <<callVars, unitVars>>
    BY <1>6 DEF Pack, MoveHeading, CloseAndPack, Finish, vars
  <2> QED
    BY <2>1, CuttingSame
<1> QED
  BY <1>2, <1>3, <1>4, <1>5, <1>6 DEF Next

LEMMA AlwaysCut == Spec => [](IInv /\ Cutting)
<1> QED
  BY Always, CuttingInit, CuttingInductive, PTL DEF Spec

-----------------------------------------------------------------------------
(* The text of a range of units.                                           *)

LEMMA Least ==
  ASSUME NEW S \in SUBSET Nat, S # {}
  PROVE  \E x \in S : \A y \in S : x <= y
<1>1. PICK x \in S : \A y \in S : <<y, x>> \notin OpToRel(<, Nat)
  BY WFMin, NatLessThanWellFounded
<1>2. \A y \in S : ~(y < x)
  BY <1>1 DEF OpToRel
<1> QED
  BY <1>2

\* The texts T[lo], T[lo + 1], ... joined one after another, up to n.
JoinTo(T, lo, n, f) ==
  f = [m \in 0..n |-> IF m <= lo THEN T[lo] ELSE Joined(f[m - 1], T[m])]

LEMMA JoinToIs ==
  ASSUME NEW T, NEW lo \in Nat, NEW n \in Nat, NEW f
  PROVE  JoinTo(T, lo, n, f) <=>
           /\ f = [m \in 0..n |-> f[m]]
           /\ \A m \in 0..n : f[m] = IF m <= lo THEN T[lo] ELSE Joined(f[m - 1], T[m])
<1> QED
  BY DEF JoinTo

LEMMA JoinToAt ==
  ASSUME NEW T, NEW lo \in Nat, NEW n \in Nat, NEW f, JoinTo(T, lo, n, f), NEW m \in 0..n
  PROVE  f[m] = IF m <= lo THEN T[lo] ELSE Joined(f[m - 1], T[m])
<1> DEFINE g == [k \in 0..n |-> IF k <= lo THEN T[lo] ELSE Joined(f[k - 1], T[k])]
<1>1. f = g
  BY DEF JoinTo
<1>2. g[m] = IF m <= lo THEN T[lo] ELSE Joined(f[m - 1], T[m])
  OBVIOUS
<1> HIDE DEF g
<1> QED
  BY <1>1, <1>2

LEMMA JoinToExists ==
  ASSUME NEW T, NEW lo \in Nat, NEW n \in Nat
  PROVE  \E f : JoinTo(T, lo, n, f)
<1> DEFINE S == {k \in Nat : ~\E f : JoinTo(T, lo, k, f)}
<1>1. SUFFICES ASSUME S # {} PROVE FALSE
  OBVIOUS
<1>2. PICK k \in S : \A y \in S : k <= y
  BY <1>1, Least
<1>3. k \in Nat /\ ~\E f : JoinTo(T, lo, k, f)
  OBVIOUS
<1>4. CASE k = 0
  <2> DEFINE f == [m \in 0..0 |-> T[lo]]
  <2>1. JoinTo(T, lo, 0, f)
    <3>1. \A m \in 0..0 : m = 0 /\ m <= lo
      OBVIOUS
    <3>2. \A m \in 0..0 : f[m] = T[lo]
      OBVIOUS
    <3>3. f = [m \in 0..0 |-> f[m]]
      OBVIOUS
    <3> HIDE DEF f
    <3>4. \A m \in 0..0 : f[m] = IF m <= lo THEN T[lo] ELSE Joined(f[m - 1], T[m])
      BY <3>1, <3>2
    <3> QED
      BY <3>3, <3>4, JoinToIs
  <2> QED
    BY <1>3, <1>4, <2>1
<1>5. CASE k # 0
  <2>1. k - 1 \in Nat /\ k - 1 \notin S
    BY <1>2, <1>3, <1>5
  <2>2. PICK g : JoinTo(T, lo, k - 1, g)
    BY <2>1
  <2>3. \A m \in 0..(k - 1) : g[m] = IF m <= lo THEN T[lo] ELSE Joined(g[m - 1], T[m])
    BY <2>1, <2>2, JoinToAt
  <2> DEFINE f == [m \in 0..k |-> IF m <= lo THEN T[lo] ELSE Joined(g[m - 1], T[m])]
  <2>4. \A m \in 0..k : f[m] = IF m <= lo THEN T[lo] ELSE Joined(g[m - 1], T[m])
    OBVIOUS
  <2>5. f = [m \in 0..k |-> f[m]]
    OBVIOUS
  <2> HIDE DEF f
  <2>6. \A m \in 0..(k - 1) : f[m] = g[m]
    BY <1>3, <2>3, <2>4
  <2>7. \A m \in 0..k : f[m] = IF m <= lo THEN T[lo] ELSE Joined(f[m - 1], T[m])
    <3>1. \A m \in 0..k : ~(m <= lo) => m - 1 \in 0..(k - 1)
      BY <1>3
    <3> QED
      BY <2>4, <2>6, <3>1
  <2>8. JoinTo(T, lo, k, f)
    BY <1>3, <2>5, <2>7, JoinToIs
  <2> QED
    BY <1>3, <2>8
<1> QED
  BY <1>4, <1>5

LEMMA JoinToAgrees ==
  ASSUME NEW T, NEW lo \in Nat, NEW n \in Nat, NEW m \in Nat, NEW f, NEW g,
         JoinTo(T, lo, n, f), JoinTo(T, lo, m, g), NEW i \in Nat, i <= n, i <= m
  PROVE  f[i] = g[i]
<1> DEFINE S == {k \in Nat : k <= n /\ k <= m /\ f[k] # g[k]}
<1>1. SUFFICES ASSUME S # {} PROVE FALSE
  OBVIOUS
<1>2. PICK k \in S : \A y \in S : k <= y
  BY <1>1, Least
<1>3. k \in 0..n /\ k \in 0..m /\ f[k] # g[k]
  OBVIOUS
<1>4. /\ f[k] = IF k <= lo THEN T[lo] ELSE Joined(f[k - 1], T[k])
      /\ g[k] = IF k <= lo THEN T[lo] ELSE Joined(g[k - 1], T[k])
  BY <1>3, JoinToAt
<1>5. CASE k <= lo
  BY <1>3, <1>4, <1>5
<1>6. CASE ~(k <= lo)
  <2>1. k - 1 \in Nat /\ k - 1 <= n /\ k - 1 <= m /\ k - 1 \notin S
    BY <1>2, <1>3, <1>6
  <2>2. f[k - 1] = g[k - 1]
    BY <2>1
  <2> QED
    BY <1>3, <1>4, <1>6, <2>2
<1> QED
  BY <1>5, <1>6

LEMMA JoinExists ==
  ASSUME NEW T, NEW lo \in Nat
  PROVE  \E j : j = [n \in Nat |-> IF n <= lo THEN T[lo] ELSE Joined(j[n - 1], T[n])]
<1> DEFINE F(n) == CHOOSE f : JoinTo(T, lo, n, f)
           j == [n \in Nat |-> F(n)[n]]
<1>1. ASSUME NEW n \in Nat PROVE JoinTo(T, lo, n, F(n))
  BY JoinToExists
<1>2. ASSUME NEW n \in Nat PROVE j[n] = F(n)[n]
  OBVIOUS
<1>3. j = [n \in Nat |-> j[n]]
  OBVIOUS
<1> HIDE DEF F, j
<1>4. ASSUME NEW n \in Nat PROVE j[n] = IF n <= lo THEN T[lo] ELSE Joined(j[n - 1], T[n])
  <2>1. F(n)[n] = IF n <= lo THEN T[lo] ELSE Joined(F(n)[n - 1], T[n])
    <3>1. n \in 0..n
      OBVIOUS
    <3> QED
      BY <1>1, <3>1, JoinToAt
  <2>2. CASE n <= lo
    BY <1>2, <2>1, <2>2
  <2>3. CASE ~(n <= lo)
    <3>1. n - 1 \in Nat /\ n - 1 <= n /\ n - 1 <= n - 1
      BY <2>3
    <3>2. F(n)[n - 1] = F(n - 1)[n - 1]
      BY <1>1, <3>1, JoinToAgrees
    <3> QED
      BY <1>2, <2>1, <2>3, <3>1, <3>2
  <2> QED
    BY <2>2, <2>3
<1>5. j = [n \in Nat |-> IF n <= lo THEN T[lo] ELSE Joined(j[n - 1], T[n])]
  BY <1>3, <1>4
<1> QED
  BY <1>5

\* Core is the text of its first unit, and what is joined to it.
LEMMA CoreIs ==
  ASSUME NEW lo \in Nat, NEW hi \in Nat
  PROVE  Core(lo, hi) = IF hi <= lo THEN units[lo].text ELSE Joined(Core(lo, hi - 1), units[hi].text)
<1>1. PICK T : T = [n \in Nat |-> units[n].text]
  OBVIOUS
<1>2. PICK j : j = [n \in Nat |-> IF n <= lo THEN T[lo] ELSE Joined(j[n - 1], T[n])]
  BY JoinExists
<1>3. j = [n \in Nat |-> IF n <= lo THEN units[lo].text ELSE Joined(j[n - 1], units[n].text)]
  BY <1>1, <1>2
<1> DEFINE join == CHOOSE f : f = [n \in Nat |-> IF n <= lo THEN units[lo].text ELSE Joined(f[n - 1], units[n].text)]
<1>4. join = [n \in Nat |-> IF n <= lo THEN units[lo].text ELSE Joined(join[n - 1], units[n].text)]
  BY <1>3
<1>5. \A n \in Nat : Core(lo, n) = join[n]
  BY DEF Core
<1> HIDE DEF join
<1>6. join[hi] = IF hi <= lo THEN units[lo].text ELSE Joined(join[hi - 1], units[hi].text)
  BY <1>4
<1>7. ~(hi <= lo) => hi - 1 \in Nat
  OBVIOUS
<1> QED
  BY <1>5, <1>6, <1>7

LEMMA JoinedIs ==
  ASSUME NEW t \in Texts, NEW u \in Texts
  PROVE  /\ Joined(t, u) \in Texts
         /\ t = <<>> => Joined(t, u) = u
         /\ t # <<>> => /\ Len(Joined(t, u)) = Len(t) + 1 + Len(u)
                        /\ \A i \in 1..Len(t) : Joined(t, u)[i] = t[i]
                        /\ \A i \in 1..Len(u) : Joined(t, u)[Len(t) + 1 + i] = u[i]
<1>1. t \in Seq(Bytes) /\ u \in Seq(Bytes) /\ <<"nl">> \in Seq(Bytes)
  <2>1. "nl" \in Bytes
    BY DEF Bytes
  <2> QED
    BY <2>1 DEF Texts
<1>2. Len(t) \in Nat /\ Len(u) \in Nat /\ Len(<<"nl">>) = 1
  BY <1>1, LenProperties
<1>3. /\ t \o <<"nl">> \in Seq(Bytes) /\ Len(t \o <<"nl">>) = Len(t) + 1
      /\ \A i \in 1..(Len(t) + 1) : i <= Len(t) => (t \o <<"nl">>)[i] = t[i]
  BY <1>1, <1>2, ConcatProperties
<1> DEFINE s == t \o <<"nl">>
<1>4. /\ s \o u \in Seq(Bytes) /\ Len(s \o u) = Len(s) + Len(u)
      /\ \A i \in 1..(Len(s) + Len(u)) : (s \o u)[i] = IF i <= Len(s) THEN s[i] ELSE u[i - Len(s)]
  BY <1>1, <1>3, ConcatProperties
<1>5. t # <<>> => Joined(t, u) = s \o u
  BY <1>1, <1>2, ConcatAssociative DEF Joined
<1>6. Len(s) = Len(t) + 1 /\ \A i \in 1..Len(t) : s[i] = t[i]
  BY <1>2, <1>3
<1> HIDE DEF s
<1>7. \A i \in 1..Len(t) : (s \o u)[i] = t[i]
  BY <1>2, <1>4, <1>6
<1>8. \A i \in 1..Len(u) : (s \o u)[Len(t) + 1 + i] = u[i]
  <2> SUFFICES ASSUME NEW i \in 1..Len(u) PROVE (s \o u)[Len(t) + 1 + i] = u[i]
    OBVIOUS
  <2>1. Len(t) + 1 + i \in 1..(Len(s) + Len(u)) /\ ~(Len(t) + 1 + i <= Len(s)) /\ Len(t) + 1 + i - Len(s) = i
    BY <1>2, <1>6
  <2> QED
    BY <1>4, <2>1
<1>9. t = <<>> => Joined(t, u) = u
  BY DEF Joined
<1> QED
  BY <1>1, <1>2, <1>4, <1>5, <1>6, <1>7, <1>8, <1>9 DEF Texts

LEMMA UnitText ==
  ASSUME TypeOK, PiecesTrue, NEW i \in 1..Len(units)
  PROVE  units[i].text \in Texts /\ Length(i) \in Nat /\ Length(i) > 0 /\ units[i].text # <<>>
<1>1. units[i] \in Pieces /\ Length(i) \in Nat /\ PieceTrue(units[i])
  BY Typed DEF PiecesTrue
<1>2. units[i].text \in Texts /\ Len(units[i].text) > 0
  BY <1>1 DEF Pieces, PieceTrue
<1>3. Len(<<>>) = 0
  BY EmptySeq
<1> QED
  BY <1>1, <1>2, <1>3 DEF Length

LEMMA CoreText ==
  ASSUME TypeOK, PiecesTrue, NEW lo \in 1..Len(units), NEW hi \in lo..Len(units)
  PROVE  Core(lo, hi) \in Texts /\ Core(lo, hi) # <<>>
<1>1. Len(units) \in Nat
  BY Typed
<1> DEFINE S == {k \in Nat : lo <= k /\ k <= Len(units) /\ ~(Core(lo, k) \in Texts /\ Core(lo, k) # <<>>)}
<1>2. SUFFICES ASSUME S # {} PROVE FALSE
  BY <1>1
<1>3. PICK k \in S : \A y \in S : k <= y
  BY <1>2, Least
<1>4. k \in lo..Len(units) /\ k \in 1..Len(units) /\ ~(Core(lo, k) \in Texts /\ Core(lo, k) # <<>>)
  BY <1>1, <1>3
<1>5. Core(lo, k) = IF k <= lo THEN units[lo].text ELSE Joined(Core(lo, k - 1), units[k].text)
  BY <1>1, <1>4, CoreIs
<1>6. CASE k <= lo
  BY <1>4, <1>5, <1>6, UnitText
<1>7. CASE ~(k <= lo)
  <2>1. k - 1 \in Nat /\ k - 1 >= lo /\ k - 1 <= Len(units) /\ k - 1 \notin S
    BY <1>1, <1>3, <1>4, <1>7
  <2>2. Core(lo, k - 1) \in Texts /\ Core(lo, k - 1) # <<>>
    BY <2>1
  <2>3. units[k].text \in Texts /\ Len(units[k].text) \in Nat
    BY <1>4, UnitText DEF Length
  <2>4. Len(Core(lo, k - 1)) \in Nat /\ Len(<<>>) = 0
    BY <2>2, LenProperties, EmptySeq DEF Texts
  <2>5. /\ Joined(Core(lo, k - 1), units[k].text) \in Texts
        /\ Len(Joined(Core(lo, k - 1), units[k].text)) = Len(Core(lo, k - 1)) + 1 + Len(units[k].text)
    BY <2>2, <2>3, JoinedIs
  <2>6. Joined(Core(lo, k - 1), units[k].text) # <<>>
    <3>1. PICK m, n : m = Len(Core(lo, k - 1)) /\ n = Len(units[k].text)
      OBVIOUS
    <3>2. m \in Nat /\ n \in Nat
      BY <2>3, <2>4, <3>1
    <3>3. Len(Joined(Core(lo, k - 1), units[k].text)) = m + 1 + n
      BY <2>5, <3>1
    <3> QED
      BY <2>4, <3>2, <3>3
  <2> QED
    BY <1>4, <1>5, <1>7, <2>5, <2>6
<1> QED
  BY <1>6, <1>7

LEMMA CoreLength ==
  ASSUME TypeOK, PiecesTrue, NEW lo \in 1..Len(units)
  PROVE  /\ Core(lo, lo) = units[lo].text
         /\ \A hi \in lo..Len(units) : Len(Core(lo, hi)) \in Nat
         /\ \A hi \in (lo + 1)..Len(units) :
              /\ Core(lo, hi) = Joined(Core(lo, hi - 1), units[hi].text)
              /\ Len(Core(lo, hi)) = Len(Core(lo, hi - 1)) + 1 + Length(hi)
<1>1. Len(units) \in Nat
  BY Typed
<1>2. Core(lo, lo) = units[lo].text
  BY CoreIs
<1>3. ASSUME NEW hi \in lo..Len(units) PROVE Len(Core(lo, hi)) \in Nat
  BY <1>3, CoreText, LenProperties DEF Texts
<1>4. ASSUME NEW hi \in (lo + 1)..Len(units)
      PROVE  /\ Core(lo, hi) = Joined(Core(lo, hi - 1), units[hi].text)
             /\ Len(Core(lo, hi)) = Len(Core(lo, hi - 1)) + 1 + Length(hi)
  <2>1. hi \in Nat /\ ~(hi <= lo) /\ hi - 1 \in lo..Len(units) /\ hi \in 1..Len(units)
    BY <1>1
  <2>2. Core(lo, hi) = Joined(Core(lo, hi - 1), units[hi].text)
    BY <2>1, CoreIs
  <2>3. Core(lo, hi - 1) \in Texts /\ Core(lo, hi - 1) # <<>> /\ units[hi].text \in Texts
    BY <2>1, CoreText, UnitText
  <2>4. Len(Joined(Core(lo, hi - 1), units[hi].text)) = Len(Core(lo, hi - 1)) + 1 + Len(units[hi].text)
    BY <2>3, JoinedIs
  <2> QED
    BY <2>2, <2>4 DEF Length
<1> QED
  BY <1>2, <1>3, <1>4

-----------------------------------------------------------------------------
(* Counting code points.                                                   *)

LEMMA UpTo == ASSUME NEW n \in Nat PROVE IsFiniteSet(1..n) /\ Cardinality(1..n) = n
<1>1. IsFiniteSet(1..n) /\ Cardinality(1..n) = IF 1 > n THEN 0 ELSE n - 1 + 1
  BY FS_Interval
<1> QED
  BY <1>1

LEMMA CountFits ==
  ASSUME NEW t \in Texts
  PROVE  /\ Codepoints(t) \in Nat /\ Codepoints(t) <= Len(t)
         /\ OneCodepoint(t) => Codepoints(t) <= 1
<1> DEFINE C == {i \in DOMAIN t : t[i] # "cont"}
<1>1. Len(t) \in Nat /\ DOMAIN t = 1..Len(t)
  BY LenProperties DEF Texts
<1>2. IsFiniteSet(1..Len(t)) /\ Cardinality(1..Len(t)) = Len(t)
  BY <1>1, UpTo
<1>3. C \in SUBSET (1..Len(t))
  BY <1>1
<1>4. IsFiniteSet(C) /\ Cardinality(C) <= Len(t)
  BY <1>2, <1>3, FS_Subset
<1>5. Cardinality(C) \in Nat
  BY <1>4, FS_CardinalityType
<1>6. ASSUME OneCodepoint(t) PROVE Cardinality(C) <= 1
  <2>1. C \in SUBSET {1}
    BY <1>1, <1>6 DEF OneCodepoint
  <2>2. IsFiniteSet({1}) /\ Cardinality({1}) = 1
    BY FS_Singleton
  <2> QED
    BY <2>1, <2>2, FS_Subset
<1> QED
  BY <1>4, <1>5, <1>6 DEF Codepoints

\* A join counts at most the bytes of what is before it.
LEMMA CountJoined ==
  ASSUME NEW t \in Texts, NEW u \in Texts, t # <<>>
  PROVE  Codepoints(Joined(t, u)) <= Len(t) + 1 + Codepoints(u)
<1> DEFINE j == Joined(t, u)
           n == Len(t) + 1
           C == {i \in DOMAIN j : j[i] # "cont"}
           A == {i \in C : i > n}
           B == {i \in DOMAIN u : u[i] # "cont"}
           f == [i \in A |-> i - n]
<1>1. /\ j \in Texts /\ Len(j) = n + Len(u) /\ \A i \in 1..Len(u) : j[n + i] = u[i]
      /\ n \in Nat /\ Len(u) \in Nat /\ DOMAIN u = 1..Len(u) /\ DOMAIN j = 1..Len(j)
  <2>1. Len(t) \in Nat /\ Len(u) \in Nat /\ DOMAIN u = 1..Len(u)
    BY LenProperties DEF Texts
  <2>2. j \in Texts /\ Len(j) = Len(t) + 1 + Len(u) /\ \A i \in 1..Len(u) : j[Len(t) + 1 + i] = u[i]
    BY JoinedIs
  <2>3. DOMAIN j = 1..Len(j)
    BY <2>2, LenProperties DEF Texts
  <2> QED
    BY <2>1, <2>2, <2>3
<1> HIDE DEF j, n
<1>2. A \cup (1..n) \in SUBSET (1..Len(j) \cup 1..n) /\ C \in SUBSET (A \cup 1..n)
  BY <1>1
<1>3. f \in Injection(A, B)
  <2>1. ASSUME NEW i \in A PROVE i - n \in B
    <3>1. i - n \in 1..Len(u) /\ n + (i - n) = i
      BY <1>1
    <3> QED
      BY <1>1, <3>1
  <2>2. \A a, b \in A : f[a] = f[b] => a = b
    BY <1>1
  <2> QED
    BY <2>1, <2>2 DEF Injection, IsInjective
<1>4. IsFiniteSet(B) /\ Cardinality(B) \in Nat
  <2>1. IsFiniteSet(1..Len(u)) /\ B \in SUBSET (1..Len(u))
    BY <1>1, FS_Interval
  <2> QED
    BY <2>1, FS_Subset, FS_CardinalityType
<1>5. IsFiniteSet(A) /\ Cardinality(A) <= Cardinality(B)
  BY <1>3, <1>4, FS_Injection
<1>6. IsFiniteSet(1..n) /\ Cardinality(1..n) = n
  BY <1>1, UpTo
<1>7. IsFiniteSet(A \cup 1..n) /\ Cardinality(A \cup 1..n) <= Cardinality(A) + n
  <2>1. /\ IsFiniteSet(A \cup 1..n) /\ IsFiniteSet(A \cap 1..n)
        /\ Cardinality(A \cup 1..n) = Cardinality(A) + Cardinality(1..n) - Cardinality(A \cap 1..n)
    <3>1. IsFiniteSet(A \cap 1..n)
      BY <1>6, FS_Subset
    <3> QED
      BY <1>5, <1>6, <3>1, FS_Union
  <2>2. Cardinality(A \cap 1..n) \in Nat /\ Cardinality(A) \in Nat
    BY <1>5, <2>1, FS_CardinalityType
  <2> QED
    BY <1>1, <1>6, <2>1, <2>2
<1>8. IsFiniteSet(C) /\ Cardinality(C) <= Cardinality(A \cup 1..n)
  BY <1>2, <1>7, FS_Subset
<1>9. Cardinality(A) \in Nat /\ Cardinality(C) \in Nat /\ Cardinality(A \cup 1..n) \in Nat
  BY <1>5, <1>7, <1>8, FS_CardinalityType
<1>10. Cardinality(C) <= n + Cardinality(B)
  BY <1>1, <1>4, <1>5, <1>7, <1>8, <1>9
<1> QED
  BY <1>10 DEF Codepoints, j, n

-----------------------------------------------------------------------------
(* What the rows are.                                                      *)

\* A chunk is the end of the one before it and the units it was made from.
Before(k) == IF k = 1 THEN <<>> ELSE out[k - 1].text
FromStart(t, start) == SubSeq(t, start + 1, Len(t))
Continues(k) ==
  \E start \in 0..Len(Before(k)) :
    /\ ChunkComputeOverlap(Before(k), start)
    /\ out[k].text = Joined(FromStart(Before(k), start), Core(out[k].first, out[k].last))
RowTrue(k) ==
  /\ out[k].first \in 1..Len(units) /\ out[k].last \in out[k].first..Len(units)
  /\ out[k].text \in Texts /\ Continues(k)
  /\ out[k].bytes = Len(Core(out[k].first, out[k].last))
  /\ out[k].n_chars = Codepoints(out[k].text)
  /\ out[k].section = units[out[k].first].section
  /\ out[k].page_start = units[out[k].first].page
  /\ out[k].page_end = units[out[k].last].page
TailTrue ==
  \E start \in 0..Len(Before(Len(out) + 1)) :
    /\ ChunkComputeOverlap(Before(Len(out) + 1), start)
    /\ tail = FromStart(Before(Len(out) + 1), start)
CurTrue == first < next => curLen = Len(Core(first, next - 1))

Rows == TailTrue /\ CurTrue /\ \A k \in 1..Len(out) : RowTrue(k)

LEMMA PagesGrow ==
  ASSUME TypeOK, PiecesTrue, PiecesOrdered,
         NEW i \in 1..Len(units), NEW j \in 1..Len(units), i <= j
  PROVE  units[i].page <= units[j].page /\ units[i].page \in Nat /\ units[i].element \in 1..Len(input)
<1>1. /\ PieceTrue(units[i]) /\ PieceTrue(units[j]) /\ units[i].page \in Nat
      /\ Len(units) \in Nat /\ Len(input) \in Nat
  BY Typed DEF PiecesTrue, Pieces
<1>2. CASE i = j
  BY <1>1, <1>2 DEF PieceTrue
<1>3. CASE i < j
  <2>1. Ahead(units[i], units[j])
    BY <1>3 DEF PiecesOrdered
  <2>2. CASE units[i].element = units[j].element
    BY <1>1, <2>2 DEF PieceTrue
  <2>3. CASE units[i].element < units[j].element
    BY <1>1, <2>3, Given DEF PieceTrue
  <2> QED
    BY <1>1, <2>1, <2>2, <2>3 DEF Ahead, PieceTrue
<1> QED
  BY <1>1, <1>2, <1>3

\* The pages of a row are those of its first and of its last unit.
LEMMA PagesAre ==
  ASSUME TypeOK, PiecesTrue, PiecesOrdered, NEW lo \in 1..Len(units), NEW hi \in lo..Len(units),
         NEW bytes
  PROVE  /\ Row(lo, hi, bytes).page_start = units[lo].page
         /\ Row(lo, hi, bytes).page_end = units[hi].page
<1>1. Len(units) \in Nat
  BY Typed
<1>2. ASSUME NEW q \in Pages(lo, hi) PROVE units[lo].page <= q /\ q <= units[hi].page /\ q \in Nat
  <2>1. PICK i \in lo..hi : q = units[i].page
    BY DEF Pages
  <2>2. i \in 1..Len(units) /\ lo <= i /\ i <= hi /\ hi \in 1..Len(units)
    BY <1>1
  <2> QED
    BY <2>1, <2>2, PagesGrow
<1>3. units[lo].page \in Pages(lo, hi) /\ units[hi].page \in Pages(lo, hi)
  <2>1. lo \in lo..hi /\ hi \in lo..hi
    BY <1>1
  <2> QED
    BY <2>1 DEF Pages
<1>4. \A p \in Pages(lo, hi) : (\A q \in Pages(lo, hi) : p <= q) <=> p = units[lo].page
  BY <1>2, <1>3
<1>5. \A p \in Pages(lo, hi) : (\A q \in Pages(lo, hi) : p >= q) <=> p = units[hi].page
  BY <1>2, <1>3
<1>6. (CHOOSE p \in Pages(lo, hi) : \A q \in Pages(lo, hi) : p <= q) = units[lo].page
  BY <1>3, <1>4
<1>7. (CHOOSE p \in Pages(lo, hi) : \A q \in Pages(lo, hi) : p >= q) = units[hi].page
  BY <1>3, <1>5
<1> QED
  BY <1>6, <1>7 DEF Row

LEMMA FromStartIs ==
  ASSUME NEW t \in Texts, NEW start \in 0..Len(t)
  PROVE  /\ FromStart(t, start) \in Texts /\ Len(FromStart(t, start)) = Len(t) - start
         /\ \A i \in 1..(Len(t) - start) : FromStart(t, start)[i] = t[start + i]
<1>1. t \in Seq(Bytes) /\ Len(t) \in Nat /\ \A i \in (start + 1)..Len(t) : t[i] \in Bytes
  BY LenProperties, ElementOfSeq DEF Texts
<1>2. /\ FromStart(t, start) \in Seq(Bytes)
      /\ Len(FromStart(t, start)) = IF start + 1 <= Len(t) THEN Len(t) - (start + 1) + 1 ELSE 0
      /\ \A i \in 1..(Len(t) - (start + 1) + 1) : FromStart(t, start)[i] = t[start + 1 + i - 1]
  BY <1>1, SubSeqProperties DEF FromStart
<1> QED
  BY <1>1, <1>2 DEF Texts

LEMMA SameCore == ASSUME units' = units, NEW lo, NEW hi PROVE Core(lo, hi)' = Core(lo, hi)
<1> QED
  BY DEF Core

LEMMA SameOverlap ==
  ASSUME overlap' = overlap, NEW t, NEW start
  PROVE  ChunkComputeOverlap(t, start)' <=> ChunkComputeOverlap(t, start)
<1> QED
  BY DEF ChunkComputeOverlap

\* A row stays true when others follow it.
LEMMA RowStays ==
  ASSUME units' = units, overlap' = overlap, NEW k, RowTrue(k), out'[k] = out[k],
         k # 1 => out'[k - 1] = out[k - 1]
  PROVE  RowTrue(k)'
<1>1. Before(k)' = Before(k)
  BY DEF Before
<1>2. Continues(k)'
  <2>1. PICK start \in 0..Len(Before(k)) :
          /\ ChunkComputeOverlap(Before(k), start)
          /\ out[k].text = Joined(FromStart(Before(k), start), Core(out[k].first, out[k].last))
    BY DEF RowTrue, Continues
  <2>2. ChunkComputeOverlap(Before(k), start)'
    BY <1>1, <2>1, SameOverlap
  <2>3. Core(out[k].first, out[k].last)' = Core(out[k].first, out[k].last)
    BY SameCore
  <2>4. (Joined(FromStart(Before(k), start), Core(out[k].first, out[k].last)))' = out'[k].text
    BY <1>1, <2>1, <2>3 DEF Joined, FromStart
  <2> QED
    BY <1>1, <2>1, <2>2, <2>4 DEF Continues
<1>3. Core(out[k].first, out[k].last)' = Core(out[k].first, out[k].last)
  BY SameCore
<1> QED
  BY <1>2, <1>3 DEF RowTrue, Codepoints

\* A row of the units that cur holds is true, and what is kept of its text too.
LEMMA RowJoins ==
  ASSUME IInv, Cutting, Rows, UNCHANGED <<units, overlap>>,
         NEW lo \in 1..Len(units), NEW hi \in lo..Len(units), NEW bytes, bytes = Len(Core(lo, hi)),
         Flush(lo, hi, bytes)
  PROVE  TailTrue' /\ \A k \in 1..Len(out') : RowTrue(k)'
<1>1. PICK row : row = Row(lo, hi, bytes)
  OBVIOUS
<1>2. PICK n : n = Len(out)
  OBVIOUS
<1>3. out' = Append(out, row) /\ \E S : out \in Seq(S)
  BY <1>1 DEF Flush, IInv, RowsAreSeq
<1>4. n \in Nat /\ Len(out') = n + 1 /\ out'[n + 1] = row /\ \A k \in 1..n : out'[k] = out[k]
  BY <1>2, <1>3, OneMore
<1>5. TypeOK /\ PiecesTrue /\ PiecesOrdered
  BY DEF IInv, Cutting
<1>6. ASSUME NEW k \in 1..n PROVE RowTrue(k)'
  <2>1. k # 1 => k - 1 \in 1..n
    BY <1>4
  <2> QED
    BY <1>2, <1>4, <2>1, RowStays DEF Rows
<1>7. Before(n + 1) \in Texts
  <2>1. n # 0 => n \in 1..Len(out)
    BY <1>2, <1>4
  <2>2. n # 0 => out[n].text \in Texts
    BY <2>1 DEF Rows, RowTrue
  <2>3. n # 0 => Before(n + 1) = out[n].text
    BY <1>4 DEF Before
  <2>4. n = 0 => Before(n + 1) = <<>>
    BY DEF Before
  <2> QED
    BY <2>2, <2>3, <2>4, EmptySeq DEF Texts
<1>8. PICK s \in 0..Len(Before(n + 1)) :
        ChunkComputeOverlap(Before(n + 1), s) /\ tail = FromStart(Before(n + 1), s)
  BY <1>2 DEF Rows, TailTrue
<1>9. tail \in Texts /\ Core(lo, hi) \in Texts
  BY <1>5, <1>7, <1>8, FromStartIs, CoreText
<1>10. /\ row.text = Joined(tail, Core(lo, hi)) /\ row.n_chars = Codepoints(row.text)
       /\ row.section = units[lo].section /\ row.first = lo /\ row.last = hi /\ row.bytes = bytes
       /\ row.page_start = units[lo].page /\ row.page_end = units[hi].page
  BY <1>1, <1>5, PagesAre DEF Row
<1>11. row.text \in Texts
  BY <1>9, <1>10, JoinedIs
<1>12. Before(n + 1)' = Before(n + 1)
  <2>1. n # 0 => n \in 1..n
    BY <1>4
  <2> QED
    BY <1>4, <2>1 DEF Before
<1>13. RowTrue(n + 1)'
  <2>1. out'[n + 1].text = (Joined(FromStart(Before(n + 1), s), Core(lo, hi)))'
    BY <1>4, <1>8, <1>10, <1>12, SameCore DEF Joined, FromStart
  <2>2. ChunkComputeOverlap(Before(n + 1), s)'
    BY <1>8, <1>12, SameOverlap
  <2>3. Continues(n + 1)'
    BY <1>4, <1>8, <1>10, <1>12, <2>1, <2>2 DEF Continues
  <2> QED
    BY <1>4, <1>10, <1>11, <2>3, SameCore DEF RowTrue, Codepoints
<1>14. TailTrue'
  <2>1. Before(n + 2)' = row.text
    BY <1>4 DEF Before
  <2>2. PICK start \in 0..Len(row.text) :
          ChunkComputeOverlap(row.text, start) /\ tail' = SubSeq(row.text, start + 1, Len(row.text))
    BY <1>1 DEF Flush
  <2>3. ChunkComputeOverlap(Before(n + 2), start)' /\ tail' = FromStart(Before(n + 2), start)'
    BY <2>1, <2>2, SameOverlap DEF FromStart
  <2>4. Len(out') + 1 = n + 2
    BY <1>4
  <2> QED
    BY <2>1, <2>2, <2>3, <2>4 DEF TailTrue
<1> QED
  BY <1>4, <1>6, <1>13, <1>14

LEMMA RowsInit == Init => Rows
<1> SUFFICES ASSUME Init PROVE Rows
  OBVIOUS
<1>1. out = <<>> /\ tail = <<>> /\ first = 1 /\ next = 1 /\ Len(out) = 0 /\ TypeOK
  BY Initially, EmptySeq DEF Init, IInv
<1>2. overlap \in Nat
  BY <1>1, Typed
<1>3. Before(Len(out) + 1) = <<>> /\ Len(<<>>) = 0 /\ <<>> \in Texts
  BY <1>1, EmptySeq DEF Before, Texts
<1>4. ChunkComputeOverlap(<<>>, 0)
  BY <1>2, <1>3 DEF ChunkComputeOverlap
<1>5. FromStart(<<>>, 0) = <<>>
  BY <1>3, SubSeqEmpty DEF FromStart
<1>6. TailTrue
  BY <1>1, <1>3, <1>4, <1>5 DEF TailTrue
<1> QED
  BY <1>1, <1>6 DEF Rows, CurTrue

\* No row is written.
LEMMA RowsStay ==
  ASSUME Rows, UNCHANGED <<out, tail, overlap>>, units' = units \/ Len(out) = 0, RowsAreSeq, CurTrue'
  PROVE  Rows'
<1>1. TailTrue'
  <2>1. \A k : Before(k)' = Before(k)
    BY DEF Before
  <2>2. PICK start \in 0..Len(Before(Len(out) + 1)) :
          ChunkComputeOverlap(Before(Len(out) + 1), start) /\ tail = FromStart(Before(Len(out) + 1), start)
    BY DEF Rows, TailTrue
  <2>3. ChunkComputeOverlap(Before(Len(out) + 1), start)'
    BY <2>1, <2>2, SameOverlap
  <2> QED
    BY <2>1, <2>2, <2>3 DEF TailTrue, FromStart
<1>2. \A k \in 1..Len(out') : RowTrue(k)'
  <2>1. CASE units' = units
    BY <2>1, RowStays DEF Rows
  <2>2. CASE Len(out) = 0
    BY <2>2
  <2> QED
    BY <2>1, <2>2
<1> QED
  BY <1>1, <1>2 DEF Rows

LEMMA CurIs ==
  ASSUME IInv, Cutting, Rows, Packing, ~Empty
  PROVE  /\ first \in 1..Len(units) /\ next - 1 \in first..Len(units)
         /\ curLen = Len(Core(first, next - 1))
         /\ ~Lone => /\ next - 2 \in first..Len(units) /\ next - 1 \in 1..Len(units)
                     /\ Len(Core(first, next - 2)) = curLen - 1 - Length(next - 1)
<1>1. /\ first \in Nat /\ next \in Nat /\ 1 <= first /\ first < next /\ next <= Len(units) + 1
      /\ Len(units) \in Nat /\ Length(next - 1) \in Nat
  BY Where
<1>2. first \in 1..Len(units) /\ next - 1 \in first..Len(units) /\ curLen = Len(Core(first, next - 1))
  BY <1>1 DEF Rows, CurTrue
<1>3. ASSUME ~Lone
      PROVE  /\ next - 2 \in first..Len(units) /\ next - 1 \in 1..Len(units)
             /\ Len(Core(first, next - 2)) = curLen - 1 - Length(next - 1)
  <2>1. next - 1 \in (first + 1)..Len(units) /\ next - 2 \in first..Len(units) /\ next - 1 - 1 = next - 2
    BY <1>1, <1>3 DEF Lone
  <2>2. TypeOK /\ PiecesTrue
    BY DEF IInv, Cutting
  <2>3. /\ Len(Core(first, next - 2)) \in Nat
        /\ Len(Core(first, next - 1)) = Len(Core(first, next - 1 - 1)) + 1 + Length(next - 1)
    BY <1>2, <2>1, <2>2, CoreLength
  <2> QED
    BY <1>1, <1>2, <2>1, <2>3
<1> QED
  BY <1>2, <1>3

LEMMA RowsInductive == IInv /\ Cutting /\ Rows /\ [Next]_vars => Rows'
<1> SUFFICES ASSUME IInv, Cutting, Rows, [Next]_vars PROVE Rows'
  OBVIOUS
<1>1. TypeOK /\ PiecesTrue /\ RowsAreSeq /\ Len(units) \in Nat
  BY Typed DEF IInv, Cutting
<1>2. CASE CutAtSpace \/ CutAtCodepoint \/ CutAfterCodepoint \/ TakeRest
  <2>1. Splitting /\ UNCHANGED <<callVars, packVars>>
    BY <1>2 DEF CutAtSpace, CutAtCodepoint, CutAfterCodepoint, TakeRest, TooLong, Cut
  <2>2. /\ out = <<>> /\ first = 1 /\ next = 1 /\ Len(out) = 0
        /\ UNCHANGED <<out, tail, overlap, first, next>>
    BY <2>1, EmptySeq DEF IInv, BeforePacking, callVars, packVars
  <2>3. CurTrue'
    BY <2>2 DEF CurTrue
  <2> QED
    BY <1>1, <2>2, <2>3, RowsStay
<1>3. CASE Pack
  <2>1. /\ Packing /\ next <= Len(units) /\ curLen' = Appended /\ next' = next + 1
        /\ UNCHANGED <<out, tail, overlap, first, units>>
    BY <1>3 DEF Pack, More, callVars, unitVars
  <2>2. next \in 1..Len(units) /\ first \in Nat /\ next \in Nat
    BY <2>1, Where
  <2>3. Len(Core(first, next)) = Appended
    <3>1. CASE Empty
      BY <1>1, <2>2, <3>1, CoreLength DEF Appended, Empty, Length
    <3>2. CASE ~Empty
      <4>1. /\ first \in 1..Len(units) /\ next - 1 \in first..Len(units)
            /\ curLen = Len(Core(first, next - 1))
        BY <2>1, <3>2, CurIs
      <4>2. next \in (first + 1)..Len(units)
        BY <1>1, <2>2, <4>1
      <4> QED
        BY <1>1, <3>2, <4>1, <4>2, CoreLength DEF Appended
    <3> QED
      BY <3>1, <3>2
  <2>4. CurTrue'
    <3>1. next' - 1 = next
      BY <2>1, <2>2
    <3> QED
      BY <2>1, <2>3, <3>1, SameCore DEF CurTrue
  <2> QED
    BY <1>1, <2>1, <2>4, RowsStay
<1>4. CASE MoveHeading
  <2>1. /\ Packing /\ next <= Len(units) /\ ~Empty /\ ~Lone
        /\ Flush(first, next - 2, curLen - 1 - Length(next - 1))
        /\ first' = next - 1 /\ next' = next + 1
        /\ curLen' = Length(next - 1) + 1 + Length(next) /\ UNCHANGED <<units, overlap>>
    BY <1>4 DEF MoveHeading, More, Full, callVars, unitVars
  <2>2. /\ first \in 1..Len(units) /\ next - 2 \in first..Len(units) /\ next - 1 \in 1..Len(units)
        /\ Len(Core(first, next - 2)) = curLen - 1 - Length(next - 1)
    BY <2>1, CurIs
  <2>3. TailTrue' /\ \A k \in 1..Len(out') : RowTrue(k)'
    BY <2>1, <2>2, RowJoins
  <2>4. next \in (next - 1 + 1)..Len(units) /\ next' - 1 = next
    <3>1. next \in Nat
      BY <2>1, Where
    <3> QED
      BY <1>1, <2>1, <3>1
  <2>5. Len(Core(next - 1, next)) = Length(next - 1) + 1 + Length(next)
    BY <1>1, <2>2, <2>4, CoreLength DEF Length
  <2>6. CurTrue'
    BY <2>1, <2>4, <2>5, SameCore DEF CurTrue
  <2> QED
    BY <2>3, <2>6 DEF Rows
<1>5. CASE CloseAndPack
  <2>1. /\ Packing /\ next <= Len(units) /\ ~Empty /\ Flush(first, next - 1, curLen)
        /\ first' = next /\ next' = next + 1 /\ curLen' = Length(next) /\ UNCHANGED <<units, overlap>>
    BY <1>5 DEF CloseAndPack, More, Full, callVars, unitVars
  <2>2. /\ first \in 1..Len(units) /\ next - 1 \in first..Len(units)
        /\ curLen = Len(Core(first, next - 1))
    BY <2>1, CurIs
  <2>3. TailTrue' /\ \A k \in 1..Len(out') : RowTrue(k)'
    BY <2>1, <2>2, RowJoins
  <2>4. next \in 1..Len(units) /\ next' - 1 = next
    BY <1>1, <2>1, <2>2, Where
  <2>5. Len(Core(next, next)) = Length(next)
    BY <1>1, <2>4, CoreLength DEF Length
  <2>6. CurTrue'
    BY <2>1, <2>4, <2>5, SameCore DEF CurTrue
  <2> QED
    BY <2>3, <2>6 DEF Rows
<1>6. CASE Finish
  <2>1. Packing /\ first' = next /\ next' = next /\ UNCHANGED <<units, overlap>>
    BY <1>6 DEF Finish, callVars, unitVars
  <2>2. CurTrue'
    BY <2>1, Where DEF CurTrue
  <2>3. CASE Empty
    <3>1. UNCHANGED <<out, tail>>
      BY <1>6, <2>3 DEF Finish
    <3> QED
      BY <1>1, <2>1, <2>2, <3>1, RowsStay
  <2>4. CASE ~Empty
    <3>1. Flush(first, next - 1, curLen)
      BY <1>6, <2>4 DEF Finish
    <3>2. /\ first \in 1..Len(units) /\ next - 1 \in first..Len(units)
          /\ curLen = Len(Core(first, next - 1))
      BY <2>1, <2>4, CurIs
    <3>3. TailTrue' /\ \A k \in 1..Len(out') : RowTrue(k)'
      BY <2>1, <3>1, <3>2, RowJoins
    <3> QED
      BY <2>2, <3>3 DEF Rows
  <2> QED
    BY <2>3, <2>4
<1>7. CASE UNCHANGED vars
  <2>1. UNCHANGED <<out, tail, overlap, units, first, next, curLen>>
    BY <1>7 DEF vars, callVars, unitVars, packVars
  <2>2. CurTrue'
    BY <2>1, SameCore DEF Rows, CurTrue
  <2> QED
    BY <1>1, <2>1, <2>2, RowsStay
<1> QED
  BY <1>2, <1>3, <1>4, <1>5, <1>6, <1>7 DEF Next

LEMMA AlwaysRows == Spec => [](IInv /\ Cutting /\ Rows)
<1> QED
  BY AlwaysCut, RowsInit, RowsInductive, PTL DEF Spec

-----------------------------------------------------------------------------
(* What follows for the properties.                                        *)

LEMMA CutCovers == ASSUME Cutting PROVE Covered
<1>1. \A i \in 1..Len(units) :
        units[i].text = SubSeq(input[units[i].element].text, units[i].at + 1, units[i].at + Length(i))
  BY DEF Cutting, PiecesTrue, PieceTrue, Length
<1>2. \A i, j \in 1..Len(units) : i < j =>
        \/ units[i].element < units[j].element
        \/ /\ units[i].element = units[j].element /\ units[i].at + Length(i) <= units[j].at
           /\ Len(input[units[i].element].text) > size
  BY DEF Cutting, PiecesOrdered, Ahead, Length
<1>3. \A e \in 1..(elem - 1) : \A p \in 1..Len(input[e].text) :
        IsAsciiSpace(input[e].text[p]) \/ \E i \in 1..Len(units) : Holds(i, e, p)
  BY DEF Cutting, CutSoFar, Kept
<1> QED
  BY <1>1, <1>2, <1>3 DEF Covered

\* What is kept of a text is within overlap, and begins with a word.
LEMMA OverlapIs ==
  ASSUME overlap \in Nat, NEW t \in Texts, NEW start \in 0..Len(t), ChunkComputeOverlap(t, start)
  PROVE  /\ Len(t) - start <= overlap
         /\ 0 < start /\ start < Len(t) => IsAsciiSpace(t[start])
<1>1. Len(t) \in Nat
  BY LenProperties DEF Texts
<1>2. CASE overlap = 0
  BY <1>1, <1>2 DEF ChunkComputeOverlap
<1>3. CASE overlap > 0 /\ Len(t) <= overlap
  BY <1>1, <1>3 DEF ChunkComputeOverlap
<1>4. CASE overlap > 0 /\ ~(Len(t) <= overlap)
  <2>1. /\ start \in (Len(t) - overlap)..Len(t)
        /\ start < Len(t) => IsAsciiSpace(t[start])
    BY <1>4 DEF ChunkComputeOverlap
  <2> QED
    BY <1>1, <2>1
<1> QED
  BY <1>2, <1>3, <1>4

LEMMA ReverseIs ==
  ASSUME NEW t \in Texts
  PROVE  /\ Reverse(t) \in Seq(Bytes) /\ Len(Reverse(t)) = Len(t)
         /\ \A i \in 1..Len(t) : Reverse(t)[i] = t[Len(t) - i + 1]
<1>1. Len(t) \in Nat /\ t \in Seq(Bytes)
  BY LenProperties DEF Texts
<1>2. \A i \in 1..Len(t) : t[Len(t) - i + 1] \in Bytes
  <2> SUFFICES ASSUME NEW i \in 1..Len(t) PROVE t[Len(t) - i + 1] \in Bytes
    OBVIOUS
  <2>1. Len(t) - i + 1 \in 1..Len(t)
    BY <1>1
  <2> QED
    BY <1>1, <2>1, ElementOfSeq
<1>3. Reverse(t) = [i \in 1..Len(t) |-> t[Len(t) - i + 1]]
  BY DEF Reverse
<1> QED
  BY <1>1, <1>2, <1>3

LEMMA EndIsSuffix ==
  ASSUME NEW t \in Texts, NEW start \in 0..Len(t)
  PROVE  IsSuffix(FromStart(t, start), t)
<1> DEFINE s == FromStart(t, start)
           n == Len(t) - start
<1>1. /\ s \in Texts /\ Len(s) = n /\ Len(t) \in Nat /\ n \in 0..Len(t)
      /\ \A i \in 1..n : s[i] = t[start + i]
  BY FromStartIs, LenProperties DEF Texts
<1>2. /\ Reverse(s) \in Seq(Bytes) /\ Len(Reverse(s)) = n /\ \A i \in 1..n : Reverse(s)[i] = s[n - i + 1]
      /\ Reverse(t) \in Seq(Bytes) /\ Len(Reverse(t)) = Len(t)
      /\ \A i \in 1..Len(t) : Reverse(t)[i] = t[Len(t) - i + 1]
  <2>1. /\ Reverse(s) \in Seq(Bytes) /\ Len(Reverse(s)) = Len(s)
        /\ \A i \in 1..Len(s) : Reverse(s)[i] = s[Len(s) - i + 1]
    BY <1>1, ReverseIs
  <2>2. /\ Reverse(t) \in Seq(Bytes) /\ Len(Reverse(t)) = Len(t)
        /\ \A i \in 1..Len(t) : Reverse(t)[i] = t[Len(t) - i + 1]
    BY ReverseIs
  <2> QED
    BY <1>1, <2>1, <2>2
<1> HIDE DEF s
<1>3. \A i \in 1..n : Reverse(s)[i] = Reverse(t)[i]
  <2> SUFFICES ASSUME NEW i \in 1..n PROVE Reverse(s)[i] = Reverse(t)[i]
    OBVIOUS
  <2>1. n - i + 1 \in 1..n /\ start + (n - i + 1) = Len(t) - i + 1 /\ i \in 1..Len(t)
    BY <1>1
  <2> QED
    BY <1>1, <1>2, <2>1
<1> HIDE DEF n
<1>4. /\ SubSeq(Reverse(s), 1, n) \in Seq(Bytes) /\ Len(SubSeq(Reverse(s), 1, n)) = n
      /\ \A i \in 1..n : SubSeq(Reverse(s), 1, n)[i] = Reverse(s)[i]
  <2>1. \A i \in 1..n : Reverse(s)[i] \in Bytes
    BY <1>2, ElementOfSeq
  <2> QED
    BY <1>1, <2>1, SubSeqProperties
<1>5. /\ SubSeq(Reverse(t), 1, n) \in Seq(Bytes) /\ Len(SubSeq(Reverse(t), 1, n)) = n
      /\ \A i \in 1..n : SubSeq(Reverse(t), 1, n)[i] = Reverse(t)[i]
  <2>1. \A i \in 1..n : Reverse(t)[i] \in Bytes
    BY <1>1, <1>2, ElementOfSeq
  <2> QED
    BY <1>1, <2>1, SubSeqProperties
<1>6. SubSeq(Reverse(s), 1, n) = SubSeq(Reverse(t), 1, n)
  BY <1>3, <1>4, <1>5, SeqEqual
<1>7. IsPrefix(Reverse(s), Reverse(t))
  BY <1>1, <1>2, <1>6 DEF IsPrefix
<1> QED
  BY <1>7 DEF IsSuffix, s

\* A row is what it kept of the one before it, and its core.
LEMMA RowIs ==
  ASSUME IInv, Cutting, Rows, NEW k \in 1..Len(out)
  PROVE  \E start \in 0..Len(Before(k)) :
           /\ ChunkComputeOverlap(Before(k), start) /\ Before(k) \in Texts
           /\ FromStart(Before(k), start) \in Texts
           /\ out[k].text = Joined(FromStart(Before(k), start), Core(out[k].first, out[k].last))
           /\ Core(out[k].first, out[k].last) \in Texts
<1>1. TypeOK /\ PiecesTrue /\ RowTrue(k) /\ Len(out) \in Nat
  BY OneMore DEF IInv, Cutting, Rows, RowsAreSeq
<1>2. Before(k) \in Texts
  <2>1. CASE k = 1
    BY <2>1, EmptySeq DEF Before, Texts
  <2>2. CASE k # 1
    <3>1. k - 1 \in 1..Len(out)
      BY <1>1, <2>2
    <3> QED
      BY <2>2, <3>1 DEF Rows, RowTrue, Before
  <2> QED
    BY <2>1, <2>2
<1>3. Core(out[k].first, out[k].last) \in Texts
  BY <1>1, CoreText DEF RowTrue
<1> QED
  BY <1>1, <1>2, <1>3, FromStartIs DEF RowTrue, Continues

\* The code points of a core are within chunk_size, but for a heading before them.
LEMMA CoreCounts ==
  ASSUME IInv, Cutting, Rows, NEW k \in 1..Len(out)
  PROVE  LET core == Core(out[k].first, out[k].last)
             glued == out[k].bytes > size /\ out[k].first < out[k].last
         IN Codepoints(core) <= size + (IF glued THEN Length(out[k].first) + 1 ELSE 0)
<1>1. PICK lo, hi : lo = out[k].first /\ hi = out[k].last
  OBVIOUS
<1>2. /\ TypeOK /\ PiecesTrue /\ lo \in 1..Len(units) /\ hi \in lo..Len(units) /\ Len(units) \in Nat
      /\ out[k].bytes = Len(Core(lo, hi))
  BY <1>1, Typed DEF IInv, Cutting, Rows, RowTrue
<1>3. size \in Nat /\ size >= 1
  <2>1. <<size, overlap>> \in {l \in Nat \X Nat : l[2] < l[1]}
    BY <1>2, ChunkingAssumption DEF TypeOK
  <2> QED
    BY <2>1
<1>4. Core(lo, hi) \in Texts /\ Core(lo, lo) = units[lo].text
  BY <1>2, CoreText, CoreLength
<1>5. ASSUME NEW i \in 1..Len(units) PROVE Codepoints(units[i].text) <= size /\ Codepoints(units[i].text) \in Nat
  <2>1. /\ Codepoints(units[i].text) \in Nat /\ Codepoints(units[i].text) <= Length(i) /\ Length(i) \in Nat
        /\ OneCodepoint(units[i].text) => Codepoints(units[i].text) <= 1
    BY <1>2, UnitText, CountFits DEF Length
  <2>2. Length(i) <= size \/ OneCodepoint(units[i].text)
    BY DEF IInv, PiecesFit
  <2> QED
    BY <1>3, <2>1, <2>2
<1>6. CASE out[k].bytes <= size
  <2>1. Codepoints(Core(lo, hi)) <= Len(Core(lo, hi)) /\ Codepoints(Core(lo, hi)) \in Nat
        /\ Len(Core(lo, hi)) \in Nat
    BY <1>2, <1>4, CountFits, CoreLength
  <2> QED
    BY <1>1, <1>2, <1>3, <1>6, <2>1
<1>7. CASE lo = hi
  BY <1>1, <1>3, <1>2, <1>4, <1>5, <1>7
<1>8. CASE ~(out[k].bytes <= size) /\ lo # hi
  <2>1. hi = lo + 1
    BY <1>1, <1>8 DEF IInv, CoresFit
  <2>2. hi \in (lo + 1)..Len(units) /\ hi - 1 = lo /\ hi \in 1..Len(units) /\ lo < hi
    BY <1>2, <2>1
  <2>3. Core(lo, hi) = Joined(units[lo].text, units[hi].text)
    BY <1>2, <1>4, <2>2, CoreLength
  <2>4. /\ units[lo].text \in Texts /\ units[hi].text \in Texts /\ units[lo].text # <<>> /\ Length(lo) \in Nat
    BY <1>2, <2>2, UnitText
  <2>5. Codepoints(Core(lo, hi)) <= Length(lo) + 1 + Codepoints(units[hi].text)
    BY <2>3, <2>4, CountJoined DEF Length
  <2>6. Codepoints(Core(lo, hi)) \in Nat /\ Codepoints(units[hi].text) <= size /\ Codepoints(units[hi].text) \in Nat
    BY <1>4, <1>5, <2>2, CountFits
  <2>7. out[k].bytes > size
    BY <1>2, <1>3, <1>4, <1>8, CoreLength
  <2> QED
    BY <1>1, <1>3, <2>2, <2>4, <2>5, <2>6, <2>7
<1> QED
  BY <1>6, <1>7, <1>8

LEMMA LengthsAreTrue == ASSUME IInv, Cutting, Rows PROVE LengthsTrue
<1> SUFFICES ASSUME NEW k \in 1..Len(out)
             PROVE  LET glued == out[k].bytes > size /\ out[k].first < out[k].last IN
                    out[k].n_chars <=
                      size + overlap + 1 + (IF glued THEN Length(out[k].first) + 1 ELSE 0)
  BY DEF LengthsTrue, Rows, RowTrue
<1>1. PICK core, more :
        /\ core = Core(out[k].first, out[k].last)
        /\ more = IF out[k].bytes > size /\ out[k].first < out[k].last
                    THEN Length(out[k].first) + 1 ELSE 0
  OBVIOUS
<1>2. Codepoints(core) <= size + more
  BY <1>1, CoreCounts
<1>3. size \in Nat /\ overlap \in Nat /\ more \in Nat
  <2>1. TypeOK /\ out[k].first \in 1..Len(units)
    BY DEF IInv, Rows, RowTrue
  <2> QED
    BY <1>1, <2>1, Typed
<1>4. PICK start \in 0..Len(Before(k)) :
        /\ ChunkComputeOverlap(Before(k), start) /\ Before(k) \in Texts
        /\ FromStart(Before(k), start) \in Texts
        /\ out[k].text = Joined(FromStart(Before(k), start), core) /\ core \in Texts
  BY <1>1, RowIs
<1>5. PICK p : p = FromStart(Before(k), start)
  OBVIOUS
<1>6. p \in Texts /\ Len(p) <= overlap /\ Len(p) \in Nat /\ Codepoints(core) \in Nat
  BY <1>3, <1>4, <1>5, FromStartIs, OverlapIs, LenProperties, CountFits DEF Texts
<1>7. out[k].n_chars = Codepoints(Joined(p, core))
  BY <1>4, <1>5 DEF Rows, RowTrue
<1>8. Codepoints(Joined(p, core)) <= size + overlap + 1 + more
  <2>1. CASE p = <<>>
    <3>1. Joined(p, core) = core
      BY <1>4, <1>6, <2>1, JoinedIs
    <3> QED
      BY <1>2, <1>3, <1>6, <3>1
  <2>2. CASE p # <<>>
    <3>1. Codepoints(Joined(p, core)) <= Len(p) + 1 + Codepoints(core)
      BY <1>4, <1>6, <2>2, CountJoined
    <3>2. Codepoints(Joined(p, core)) \in Nat
      BY <1>4, <1>6, JoinedIs, CountFits
    <3> QED
      BY <1>2, <1>3, <1>6, <3>1, <3>2
  <2> QED
    BY <2>1, <2>2
<1> QED
  BY <1>1, <1>7, <1>8

LEMMA TailsAreTails == ASSUME IInv, Cutting, Rows PROVE OverlapIsTail
<1> SUFFICES ASSUME NEW k \in 2..Len(out)
             PROVE  LET before == out[k - 1].text
                        core == Core(out[k].first, out[k].last)
                        prefix == SubSeq(out[k].text, 1, Len(out[k].text) - Len(core) - 1)
                    IN /\ IsSuffix(core, out[k].text) /\ IsSuffix(prefix, before) /\ Len(prefix) <= overlap
                       /\ Len(prefix) < Len(before) /\ prefix # <<>> =>
                            IsAsciiSpace(before[Len(before) - Len(prefix)])
                       /\ prefix = <<>> => out[k].text = core
  BY DEF OverlapIsTail
<1>1. PICK before, core, text : before = out[k - 1].text /\ text = out[k].text
                                 /\ core = Core(out[k].first, out[k].last)
  OBVIOUS
<1>2. overlap \in Nat /\ Len(out) \in Nat
  BY Typed, OneMore DEF IInv, RowsAreSeq
<1>3. PICK start \in 0..Len(before) :
        /\ ChunkComputeOverlap(before, start) /\ before \in Texts /\ FromStart(before, start) \in Texts
        /\ text = Joined(FromStart(before, start), core) /\ core \in Texts
  <2>1. Before(k) = before /\ k \in 1..Len(out)
    BY <1>1, <1>2 DEF Before
  <2> QED
    BY <1>1, <2>1, RowIs
<1>4. PICK p : p = FromStart(before, start)
  OBVIOUS
<1>5. /\ p \in Texts /\ Len(p) = Len(before) - start /\ Len(p) <= overlap /\ Len(p) \in Nat
      /\ IsSuffix(p, before) /\ Len(core) \in Nat /\ Len(before) \in Nat
      /\ 0 < start /\ start < Len(before) => IsAsciiSpace(before[start])
  <2>1. Len(core) \in Nat /\ Len(before) \in Nat
    BY <1>3, LenProperties DEF Texts
  <2>2. p \in Texts /\ Len(p) = Len(before) - start /\ IsSuffix(p, before)
    BY <1>3, <1>4, FromStartIs, EndIsSuffix
  <2>3. Len(before) - start <= overlap /\ (0 < start /\ start < Len(before) => IsAsciiSpace(before[start]))
    BY <1>2, <1>3, OverlapIs
  <2> QED
    BY <2>1, <2>2, <2>3
<1>6. text \in Texts /\ text \in Seq(Bytes)
  BY <1>3, <1>4, <1>5, JoinedIs DEF Texts
<1>7. /\ SubSeq(text, 1, Len(text) - Len(core) - 1) = p
      /\ IsSuffix(core, text)
      /\ p = <<>> => text = core
  <2>1. CASE p = <<>>
    <3>1. text = core
      BY <1>3, <1>4, <1>5, <2>1, JoinedIs
    <3>2. SubSeq(text, 1, Len(text) - Len(core) - 1) = <<>>
      <4>1. Len(text) - Len(core) - 1 \in Int /\ Len(text) - Len(core) - 1 < 1
        BY <1>5, <3>1
      <4> QED
        BY <4>1, SubSeqEmpty
    <3>3. FromStart(text, 0) = text /\ 0 \in 0..Len(text)
      BY <1>5, <1>6, <3>1, SubSeqFull DEF FromStart
    <3>4. IsSuffix(text, text)
      BY <1>6, <3>3, EndIsSuffix
    <3> QED
      BY <2>1, <3>1, <3>2, <3>4
  <2>2. CASE p # <<>>
    <3>1. /\ Len(text) = Len(p) + 1 + Len(core) /\ \A i \in 1..Len(p) : text[i] = p[i]
          /\ \A i \in 1..Len(core) : text[Len(p) + 1 + i] = core[i]
      BY <1>3, <1>4, <1>5, <2>2, JoinedIs
    <3>2. SubSeq(text, 1, Len(p)) = p
      <4>1. \A i \in 1..Len(p) : p[i] \in Bytes /\ text[i] \in Bytes
        BY <1>5, <3>1, ElementOfSeq DEF Texts
      <4>2. /\ SubSeq(text, 1, Len(p)) \in Seq(Bytes)
            /\ Len(SubSeq(text, 1, Len(p))) = IF 1 <= Len(p) THEN Len(p) - 1 + 1 ELSE 0
            /\ \A i \in 1..(Len(p) - 1 + 1) : SubSeq(text, 1, Len(p))[i] = text[1 + i - 1]
        BY <1>5, <4>1, SubSeqProperties
      <4>3. Len(SubSeq(text, 1, Len(p))) = Len(p) /\ \A i \in 1..Len(p) : SubSeq(text, 1, Len(p))[i] = p[i]
        BY <1>5, <3>1, <4>2
      <4> QED
        BY <1>5, <4>2, <4>3, SeqEqual DEF Texts
    <3>3. FromStart(text, Len(p) + 1) = core
      <4>1. Len(p) + 1 \in 0..Len(text) /\ Len(text) - (Len(p) + 1) = Len(core)
        BY <1>5, <3>1
      <4>2. /\ FromStart(text, Len(p) + 1) \in Seq(Bytes) /\ Len(FromStart(text, Len(p) + 1)) = Len(core)
            /\ \A i \in 1..Len(core) : FromStart(text, Len(p) + 1)[i] = text[Len(p) + 1 + i]
        BY <1>6, <4>1, FromStartIs DEF Texts
      <4> QED
        BY <1>3, <3>1, <4>2, SeqEqual DEF Texts
    <3>4. IsSuffix(core, text)
      <4>1. Len(p) + 1 \in 0..Len(text)
        BY <1>5, <3>1
      <4> QED
        BY <1>6, <3>3, <4>1, EndIsSuffix
    <3>5. Len(text) - Len(core) - 1 = Len(p)
      BY <1>5, <3>1
    <3> QED
      BY <2>2, <3>2, <3>4, <3>5
  <2> QED
    BY <2>1, <2>2
<1>8. Len(p) < Len(before) /\ p # <<>> => IsAsciiSpace(before[Len(before) - Len(p)])
  <2>1. p # <<>> => Len(p) # 0
    BY <1>5, EmptySeq DEF Texts
  <2> QED
    BY <1>5, <2>1
<1> QED
  BY <1>1, <1>5, <1>7, <1>8

LEMMA LabelsAreTrue == ASSUME IInv, Cutting, Rows PROVE Labelled
<1>1. TypeOK /\ PiecesTrue /\ PiecesOrdered /\ Len(units) \in Nat /\ Len(out) \in Nat
  BY Typed, OneMore DEF IInv, Cutting, RowsAreSeq
<1>2. ASSUME NEW k \in 1..Len(out)
      PROVE  /\ out[k].first \in 1..Len(units) /\ out[k].last \in out[k].first..Len(units)
             /\ out[k].last \in 1..Len(units)
             /\ out[k].section = units[out[k].first].section
             /\ out[k].page_start = units[out[k].first].page /\ out[k].page_end = units[out[k].last].page
  <2>1. RowTrue(k)
    BY DEF Rows
  <2> QED
    BY <1>1, <2>1 DEF RowTrue
<1> SUFFICES ASSUME NEW k \in 1..Len(out)
             PROVE  /\ out[k].section = LastHeading(units[out[k].first].element)
                    /\ \A i \in out[k].first..out[k].last : units[i].page \in out[k].page_start..out[k].page_end
                    /\ k > 1 => out[k].page_start >= out[k - 1].page_end
  BY DEF Labelled
<1>3. out[k].section = LastHeading(units[out[k].first].element)
  BY <1>1, <1>2 DEF PiecesTrue, PieceTrue
<1>4. ASSUME NEW i \in out[k].first..out[k].last
      PROVE  units[i].page \in out[k].page_start..out[k].page_end
  <2>1. i \in 1..Len(units) /\ out[k].first <= i /\ i <= out[k].last
    BY <1>1, <1>2
  <2>2. /\ units[out[k].first].page <= units[i].page /\ units[i].page <= units[out[k].last].page
        /\ units[i].page \in Nat /\ units[out[k].first].page \in Nat /\ units[out[k].last].page \in Nat
    BY <1>1, <1>2, <2>1, PagesGrow
  <2> QED
    BY <1>2, <2>2
<1>5. ASSUME k > 1 PROVE out[k].page_start >= out[k - 1].page_end
  <2>1. k - 1 \in 1..Len(out) /\ out[k].first = out[k - 1].last + 1
    BY <1>1, <1>5 DEF IInv, Tiled
  <2>2. out[k - 1].last <= out[k].first
    BY <1>1, <1>2, <2>1
  <2>3. units[out[k - 1].last].page <= units[out[k].first].page /\ units[out[k - 1].last].page \in Nat
    BY <1>1, <1>2, <2>1, <2>2, PagesGrow
  <2>4. units[out[k].first].page \in Nat
    BY <1>1, <1>2, PagesGrow
  <2> QED
    BY <1>2, <2>1, <2>3, <2>4
<1> QED
  BY <1>3, <1>4, <1>5

\* For any elements, chunk_size and overlap: the packing stays within the
\* units, the cutting within the element (ChunkSplitLongText,
\* ChunksProcessFile).
THEOREM Types == Spec => []TypeOK
<1>1. IInv => TypeOK
  BY DEF IInv
<1> QED
  BY <1>1, Always, PTL

\* No text of an element is lost, repeated or put out of order on its way into
\* the chunks, whatever chunk_size cuts it into and whichever headings are moved
\* (ChunkSplitLongText, ChunksProcessFile).
THEOREM TextIsKept == Spec => []NothingLost
<1>1. IInv /\ Cutting /\ Rows => NothingLost
  BY CutCovers DEF IInv, NothingLost
<1> QED
  BY <1>1, AlwaysRows, PTL

\* A piece begins with a whole code point, a piece and a chunk exceed chunk_size
\* only as the contract says, and a row counts no more code points than that
\* and the overlap (C1 to C5).
THEOREM LimitsAreKept == Spec => []WithinLimits
<1>1. IInv /\ Cutting => PiecesWhole
  BY DEF Cutting, PiecesTrue, PieceTrue, PiecesWhole
<1>2. IInv /\ Cutting /\ Rows => WithinLimits
  BY <1>1, LengthsAreTrue DEF IInv, WithinLimits
<1> QED
  BY <1>2, AlwaysRows, PTL

\* No chunk ends with a heading that has text after it (C3).
THEOREM HeadingsStay == Spec => []HeadingsMoveOn
<1>1. IInv => HeadingsMoveOn
  BY DEF IInv
<1> QED
  BY <1>1, Always, PTL

\* A row repeats the end of the row before it from a word on, and says under
\* which heading and on which pages its core is (ChunkComputeOverlap, flush).
THEOREM RowsSayWhere == Spec => []TailAndLabels
<1>1. IInv /\ Cutting /\ Rows => TailAndLabels
  BY TailsAreTails, LabelsAreTrue DEF TailAndLabels
<1> QED
  BY <1>1, AlwaysRows, PTL
=============================================================================
