--------------------------- MODULE DocumentsProofs ---------------------------
(***************************************************************************)
(* What OcrPage, TextLayers, Redaction, SplitBlank, Stamps, Signature,     *)
(* Revisions, StructureTree and Options promise of one call, for pages,    *)
(* words, boxes, rasters, fonts, numbers, files, trees and chunks of any   *)
(* number and size.                                                        *)
(***************************************************************************)
EXTENDS PageCalls, CopyToProofs

-----------------------------------------------------------------------------
(* OcrPage.                                                                *)

Word == [text : STRING, y : Int]

LEMMA ListedSeq ==
  ASSUME NEW s, Listed(s)
  PROVE  /\ Len(s) \in Nat /\ DOMAIN s = 1..Len(s)
         /\ \E S : s \in Seq(S)
<1> DEFINE S == {s[i] : i \in 1..Len(s)}
           n == Len(s)
<1>1. n \in Nat /\ s = [i \in 1..n |-> s[i]]
  BY DEF Listed
<1>2. DOMAIN s = 1..n /\ s \in [1..n -> S]
  BY <1>1
<1> HIDE DEF n, S
<1>3. s \in Seq(S)
  BY <1>1, <1>2, SeqDef
<1> QED
  BY <1>1, <1>2, <1>3 DEF n

LEMMA FlippedWords ==
  ASSUME NEW pass \in Recognitions
  PROVE  /\ Len(Flipped(pass)) = Len(pass.words)
         /\ \A i \in DOMAIN pass.words :
              /\ Flipped(pass)[i].text = pass.words[i].text
              /\ Flipped(pass)[i].y + pass.words[i].y = pass.height
<1>1. pass.words \in Seq(Word) /\ pass.height \in Int
  BY DEF Recognitions, Word
<1>2. DOMAIN pass.words = 1..Len(pass.words) /\ \A i \in 1..Len(pass.words) : pass.words[i] \in Word
  BY <1>1, ElementOfSeq, LenProperties
<1>3. Flipped(pass) = [i \in 1..Len(pass.words) |-> [pass.words[i] EXCEPT !.y = pass.height - @]]
  BY <1>1 DEF Flipped
<1>4. Len(Flipped(pass)) = Len(pass.words)
  BY <1>1, <1>3
<1>5. \A i \in DOMAIN pass.words : Flipped(pass)[i] = [pass.words[i] EXCEPT !.y = pass.height - @]
  BY DEF Flipped
<1> SUFFICES ASSUME NEW i \in 1..Len(pass.words)
             PROVE  /\ Flipped(pass)[i].text = pass.words[i].text
                    /\ Flipped(pass)[i].y + pass.words[i].y = pass.height
  BY <1>2, <1>4
<1>6. Flipped(pass)[i] = [pass.words[i] EXCEPT !.y = pass.height - @] /\ pass.words[i] \in Word
  BY <1>2, <1>5
<1> QED
  BY <1>1, <1>6 DEF Word

\* Of any two passes over any page, the words of the more confident one are kept,
\* where they were read, and never instead of more than nothing (LoadWordsForPage).
LEMMA BestPassKept ==
  ASSUME NEW page, Recognisable(page)
  PROVE  BestWords(page, LoadWordsForPage(page))
<1> DEFINE result == LoadWordsForPage(page)
           ocr == OcrPageWords(page, ~page.force \/ page.native # <<>>)
<1>1. \/ result = [outcome |-> "native", words |-> page.native]
      \/ /\ result = ocr /\ (page.force \/ page.native = <<>>)
         /\ ocr.outcome = "recognised" => ocr.words # <<>>
  BY DEF LoadWordsForPage, Recognisable
<1>2. \/ /\ ocr = [outcome |-> "throws", words |-> <<>>]
         /\ page.force /\ page.native = <<>>
      \/ ocr = [outcome |-> "recognised", words |-> Flipped(Kept(page))]
  BY DEF OcrPageWords
<1>3. Kept(page) \in Ran(page) /\ \A other \in Ran(page) : other.confidence <= Kept(page).confidence
  BY PageAssumption DEF Kept, Ran, Second, Recognitions, Recognisable
<1>4. Kept(page) \in Recognitions
  BY DEF Kept, Recognisable
<1>5. /\ Len(Flipped(Kept(page))) = Len(Kept(page).words)
      /\ \A i \in DOMAIN Kept(page).words :
           /\ Flipped(Kept(page))[i].text = Kept(page).words[i].text
           /\ Flipped(Kept(page))[i].y + Kept(page).words[i].y = Kept(page).height
  BY <1>4, FlippedWords
<1> DEFINE ran == {page.first} \cup
                    (IF page.retry /\ page.first.confidence < LowConfidence /\ page.dpi < HighDpi
                       THEN {page.second} ELSE {})
<1>6. ran = Ran(page)
  BY DEF Ran, Second
<1>7. CASE result = [outcome |-> "native", words |-> page.native]
  BY <1>7 DEF BestWords
<1>8. CASE result = ocr /\ ocr = [outcome |-> "throws", words |-> <<>>] /\ page.force /\ page.native = <<>>
  BY <1>8 DEF BestWords
<1>9. CASE /\ result = ocr /\ ocr = [outcome |-> "recognised", words |-> Flipped(Kept(page))]
           /\ ocr.words # <<>>
  <2>1. result.outcome = "recognised" /\ result.words = Flipped(Kept(page)) /\ result.words # <<>>
    BY <1>9
  <2>2. \E pass \in ran :
          /\ \A other \in ran : other.confidence <= pass.confidence
          /\ Len(result.words) = Len(pass.words)
          /\ \A i \in DOMAIN pass.words :
               /\ result.words[i].text = pass.words[i].text
               /\ result.words[i].y + pass.words[i].y = pass.height
    BY <1>3, <1>5, <1>6, <2>1
  <2>3. result.outcome # "throws" /\ result.outcome # "native"
    BY <2>1
  <2> QED
    BY <2>1, <2>2, <2>3 DEF BestWords
<1> QED
  BY <1>1, <1>2, <1>7, <1>8, <1>9

-----------------------------------------------------------------------------
(* Redaction: fractions and pixels.                                        *)

Fraction(q) == q.num \in Int /\ q.den \in Nat \ {0}

\* The first pixel at or above a fraction, within the raster.
LEMMA FloorPixel ==
  ASSUME NEW q, Fraction(q), NEW hi \in Nat, NEW px \in 0..(hi - 1)
  PROVE  Floor(q, hi) \in 0..hi /\ (Floor(q, hi) <= px <=> q.num < (px + 1) * q.den)
<1>1. q.num \in Int /\ q.den \in Nat \ {0} /\ px \in Int
  BY DEF Fraction
<1>2. q.num \div q.den \in Int /\ (q.num \div q.den <= px <=> q.num < (px + 1) * q.den)
  BY <1>1, Quotients
<1> QED
  BY <1>2 DEF Floor, Clamp, Larger, Smaller

LEMMA CeilPixel ==
  ASSUME NEW q, Fraction(q), NEW hi \in Nat, NEW px \in 0..(hi - 1)
  PROVE  Ceil(q, hi) \in 0..hi /\ (px < Ceil(q, hi) <=> px * q.den < q.num)
<1>1. -q.num \in Int /\ q.den \in Nat \ {0} /\ -px - 1 \in Int
  BY DEF Fraction
<1>2. (-q.num) \div q.den \in Int /\ ((-q.num) \div q.den <= -px - 1 <=> -q.num < (-px - 1 + 1) * q.den)
  BY <1>1, Quotients
<1>3. (-px - 1 + 1) * q.den = -(px * q.den)
  BY <1>1
<1>4. -q.num < -(px * q.den) <=> px * q.den < q.num
  BY <1>1 DEF Fraction
<1> QED
  BY <1>1, <1>2, <1>3, <1>4 DEF Ceil, Clamp, Larger, Smaller

\* A factor greater than zero on both sides.
LEMMA Cancel ==
  ASSUME NEW a \in Int, NEW b \in Int, NEW m \in Nat \ {0}
  PROVE  a * m < b * m <=> a < b
<1>1. ASSUME a < b PROVE a * m < b * m
  BY <1>1
<1>2. ASSUME b <= a PROVE b * m <= a * m
  BY <1>2
<1> QED
  BY <1>1, <1>2

\* One axis of the raster, n pixels for an extent of d, and a box from lo to hi on it,
\* whichever of its corners is projected first.
OnAxis(n, d, lo, hi, p, q, px) ==
  /\ Floor(Lower(p, q), n) \in 0..n /\ Ceil(Upper(p, q), n) \in 0..n
  /\ Floor(Lower(p, q), n) <= px <=> lo * n < (px + 1) * d
  /\ px < Ceil(Upper(p, q), n) <=> px * d < hi * n

Ends(p, q, n, d, lo, hi) ==
  /\ p.den = d /\ q.den = d
  /\ \/ p.num = lo * n /\ q.num = hi * n
     \/ p.num = hi * n /\ q.num = lo * n

LEMMA AxisPixels ==
  ASSUME NEW n \in Nat \ {0}, NEW d \in Nat \ {0}, NEW lo \in Int, NEW hi \in Int, lo < hi,
         NEW p, NEW q, NEW px \in 0..(n - 1), Ends(p, q, n, d, lo, hi)
  PROVE  OnAxis(n, d, lo, hi, p, q, px)
<1>1. lo * n \in Int /\ hi * n \in Int /\ lo * n < hi * n
  BY Cancel
<1>2. Fraction(p) /\ Fraction(q)
  BY <1>1 DEF Fraction, Ends
<1>3. lo * n * d < hi * n * d /\ ~(hi * n * d < lo * n * d)
  <2>1. lo * n * d < hi * n * d /\ lo * n * d \in Int /\ hi * n * d \in Int
    BY <1>1, Cancel
  <2> QED
    BY <2>1
<1>4. /\ Lower(p, q).num = lo * n /\ Lower(p, q).den = d /\ Lower(p, q) \in {p, q}
      /\ Upper(p, q).num = hi * n /\ Upper(p, q).den = d /\ Upper(p, q) \in {p, q}
  BY <1>1, <1>3 DEF Lower, Upper, Ends
<1>5. Floor(Lower(p, q), n) \in 0..n /\ (Floor(Lower(p, q), n) <= px <=> lo * n < (px + 1) * d)
  BY <1>2, <1>4, FloorPixel
<1>6. Ceil(Upper(p, q), n) \in 0..n /\ (px < Ceil(Upper(p, q), n) <=> px * d < hi * n)
  BY <1>2, <1>4, CeilPixel
<1> QED
  BY <1>5, <1>6 DEF OnAxis

\* An axis of user space that the raster follows: o is where the page begins, c its
\* extent, b and e where the box begins and ends; m pixels lie across.
LiesAlong(o, c, b, e, n, m, px) ==
  /\ b * (n * m) < o * (n * m) + c * ((px + 1) * m) <=> (b - o) * n < (px + 1) * c
  /\ o * (n * m) + c * (px * m) < e * (n * m) <=> px * c < (e - o) * n

LEMMA Along ==
  ASSUME NEW o \in Int, NEW c \in Int, NEW b \in Int, NEW e \in Int, NEW n \in Nat \ {0},
         NEW m \in Nat \ {0}, NEW px \in Int
  PROVE  LiesAlong(o, c, b, e, n, m, px)
<1>1. ((b - o) * n) * m < ((px + 1) * c) * m <=> (b - o) * n < (px + 1) * c
  BY Cancel
<1>2. (px * c) * m < ((e - o) * n) * m <=> px * c < (e - o) * n
  BY Cancel
<1>3. /\ ((b - o) * n) * m = b * (n * m) - o * (n * m)
      /\ ((px + 1) * c) * m = c * ((px + 1) * m)
      /\ (px * c) * m = c * (px * m)
      /\ ((e - o) * n) * m = e * (n * m) - o * (n * m)
  OBVIOUS
<1>4. /\ b * (n * m) \in Int /\ o * (n * m) \in Int /\ e * (n * m) \in Int
      /\ c * ((px + 1) * m) \in Int /\ c * (px * m) \in Int
  OBVIOUS
<1> QED
  BY <1>1, <1>2, <1>3, <1>4 DEF LiesAlong

\* One that the raster follows backwards.
LiesAgainst(o, c, b, e, n, m, px) ==
  /\ b * (n * m) < o * (n * m) + c * (n * m - px * m) <=> px * c < (c - (b - o)) * n
  /\ o * (n * m) + c * (n * m - (px + 1) * m) < e * (n * m)
       <=> (c - (e - o)) * n < (px + 1) * c

LEMMA Against ==
  ASSUME NEW o \in Int, NEW c \in Int, NEW b \in Int, NEW e \in Int, NEW n \in Nat \ {0},
         NEW m \in Nat \ {0}, NEW px \in Int
  PROVE  LiesAgainst(o, c, b, e, n, m, px)
<1>1. (px * c) * m < ((c - (b - o)) * n) * m <=> px * c < (c - (b - o)) * n
  BY Cancel
<1>2. ((c - (e - o)) * n) * m < ((px + 1) * c) * m <=> (c - (e - o)) * n < (px + 1) * c
  BY Cancel
<1>3. /\ (px * c) * m = c * (px * m)
      /\ ((c - (b - o)) * n) * m = c * (n * m) - b * (n * m) + o * (n * m)
      /\ ((px + 1) * c) * m = c * ((px + 1) * m)
      /\ ((c - (e - o)) * n) * m = c * (n * m) - e * (n * m) + o * (n * m)
      /\ c * (n * m - px * m) = c * (n * m) - c * (px * m)
      /\ c * (n * m - (px + 1) * m) = c * (n * m) - c * ((px + 1) * m)
  OBVIOUS
<1>4. /\ b * (n * m) \in Int /\ o * (n * m) \in Int /\ e * (n * m) \in Int /\ c * (n * m) \in Int
      /\ c * ((px + 1) * m) \in Int /\ c * (px * m) \in Int
  OBVIOUS
<1> QED
  BY <1>1, <1>2, <1>3, <1>4 DEF LiesAgainst

-----------------------------------------------------------------------------
(* Redaction: boxes.                                                       *)

\* A page and its raster, and a box that ParseRedactBoxes takes.
Sheet(page) ==
  /\ page.x0 \in Int /\ page.x1 \in Int /\ page.y0 \in Int /\ page.y1 \in Int
  /\ page.x0 < page.x1 /\ page.y0 < page.y1
  /\ page.W \in Nat \ {0} /\ page.H \in Nat \ {0}
  /\ page.rotation \in {0, 90, 180, 270}
Box(box) == box.x \in Int /\ box.y \in Int /\ box.w \in Nat \ {0} /\ box.h \in Nat \ {0}

LEMMA Projected ==
  ASSUME NEW page, Sheet(page), NEW x \in Int, NEW y \in Int
  PROVE  /\ page.rotation = 0 =>
              /\ Project(page, x, y).x.num = (x - page.x0) * page.W
              /\ Project(page, x, y).x.den = page.x1 - page.x0
              /\ Project(page, x, y).y.num = ((page.y1 - page.y0) - (y - page.y0)) * page.H
              /\ Project(page, x, y).y.den = page.y1 - page.y0
         /\ page.rotation = 90 =>
              /\ Project(page, x, y).x.num = (y - page.y0) * page.W
              /\ Project(page, x, y).x.den = page.y1 - page.y0
              /\ Project(page, x, y).y.num = (x - page.x0) * page.H
              /\ Project(page, x, y).y.den = page.x1 - page.x0
         /\ page.rotation = 180 =>
              /\ Project(page, x, y).x.num = ((page.x1 - page.x0) - (x - page.x0)) * page.W
              /\ Project(page, x, y).x.den = page.x1 - page.x0
              /\ Project(page, x, y).y.num = (y - page.y0) * page.H
              /\ Project(page, x, y).y.den = page.y1 - page.y0
         /\ page.rotation = 270 =>
              /\ Project(page, x, y).x.num = ((page.y1 - page.y0) - (y - page.y0)) * page.W
              /\ Project(page, x, y).x.den = page.y1 - page.y0
              /\ Project(page, x, y).y.num = ((page.x1 - page.x0) - (x - page.x0)) * page.H
              /\ Project(page, x, y).y.den = page.x1 - page.x0
<1>1. CASE page.rotation = 0
  BY <1>1 DEF Project, Sheet
<1>2. CASE page.rotation = 90
  BY <1>2 DEF Project, Sheet
<1>3. CASE page.rotation = 180
  BY <1>3 DEF Project, Sheet
<1>4. CASE page.rotation = 270
  BY <1>4 DEF Project, Sheet
<1> QED
  BY <1>1, <1>2, <1>3, <1>4

LEMMA AreaOf ==
  ASSUME NEW page, Sheet(page), NEW px \in Int, NEW py \in Int
  PROVE  LET area == PixelArea(page, px, py)
             ox == page.x0 * page.W * page.H
             oy == page.y0 * page.W * page.H
             cw == page.x1 - page.x0
             ch == page.y1 - page.y0
             is(xlo, xhi, ylo, yhi) ==
               /\ area.x0 = ox + cw * xlo /\ area.x1 = ox + cw * xhi
               /\ area.y0 = oy + ch * ylo /\ area.y1 = oy + ch * yhi
             u0 == px * page.H
             u1 == (px + 1) * page.H
             v0 == py * page.W
             v1 == (py + 1) * page.W
             one == page.W * page.H
         IN /\ page.rotation = 0 => is(u0, u1, one - v1, one - v0)
            /\ page.rotation = 90 => is(v0, v1, u0, u1)
            /\ page.rotation = 180 => is(one - u1, one - u0, v0, v1)
            /\ page.rotation = 270 => is(one - v1, one - v0, one - u1, one - u0)
<1>1. CASE page.rotation = 0
  BY <1>1 DEF PixelArea, Sheet
<1>2. CASE page.rotation = 90
  BY <1>2 DEF PixelArea, Sheet
<1>3. CASE page.rotation = 180
  BY <1>3 DEF PixelArea, Sheet
<1>4. CASE page.rotation = 270
  BY <1>4 DEF PixelArea, Sheet
<1> QED
  BY <1>1, <1>2, <1>3, <1>4

\* A pixel is turned black exactly when the box covers some of it.
LEMMA PixelCovered ==
  ASSUME NEW page, Sheet(page), NEW box, Box(box),
         NEW px \in 0..(page.W - 1), NEW py \in 0..(page.H - 1)
  PROVE  /\ PixelRect(page, box).px0 \in 0..page.W /\ PixelRect(page, box).px1 \in 0..page.W
         /\ PixelRect(page, box).ry0 \in 0..page.H /\ PixelRect(page, box).ry1 \in 0..page.H
         /\ <<px, py>> \in Blackened(PixelRect(page, box)) <=> Touches(page, box, px, py)
<1> DEFINE W == page.W
           H == page.H
           cw == page.x1 - page.x0
           ch == page.y1 - page.y0
           far == box.x + box.w
           top == box.y + box.h
           left == box.x - page.x0
           right == far - page.x0
           low == box.y - page.y0
           high == top - page.y0
           from == Project(page, box.x, box.y)
           upto == Project(page, far, top)
           rect == PixelRect(page, box)
           area == PixelArea(page, px, py)
<1>1. /\ W \in Nat \ {0} /\ H \in Nat \ {0} /\ cw \in Nat \ {0} /\ ch \in Nat \ {0}
      /\ left \in Int /\ right \in Int /\ left < right /\ low \in Int /\ high \in Int /\ low < high
      /\ box.x \in Int /\ box.y \in Int /\ far \in Int /\ top \in Int
      /\ page.x0 \in Int /\ page.y0 \in Int /\ px \in 0..(W - 1) /\ py \in 0..(H - 1)
  BY DEF Sheet, Box
<1>2. /\ W = page.W /\ H = page.H /\ cw = page.x1 - page.x0 /\ ch = page.y1 - page.y0
      /\ left = box.x - page.x0 /\ low = box.y - page.y0
      /\ right = far - page.x0 /\ high = top - page.y0
      /\ from = Project(page, box.x, box.y) /\ upto = Project(page, far, top)
      /\ rect = PixelRect(page, box) /\ area = PixelArea(page, px, py)
  OBVIOUS
<1>3. /\ rect.px0 = Floor(Lower(from.x, upto.x), W) /\ rect.px1 = Ceil(Upper(from.x, upto.x), W)
      /\ rect.ry0 = Floor(Lower(from.y, upto.y), H) /\ rect.ry1 = Ceil(Upper(from.y, upto.y), H)
  BY DEF PixelRect
<1>4. Touches(page, box, px, py) <=>
        /\ box.x * (W * H) < area.x1 /\ area.x0 < far * (W * H)
        /\ box.y * (W * H) < area.y1 /\ area.y0 < top * (W * H)
  BY DEF Touches
<1>5. <<px, py>> \in Blackened(rect) <=> px \in rect.px0 .. (rect.px1 - 1) /\ py \in rect.ry0 .. (rect.ry1 - 1)
  BY DEF Blackened
<1> HIDE DEF W, H, cw, ch, far, top, left, right, low, high, from, upto, rect, area
<1>6. /\ page.x0 \in Int /\ page.y0 \in Int /\ cw \in Int /\ ch \in Int
      /\ box.x \in Int /\ box.y \in Int /\ far \in Int /\ top \in Int
      /\ W \in Nat \ {0} /\ H \in Nat \ {0} /\ px \in Int /\ py \in Int
  BY <1>1
<1>7. /\ H * W = W * H /\ page.x0 * W * H = page.x0 * (W * H) /\ page.y0 * W * H = page.y0 * (W * H)
  BY <1>1
\* It is enough to show that the four sides agree.
<1>8. ASSUME rect.px0 \in 0..W, rect.px1 \in 0..W, rect.ry0 \in 0..H, rect.ry1 \in 0..H,
             rect.px0 <= px /\ px < rect.px1 /\ rect.ry0 <= py /\ py < rect.ry1
               <=> Touches(page, box, px, py)
      PROVE  /\ rect.px0 \in 0..W /\ rect.px1 \in 0..W /\ rect.ry0 \in 0..H /\ rect.ry1 \in 0..H
             /\ <<px, py>> \in Blackened(rect) <=> Touches(page, box, px, py)
  <2>1. /\ px \in rect.px0 .. (rect.px1 - 1) <=> rect.px0 <= px /\ px < rect.px1
        /\ py \in rect.ry0 .. (rect.ry1 - 1) <=> rect.ry0 <= py /\ py < rect.ry1
    BY <1>1, <1>8
  <2> QED
    BY <1>5, <1>8, <2>1
<1>9. CASE page.rotation = 0
  <2>1. /\ from.x.num = left * W /\ from.x.den = cw /\ from.y.num = (ch - low) * H /\ from.y.den = ch
    BY <1>1, <1>2, <1>9, Projected
  <2>2. /\ upto.x.num = right * W /\ upto.x.den = cw /\ upto.y.num = (ch - high) * H /\ upto.y.den = ch
    BY <1>1, <1>2, <1>9, Projected
  <2>3. /\ left \in Int /\ right \in Int /\ left < right
        /\ (ch - high) \in Int /\ (ch - low) \in Int /\ (ch - high) < (ch - low)
    BY <1>1
  <2>4. OnAxis(W, cw, left, right, from.x, upto.x, px)
    <3>1. Ends(from.x, upto.x, W, cw, left, right)
      BY <1>1, <2>1, <2>2 DEF Ends
    <3> QED
      BY <1>1, <2>3, <3>1, AxisPixels, ZenonT(30)
  <2>5. OnAxis(H, ch, ch - high, ch - low, from.y, upto.y, py)
    <3>1. Ends(from.y, upto.y, H, ch, ch - high, ch - low)
      BY <1>1, <2>1, <2>2 DEF Ends
    <3> QED
      BY <1>1, <2>3, <3>1, AxisPixels, ZenonT(30)
  <2>6. /\ area.x0 = page.x0 * (W * H) + cw * (px * H) /\ area.x1 = page.x0 * (W * H) + cw * ((px + 1) * H)
        /\ area.y0 = page.y0 * (W * H) + ch * (W * H - (py + 1) * W) /\ area.y1 = page.y0 * (W * H) + ch * (W * H - py * W)
    BY <1>2, <1>6, <1>7, <1>9, AreaOf
  <2>7. LiesAlong(page.x0, cw, box.x, far, W, H, px)
    BY <1>6, Along, ZenonT(30)
  <2>8. LiesAgainst(page.y0, ch, box.y, top, H, W, py)
    BY <1>6, Against, ZenonT(30)
  <2>9. rect.px0 <= px /\ px < rect.px1 /\ rect.ry0 <= py /\ py < rect.ry1 <=> Touches(page, box, px, py)
    BY <1>2, <1>3, <1>4, <1>7, <2>4, <2>5, <2>6, <2>7, <2>8 DEF OnAxis, LiesAlong, LiesAgainst
  <2> QED
    BY <1>2, <1>3, <1>8, <2>4, <2>5, <2>9 DEF OnAxis
<1>10. CASE page.rotation = 90
  <2>1. /\ from.x.num = low * W /\ from.x.den = ch /\ from.y.num = left * H /\ from.y.den = cw
    BY <1>1, <1>2, <1>10, Projected
  <2>2. /\ upto.x.num = high * W /\ upto.x.den = ch /\ upto.y.num = right * H /\ upto.y.den = cw
    BY <1>1, <1>2, <1>10, Projected
  <2>3. /\ low \in Int /\ high \in Int /\ low < high
        /\ left \in Int /\ right \in Int /\ left < right
    BY <1>1
  <2>4. OnAxis(W, ch, low, high, from.x, upto.x, px)
    <3>1. Ends(from.x, upto.x, W, ch, low, high)
      BY <1>1, <2>1, <2>2 DEF Ends
    <3> QED
      BY <1>1, <2>3, <3>1, AxisPixels, ZenonT(30)
  <2>5. OnAxis(H, cw, left, right, from.y, upto.y, py)
    <3>1. Ends(from.y, upto.y, H, cw, left, right)
      BY <1>1, <2>1, <2>2 DEF Ends
    <3> QED
      BY <1>1, <2>3, <3>1, AxisPixels, ZenonT(30)
  <2>6. /\ area.x0 = page.x0 * (W * H) + cw * (py * W) /\ area.x1 = page.x0 * (W * H) + cw * ((py + 1) * W)
        /\ area.y0 = page.y0 * (W * H) + ch * (px * H) /\ area.y1 = page.y0 * (W * H) + ch * ((px + 1) * H)
    BY <1>2, <1>6, <1>7, <1>10, AreaOf
  <2>7. LiesAlong(page.x0, cw, box.x, far, H, W, py)
    BY <1>6, Along, ZenonT(30)
  <2>8. LiesAlong(page.y0, ch, box.y, top, W, H, px)
    BY <1>6, Along, ZenonT(30)
  <2>9. rect.px0 <= px /\ px < rect.px1 /\ rect.ry0 <= py /\ py < rect.ry1 <=> Touches(page, box, px, py)
    BY <1>2, <1>3, <1>4, <1>7, <2>4, <2>5, <2>6, <2>7, <2>8 DEF OnAxis, LiesAlong, LiesAgainst
  <2> QED
    BY <1>2, <1>3, <1>8, <2>4, <2>5, <2>9 DEF OnAxis
<1>11. CASE page.rotation = 180
  <2>1. /\ from.x.num = (cw - left) * W /\ from.x.den = cw /\ from.y.num = low * H /\ from.y.den = ch
    BY <1>1, <1>2, <1>11, Projected
  <2>2. /\ upto.x.num = (cw - right) * W /\ upto.x.den = cw /\ upto.y.num = high * H /\ upto.y.den = ch
    BY <1>1, <1>2, <1>11, Projected
  <2>3. /\ (cw - right) \in Int /\ (cw - left) \in Int /\ (cw - right) < (cw - left)
        /\ low \in Int /\ high \in Int /\ low < high
    BY <1>1
  <2>4. OnAxis(W, cw, cw - right, cw - left, from.x, upto.x, px)
    <3>1. Ends(from.x, upto.x, W, cw, cw - right, cw - left)
      BY <1>1, <2>1, <2>2 DEF Ends
    <3> QED
      BY <1>1, <2>3, <3>1, AxisPixels, ZenonT(30)
  <2>5. OnAxis(H, ch, low, high, from.y, upto.y, py)
    <3>1. Ends(from.y, upto.y, H, ch, low, high)
      BY <1>1, <2>1, <2>2 DEF Ends
    <3> QED
      BY <1>1, <2>3, <3>1, AxisPixels, ZenonT(30)
  <2>6. /\ area.x0 = page.x0 * (W * H) + cw * (W * H - (px + 1) * H) /\ area.x1 = page.x0 * (W * H) + cw * (W * H - px * H)
        /\ area.y0 = page.y0 * (W * H) + ch * (py * W) /\ area.y1 = page.y0 * (W * H) + ch * ((py + 1) * W)
    BY <1>2, <1>6, <1>7, <1>11, AreaOf
  <2>7. LiesAgainst(page.x0, cw, box.x, far, W, H, px)
    BY <1>6, Against, ZenonT(30)
  <2>8. LiesAlong(page.y0, ch, box.y, top, H, W, py)
    BY <1>6, Along, ZenonT(30)
  <2>9. rect.px0 <= px /\ px < rect.px1 /\ rect.ry0 <= py /\ py < rect.ry1 <=> Touches(page, box, px, py)
    BY <1>2, <1>3, <1>4, <1>7, <2>4, <2>5, <2>6, <2>7, <2>8 DEF OnAxis, LiesAlong, LiesAgainst
  <2> QED
    BY <1>2, <1>3, <1>8, <2>4, <2>5, <2>9 DEF OnAxis
<1>12. CASE page.rotation = 270
  <2>1. /\ from.x.num = (ch - low) * W /\ from.x.den = ch /\ from.y.num = (cw - left) * H /\ from.y.den = cw
    BY <1>1, <1>2, <1>12, Projected
  <2>2. /\ upto.x.num = (ch - high) * W /\ upto.x.den = ch /\ upto.y.num = (cw - right) * H /\ upto.y.den = cw
    BY <1>1, <1>2, <1>12, Projected
  <2>3. /\ (ch - high) \in Int /\ (ch - low) \in Int /\ (ch - high) < (ch - low)
        /\ (cw - right) \in Int /\ (cw - left) \in Int /\ (cw - right) < (cw - left)
    BY <1>1
  <2>4. OnAxis(W, ch, ch - high, ch - low, from.x, upto.x, px)
    <3>1. Ends(from.x, upto.x, W, ch, ch - high, ch - low)
      BY <1>1, <2>1, <2>2 DEF Ends
    <3> QED
      BY <1>1, <2>3, <3>1, AxisPixels, ZenonT(30)
  <2>5. OnAxis(H, cw, cw - right, cw - left, from.y, upto.y, py)
    <3>1. Ends(from.y, upto.y, H, cw, cw - right, cw - left)
      BY <1>1, <2>1, <2>2 DEF Ends
    <3> QED
      BY <1>1, <2>3, <3>1, AxisPixels, ZenonT(30)
  <2>6. /\ area.x0 = page.x0 * (W * H) + cw * (W * H - (py + 1) * W) /\ area.x1 = page.x0 * (W * H) + cw * (W * H - py * W)
        /\ area.y0 = page.y0 * (W * H) + ch * (W * H - (px + 1) * H) /\ area.y1 = page.y0 * (W * H) + ch * (W * H - px * H)
    BY <1>2, <1>6, <1>7, <1>12, AreaOf
  <2>7. LiesAgainst(page.x0, cw, box.x, far, H, W, py)
    BY <1>6, Against, ZenonT(30)
  <2>8. LiesAgainst(page.y0, ch, box.y, top, W, H, px)
    BY <1>6, Against, ZenonT(30)
  <2>9. rect.px0 <= px /\ px < rect.px1 /\ rect.ry0 <= py /\ py < rect.ry1 <=> Touches(page, box, px, py)
    BY <1>2, <1>3, <1>4, <1>7, <2>4, <2>5, <2>6, <2>7, <2>8 DEF OnAxis, LiesAlong, LiesAgainst
  <2> QED
    BY <1>2, <1>3, <1>8, <2>4, <2>5, <2>9 DEF OnAxis
<1> QED
  BY <1>9, <1>10, <1>11, <1>12 DEF Sheet
LEMMA BlackPixels ==
  ASSUME NEW page, Sheet(page), NEW box, Box(box)
  PROVE  /\ Blackened(PixelRect(page, box)) =
              {c \in (0 .. (page.W - 1)) \X (0 .. (page.H - 1)) : Touches(page, box, c[1], c[2])}
         /\ ~Outside(PixelRect(page, box)) => Blackened(PixelRect(page, box)) # {}
<1> DEFINE rect == PixelRect(page, box)
           raster == (0 .. (page.W - 1)) \X (0 .. (page.H - 1))
<1>1. page.W \in Nat \ {0} /\ page.H \in Nat \ {0} /\ 0 \in 0..(page.W - 1) /\ 0 \in 0..(page.H - 1)
  BY DEF Sheet
<1>2. /\ rect.px0 \in 0..page.W /\ rect.px1 \in 0..page.W
      /\ rect.ry0 \in 0..page.H /\ rect.ry1 \in 0..page.H
  BY <1>1, PixelCovered
<1>3. \A px \in 0..(page.W - 1), py \in 0..(page.H - 1) :
        <<px, py>> \in Blackened(rect) <=> Touches(page, box, px, py)
  BY PixelCovered
<1> HIDE DEF rect
<1>4. Blackened(rect) \subseteq raster
  BY <1>1, <1>2 DEF Blackened
<1>5. \A c \in raster : c = <<c[1], c[2]>> /\ c[1] \in 0..(page.W - 1) /\ c[2] \in 0..(page.H - 1)
  OBVIOUS
<1>6. \A c \in raster : c \in Blackened(rect) <=> Touches(page, box, c[1], c[2])
  BY <1>3, <1>5
<1>7. Blackened(rect) = {c \in raster : Touches(page, box, c[1], c[2])}
  BY <1>4, <1>6
<1>8. ASSUME ~Outside(rect) PROVE Blackened(rect) # {}
  <2>1. rect.px0 \in rect.px0 .. (rect.px1 - 1) /\ rect.ry0 \in rect.ry0 .. (rect.ry1 - 1)
    BY <1>2, <1>8 DEF Outside
  <2>2. <<rect.px0, rect.ry0>> \in Blackened(rect)
    BY <2>1 DEF Blackened
  <2> QED
    BY <2>2
<1> QED
  BY <1>7, <1>8 DEF rect

LEMMA WrittenJobs ==
  ASSUME NEW job, Redactable(job), PdfRedactExecuteFile(job).outcome = "written"
  PROVE  /\ \A p \in DOMAIN job.pages : Sheet(job.pages[p])
         /\ IsFiniteSet(DOMAIN job.boxes)
         /\ \A i \in DOMAIN job.boxes :
              /\ Box(job.boxes[i]) /\ job.boxes[i].page \in DOMAIN job.pages
              /\ ~Outside(PixelRect(job.pages[job.boxes[i].page], job.boxes[i]))
         /\ PdfRedactExecuteFile(job).black = [p \in DOMAIN job.pages |-> RenderRedactedPage(job, p)]
         /\ PdfRedactExecuteFile(job).objects = RebuildPagesAsImages(job)
         /\ PdfRedactExecuteFile(job).rows =
              [p \in DOMAIN job.pages |->
                 [redacted |-> p \in RedactedPages(job), boxes |-> Cardinality(BoxesOf(job, p))]]
<1> DEFINE Row == [page : Int, x : Int, y : Int, w : Int, h : Int]
<1>1. job.pages \in Seq(Sheets) /\ job.boxes \in Seq(Row)
  BY DEF Redactable
<1>2. /\ Len(job.pages) \in Nat /\ DOMAIN job.pages = 1..Len(job.pages)
      /\ \A p \in 1..Len(job.pages) : job.pages[p] \in Sheets
  BY <1>1, ElementOfSeq, LenProperties
<1>3. /\ Len(job.boxes) \in Nat /\ DOMAIN job.boxes = 1..Len(job.boxes)
      /\ \A i \in 1..Len(job.boxes) : job.boxes[i] \in Row
  BY <1>1, ElementOfSeq, LenProperties
<1>4. /\ ParseRedactBoxes(job.boxes)
      /\ \A i \in DOMAIN job.boxes : ~(job.boxes[i].page > Len(job.pages))
      /\ \A i \in DOMAIN job.boxes : ~Outside(PixelRect(job.pages[job.boxes[i].page], job.boxes[i]))
      /\ PdfRedactExecuteFile(job).black = [p \in DOMAIN job.pages |-> RenderRedactedPage(job, p)]
      /\ PdfRedactExecuteFile(job).objects = RebuildPagesAsImages(job)
      /\ PdfRedactExecuteFile(job).rows =
           [p \in DOMAIN job.pages |->
              [redacted |-> p \in RedactedPages(job), boxes |-> Cardinality(BoxesOf(job, p))]]
  BY DEF PdfRedactExecuteFile
<1>5. \A p \in DOMAIN job.pages : Sheet(job.pages[p])
  BY <1>2 DEF Sheets, Sheet
<1>6. IsFiniteSet(DOMAIN job.boxes)
  BY <1>3, FS_Interval
<1>7. ASSUME NEW i \in DOMAIN job.boxes
      PROVE  Box(job.boxes[i]) /\ job.boxes[i].page \in DOMAIN job.pages
  <2>1. job.boxes[i] \in Row /\ job.boxes[i].page >= 1 /\ job.boxes[i].w > 0 /\ job.boxes[i].h > 0
    BY <1>3, <1>4 DEF ParseRedactBoxes
  <2>2. ~(job.boxes[i].page > Len(job.pages))
    BY <1>4
  <2> QED
    BY <1>2, <2>1, <2>2 DEF Box
<1> QED
  BY <1>4, <1>5, <1>6, <1>7

\* What pdf_redact turns black is what its boxes cover, on every page of every call
\* that writes: no pixel more and no pixel less, whatever the CropBox, the rotation
\* and the raster, and every box has one (RenderRedactedPage, PdfRedactExecuteFile).
LEMMA BlackWhereBoxed ==
  ASSUME NEW job, Redactable(job)
  PROVE  BlackAsBoxed(job, PdfRedactExecuteFile(job))
<1> DEFINE result == PdfRedactExecuteFile(job)
<1> SUFFICES ASSUME result.outcome = "written"
             PROVE  BlackAsBoxed(job, result)
  BY DEF BlackAsBoxed
<1>1. /\ \A p \in DOMAIN job.pages : Sheet(job.pages[p])
      /\ IsFiniteSet(DOMAIN job.boxes)
      /\ \A i \in DOMAIN job.boxes :
           /\ Box(job.boxes[i]) /\ job.boxes[i].page \in DOMAIN job.pages
           /\ ~Outside(PixelRect(job.pages[job.boxes[i].page], job.boxes[i]))
      /\ result.black = [p \in DOMAIN job.pages |-> RenderRedactedPage(job, p)]
      /\ result.rows =
           [p \in DOMAIN job.pages |->
              [redacted |-> p \in RedactedPages(job), boxes |-> Cardinality(BoxesOf(job, p))]]
  BY WrittenJobs
<1> HIDE DEF result
<1>2. \A p \in DOMAIN job.pages : \A i \in BoxesOf(job, p) :
        i \in DOMAIN job.boxes /\ job.boxes[i].page = p
  BY DEF BoxesOf
<1>3. ASSUME NEW p \in DOMAIN job.pages, NEW i \in BoxesOf(job, p)
      PROVE  /\ Blackened(PixelRect(job.pages[p], job.boxes[i])) =
                  {c \in (0 .. (job.pages[p].W - 1)) \X (0 .. (job.pages[p].H - 1)) :
                     Touches(job.pages[p], job.boxes[i], c[1], c[2])}
             /\ Blackened(PixelRect(job.pages[p], job.boxes[i])) # {}
  BY <1>1, <1>2, BlackPixels
<1>4. ASSUME NEW p \in DOMAIN job.pages
      PROVE  result.black[p] = UNION {Blackened(PixelRect(job.pages[p], job.boxes[i])) : i \in BoxesOf(job, p)}
  BY <1>1 DEF RenderRedactedPage
<1>5. ASSUME NEW p \in DOMAIN job.pages
      PROVE  result.black[p] =
               {c \in (0 .. (job.pages[p].W - 1)) \X (0 .. (job.pages[p].H - 1)) :
                  \E i \in BoxesOf(job, p) : Touches(job.pages[p], job.boxes[i], c[1], c[2])}
  BY <1>3, <1>4
<1>6. ASSUME NEW i \in DOMAIN job.boxes
      PROVE  /\ job.boxes[i].page \in DOMAIN job.pages
             /\ \E c \in result.black[job.boxes[i].page] :
                  Touches(job.pages[job.boxes[i].page], job.boxes[i], c[1], c[2])
  <2>1. job.boxes[i].page \in DOMAIN job.pages /\ i \in BoxesOf(job, job.boxes[i].page)
    BY <1>1 DEF BoxesOf
  <2>2. PICK c : c \in Blackened(PixelRect(job.pages[job.boxes[i].page], job.boxes[i]))
    BY <1>3, <2>1
  <2>3. Touches(job.pages[job.boxes[i].page], job.boxes[i], c[1], c[2])
    BY <1>3, <2>1, <2>2
  <2>4. c \in result.black[job.boxes[i].page]
    BY <1>4, <2>1, <2>2
  <2> QED
    BY <2>1, <2>3, <2>4
<1>7. ASSUME NEW p \in DOMAIN job.pages
      PROVE  result.rows[p].redacted = (result.rows[p].boxes > 0) /\ (result.rows[p].redacted <=> result.black[p] # {})
  <2>1. result.rows[p].redacted = (p \in RedactedPages(job)) /\ result.rows[p].boxes = Cardinality(BoxesOf(job, p))
    BY <1>1
  <2>2. p \in RedactedPages(job) <=> BoxesOf(job, p) # {}
    BY DEF RedactedPages
  <2>3. IsFiniteSet(BoxesOf(job, p))
    BY <1>1, FS_Subset DEF BoxesOf
  <2>4. Cardinality(BoxesOf(job, p)) \in Nat /\ (Cardinality(BoxesOf(job, p)) = 0 <=> BoxesOf(job, p) = {})
    BY <2>3, FS_CardinalityType, FS_EmptySet
  <2>5. Cardinality(BoxesOf(job, p)) > 0 <=> BoxesOf(job, p) # {}
    BY <2>4
  <2>6. result.black[p] # {} <=> BoxesOf(job, p) # {}
    BY <1>3, <1>4
  <2>7. CASE BoxesOf(job, p) = {}
    <3>1. result.rows[p].redacted = FALSE /\ (result.rows[p].boxes > 0) = FALSE
      <4>1. (p \in RedactedPages(job)) = FALSE
        BY <2>2, <2>7
      <4>2. (Cardinality(BoxesOf(job, p)) > 0) = FALSE
        BY <2>5, <2>7
      <4> QED
        BY <2>1, <4>1, <4>2
    <3> QED
      BY <2>6, <2>7, <3>1
  <2>8. CASE BoxesOf(job, p) # {}
    <3>1. result.rows[p].redacted = TRUE /\ (result.rows[p].boxes > 0) = TRUE
      BY <2>1, <2>2, <2>5, <2>8
    <3> QED
      BY <2>6, <2>8, <3>1
  <2> QED
    BY <2>7, <2>8
<1> QED
  BY <1>5, <1>6, <1>7 DEF BlackAsBoxed

\* A copy holds its roots and what its objects refer to, and every set of objects
\* that holds them holds the copy.
WholeCopy(job, roots, S) ==
  /\ roots \subseteq S
  /\ \A e \in job.entries : e.from \in S /\ e.to \in ObjectsOf(job) => e.to \in S

LEMMA CopyIsLeast ==
  ASSUME NEW job, NEW roots \in SUBSET ObjectsOf(job)
  PROVE  /\ CopyForeign(job, roots) \subseteq ObjectsOf(job)
         /\ WholeCopy(job, roots, CopyForeign(job, roots))
         /\ \A S \in SUBSET ObjectsOf(job) : WholeCopy(job, roots, S) => CopyForeign(job, roots) \subseteq S
<1> DEFINE copied == CopyForeign(job, roots)
           whole == {S \in SUBSET ObjectsOf(job) : WholeCopy(job, roots, S)}
<1>1. copied = {x \in ObjectsOf(job) : \A S \in whole : x \in S}
  BY DEF CopyForeign, WholeCopy
<1> HIDE DEF copied
<1>2. roots \subseteq copied
  BY <1>1 DEF WholeCopy
<1>3. ASSUME NEW e \in job.entries, e.from \in copied, e.to \in ObjectsOf(job) PROVE e.to \in copied
  BY <1>1, <1>3 DEF WholeCopy
<1>4. WholeCopy(job, roots, copied)
  BY <1>2, <1>3 DEF WholeCopy
<1>5. \A S \in SUBSET ObjectsOf(job) : WholeCopy(job, roots, S) => copied \subseteq S
  BY <1>1
<1> QED
  BY <1>1, <1>4, <1>5 DEF copied

\* What only redacted pages, the catalog and the dropped entries lead to is not in the
\* output of a call that redacts, and what the other pages name and refer to is
\* (RebuildPagesAsImages).
LEMMA OthersRemain ==
  ASSUME NEW job, Redactable(job)
  PROVE  /\ LeavesNothing(job, PdfRedactExecuteFile(job))
         /\ KeepsOtherPages(job, PdfRedactExecuteFile(job))
<1> DEFINE result == PdfRedactExecuteFile(job)
           redacted == RedactedPages(job)
           others == DOMAIN job.pages \ redacted
           named == {e \in job.entries :
                       IF redacted = {} THEN e.from \in 0 .. Len(job.pages)
                       ELSE e.from \in others /\ e.key \notin DroppedEverywhere}
           roots == {e.to : e \in named} \cap ObjectsOf(job)
<1> SUFFICES ASSUME result.outcome = "written"
             PROVE  LeavesNothing(job, result) /\ KeepsOtherPages(job, result)
  BY DEF LeavesNothing, KeepsOtherPages
<1>1. result.objects = RebuildPagesAsImages(job)
  BY WrittenJobs
<1>2. RebuildPagesAsImages(job) = CopyForeign(job, roots)
  BY DEF RebuildPagesAsImages
<1> HIDE DEF result
<1>3. /\ result.objects \subseteq ObjectsOf(job)
      /\ WholeCopy(job, roots, result.objects)
      /\ \A S \in SUBSET ObjectsOf(job) : WholeCopy(job, roots, S) => result.objects \subseteq S
  <2>1. roots \in SUBSET ObjectsOf(job)
    OBVIOUS
  <2> HIDE DEF roots
  <2> QED
    BY <1>1, <1>2, <2>1, CopyIsLeast
<1>4. /\ Len(job.pages) \in Nat /\ DOMAIN job.pages = 1 .. Len(job.pages)
      /\ \A p \in DOMAIN job.pages : p \in 0 .. Len(job.pages) /\ p # 0
      /\ 0 \in 0 .. Len(job.pages)
  BY LenProperties DEF Redactable
<1>5. \A x \in ObjectsOf(job) : x \notin 0 .. Len(job.pages)
  BY DEF ObjectsOf
<1>6. \A e \in job.entries : Aside(job, e) <=> e.from \in DOMAIN job.pages /\ e.key \in DroppedEverywhere
  BY DEF Aside, Interactive, PrivateData, DroppedEverywhere
<1>7. redacted \subseteq DOMAIN job.pages
  BY DEF RedactedPages
<1>8. ASSUME redacted # {}, NEW S \in SUBSET ObjectsOf(job), OnlyRedacted(job, S)
      PROVE  S \cap result.objects = {}
  <2> DEFINE rest == ObjectsOf(job) \ S
  <2>1. ASSUME NEW e \in named, e.to \in ObjectsOf(job) PROVE e.to \notin S
    BY <1>4, <1>5, <1>6, <1>8, <2>1 DEF OnlyRedacted
  <2>2. ASSUME NEW e \in job.entries, e.from \in rest, e.to \in ObjectsOf(job) PROVE e.to \notin S
    BY <1>4, <1>5, <1>7, <1>8, <2>2 DEF OnlyRedacted, Aside
  <2>3. WholeCopy(job, roots, rest)
    BY <2>1, <2>2 DEF WholeCopy
  <2> QED
    BY <1>3, <2>3
<1>9. ASSUME NEW e \in job.entries, e.to \in ObjectsOf(job),
             \/ e.from \in result.objects
             \/ e.from \in others /\ ~Aside(job, e)
             \/ redacted = {} /\ e.from \in 0 .. Len(job.pages)
      PROVE  e.to \in result.objects
  <2>1. CASE e.from \in result.objects
    BY <1>3, <1>9, <2>1 DEF WholeCopy
  <2>2. CASE e.from \in others /\ ~Aside(job, e)
    <3>1. e \in named
      BY <1>4, <1>6, <2>2
    <3> QED
      BY <1>3, <1>9, <3>1 DEF WholeCopy
  <2>3. CASE redacted = {} /\ e.from \in 0 .. Len(job.pages)
    <3>1. e \in named
      BY <2>3
    <3> QED
      BY <1>3, <1>9, <3>1 DEF WholeCopy
  <2> QED
    BY <1>9, <2>1, <2>2, <2>3
<1>10. LeavesNothing(job, result)
  BY <1>8 DEF LeavesNothing
<1> DEFINE Named(e) ==
             \/ e.from \in result.objects
             \/ e.from \in others /\ ~Aside(job, e)
             \/ redacted = {} /\ e.from \in 0 .. Len(job.pages)
<1>11. \A e \in job.entries : e.to \in ObjectsOf(job) /\ Named(e) => e.to \in result.objects
  BY <1>9
<1>12. KeepsOtherPages(job, result)
  BY <1>11 DEF KeepsOtherPages
<1> QED
  BY <1>10, <1>12

-----------------------------------------------------------------------------
(* TextLayers.                                                             *)

LEMMA SmallestOf ==
  ASSUME NEW S \in SUBSET Nat, S # {}
  PROVE  Min(S) \in S
<1>1. PICK x \in S : \A y \in S : x <= y
  BY LeastOf
<1> QED
  BY <1>1 DEF Min

\* The name a layer is drawn under is new to the page.
LEMMA NewName ==
  ASSUME NEW xobjects, IsFiniteSet(DOMAIN xobjects)
  PROVE  UniqueName(xobjects) \notin DOMAIN xobjects
<1> DEFINE names == DOMAIN xobjects
           n == Cardinality(names)
<1>1. n \in Nat
  BY FS_CardinalityType
<1>2. IsFiniteSet(0..n) /\ Cardinality(0..n) = n + 1
  BY <1>1, FS_Interval
<1>3. ~(0..n \subseteq names)
  <2> SUFFICES ASSUME 0..n \subseteq names PROVE FALSE
    OBVIOUS
  <2>1. Cardinality(0..n) <= n
    BY FS_Subset
  <2> QED
    BY <1>1, <1>2, <2>1
<1> DEFINE free == {k \in 0..n : k \notin names}
<1>4. free \in SUBSET Nat /\ free # {}
  BY <1>1, <1>3
<1>5. Min(free) \in free
  BY <1>4, SmallestOf
<1> QED
  BY <1>5 DEF UniqueName

\* A layer under a new name is drawn besides what the page drew.
LEMMA LaidOver ==
  ASSUME NEW page, Printed(page), NEW layer
  PROVE  /\ Drawn(LayOver(page, layer)) = Drawn(page) \cup {layer}
         /\ \A name \in DOMAIN page.xobjects : LayOver(page, layer).xobjects[name] = page.xobjects[name]
<1> DEFINE name == UniqueName(page.xobjects)
           old == page.content
           n == Len(old)
           xobjects == [k \in DOMAIN page.xobjects \cup {name} |-> IF k = name THEN layer ELSE page.xobjects[k]]
           pre == <<<<"q">>>>
           post == <<<<"Q">>, <<"Do", name>>>>
           content == pre \o old \o post
<1>1. name \notin DOMAIN page.xobjects
  BY NewName DEF Printed
<1>2. LayOver(page, layer) = [xobjects |-> xobjects, content |-> content]
  BY DEF LayOver
<1>3. PICK Instructions : old \in Seq(Instructions)
  BY ListedSeq DEF Printed
<1>4. n \in Nat /\ Len(old) = n /\ DOMAIN old = 1..n
  BY <1>3, LenProperties
<1> HIDE DEF n, old
<1> DEFINE All == Instructions \cup {<<"q">>, <<"Q">>, <<"Do", name>>}
<1>5. /\ content \in Seq(All) /\ Len(content) = n + 3
      /\ content[1] = <<"q">> /\ content[n + 2] = <<"Q">> /\ content[n + 3] = <<"Do", name>>
      /\ \A i \in 1..n : content[i + 1] = old[i]
  <2>1. old \in Seq(All)
    BY <1>3, SeqMonotonic
  <2>2. <<"q">> \in All /\ <<"Q">> \in All /\ <<"Do", name>> \in All
    OBVIOUS
  <2> HIDE DEF All
  <2>3. /\ pre \in Seq(All) /\ Len(pre) = 1 /\ pre[1] = <<"q">>
        /\ post \in Seq(All) /\ Len(post) = 2 /\ post[1] = <<"Q">> /\ post[2] = <<"Do", name>>
    BY <2>2
  <2> HIDE DEF pre, post
  <2> DEFINE head == pre \o old
  <2>4. /\ head \in Seq(All) /\ Len(head) = n + 1 /\ head[1] = <<"q">>
        /\ \A i \in 1..n : head[i + 1] = old[i]
    <3>1. /\ head \in Seq(All) /\ Len(head) = Len(pre) + Len(old)
          /\ \A i \in 1 .. Len(pre) + Len(old) :
               head[i] = IF i <= Len(pre) THEN pre[i] ELSE old[i - Len(pre)]
      BY <2>1, <2>3, ConcatProperties
    <3> HIDE DEF head
    <3>2. /\ Len(head) = n + 1
          /\ \A i \in 1..(n + 1) : head[i] = IF i <= 1 THEN pre[i] ELSE old[i - 1]
      BY <1>4, <2>3, <3>1
    <3> QED
      BY <1>4, <2>3, <3>1, <3>2
  <2>5. /\ head \o post \in Seq(All) /\ Len(head \o post) = n + 3
        /\ \A i \in 1..(n + 3) : (head \o post)[i] = IF i <= n + 1 THEN head[i] ELSE post[i - (n + 1)]
    <3> HIDE DEF head
    <3>1. /\ head \o post \in Seq(All) /\ Len(head \o post) = Len(head) + Len(post)
          /\ \A i \in 1 .. Len(head) + Len(post) :
               (head \o post)[i] = IF i <= Len(head) THEN head[i] ELSE post[i - Len(head)]
      BY <2>3, <2>4, ConcatProperties
    <3> QED
      BY <1>4, <2>3, <2>4, <3>1
  <2> HIDE DEF head
  <2>6. content = head \o post
    BY DEF head
  <2>7. content[1] = <<"q">> /\ \A i \in 1..n : content[i + 1] = old[i]
    BY <1>4, <2>4, <2>5, <2>6
  <2>8. content[n + 2] = <<"Q">> /\ content[n + 3] = <<"Do", name>>
    BY <1>4, <2>3, <2>5, <2>6, SMTT(60)
  <2> QED
    BY <2>5, <2>6, <2>7, <2>8
<1>6. DOMAIN content = 1..(n + 3)
  BY <1>5, LenProperties
<1>7. /\ xobjects[name] = layer
      /\ \A other \in DOMAIN page.xobjects : xobjects[other] = page.xobjects[other]
  BY <1>1
<1> HIDE DEF content, xobjects, name
<1>8. Drawn(LayOver(page, layer)) = {xobjects[content[k][2]] : k \in {j \in DOMAIN content : content[j][1] = "Do"}}
  BY <1>2 DEF Drawn
<1>9. Drawn(page) = {page.xobjects[old[k][2]] : k \in {j \in DOMAIN old : old[j][1] = "Do"}}
  BY DEF Drawn, old
<1>10. ASSUME NEW k \in DOMAIN content, content[k][1] = "Do"
      PROVE  xobjects[content[k][2]] \in Drawn(page) \cup {layer}
  <2>1. CASE k = n + 3
    BY <1>5, <1>7, <2>1
  <2>2. CASE k # n + 3
    <3>1. k # 1 /\ k # n + 2
      BY <1>5, <1>10
    <3>2. k - 1 \in 1..n /\ content[k] = old[k - 1]
      <4>1. k - 1 \in 1..n /\ k = (k - 1) + 1
        BY <1>4, <1>6, <2>2, <3>1
      <4> QED
        BY <1>5, <4>1
    <3>3. old[k - 1][2] \in DOMAIN page.xobjects
      BY <1>4, <1>10, <3>2 DEF Printed, old
    <3>4. xobjects[content[k][2]] = page.xobjects[old[k - 1][2]]
      BY <1>7, <3>2, <3>3
    <3> QED
      BY <1>4, <1>9, <1>10, <3>2, <3>4
  <2> QED
    BY <2>1, <2>2
<1>11. layer \in Drawn(LayOver(page, layer))
  <2>1. n + 3 \in DOMAIN content /\ content[n + 3][1] = "Do" /\ content[n + 3][2] = name
    BY <1>4, <1>5, <1>6
  <2> QED
    BY <1>7, <1>8, <2>1
<1>12. ASSUME NEW i \in DOMAIN old, old[i][1] = "Do"
       PROVE  page.xobjects[old[i][2]] \in Drawn(LayOver(page, layer))
  <2>1. i + 1 \in DOMAIN content /\ content[i + 1] = old[i]
    BY <1>4, <1>5, <1>6
  <2>2. old[i][2] \in DOMAIN page.xobjects
    BY <1>12 DEF Printed, old
  <2>3. xobjects[content[i + 1][2]] = page.xobjects[old[i][2]]
    BY <1>7, <2>1, <2>2
  <2> QED
    BY <1>8, <1>12, <2>1, <2>3
<1>13. Drawn(LayOver(page, layer)) = Drawn(page) \cup {layer}
  BY <1>8, <1>9, <1>10, <1>11, <1>12
<1> QED
  BY <1>2, <1>7, <1>13

LEMMA LengthOf ==
  ASSUME NEW n \in Nat, NEW f, f = [i \in 1..n |-> f[i]]
  PROVE  Len(f) = n
OBVIOUS

LEMMA KeptPass ==
  ASSUME NEW page, Printed(page), \A pass \in Ran(page) : ~pass.fails
  PROVE  /\ Kept(page) \in {page.first, page.second} /\ ~Kept(page).fails
         /\ Kept(page).confidence >= page.first.confidence
         /\ page.retry /\ page.dpi < HighDpi /\ page.first.confidence < LowConfidence
              => Kept(page).confidence >= page.second.confidence
<1>1. page.first.confidence \in Int /\ page.second.confidence \in Int
  BY DEF Printed, Trials
<1>2. Kept(page) \in Ran(page) /\ Ran(page) \subseteq {page.first, page.second}
  BY DEF Kept, Ran
<1>3. ~Kept(page).fails
  BY <1>2
<1>4. /\ Kept(page).confidence >= page.first.confidence
      /\ Second(page) => Kept(page).confidence >= page.second.confidence
  BY <1>1 DEF Kept
<1> QED
  BY <1>2, <1>3, <1>4 DEF Second

\* Every page of every call that pdf_ocr writes has its row, and the pages that were
\* asked for one layer each, from the better pass, over what they drew before; it
\* writes nothing only for a cause (PdfOcrExecute, AddTextLayers).
LEMMA LaidAsAsked ==
  ASSUME NEW call, Askable(call)
  PROVE  SearchableAsAsked(call, PdfOcrExecute(call))
<1> DEFINE result == PdfOcrExecute(call)
           layers == Layers(call)
           asked(i) == /\ i >= call.first /\ (call.last = -1 \/ i <= call.last)
                       /\ (call.pages[i].native = 0 \/ call.force)
           unreadable == \E i \in DOMAIN call.pages : ~call.pages[i].readable
           failing == \E i \in DOMAIN call.pages :
                        Layered(call, i) /\ \E pass \in Ran(call.pages[i]) : pass.fails
           torn == \E i \in DOMAIN call.pages : layers[i] # <<>> /\ layers[i][1].sheets # 1
<1> SUFFICES SearchableAsAsked(call, result)
  OBVIOUS
<1>1. /\ DOMAIN call.pages = 1..Len(call.pages) /\ Len(call.pages) \in Nat
      /\ \A i \in DOMAIN call.pages : Printed(call.pages[i])
  BY ListedSeq DEF Askable
<1>2. \A i \in DOMAIN call.pages : Layered(call, i) <=> asked(i)
  <2> TAKE i \in DOMAIN call.pages
  <2>1. call.pages[i].native \in Nat /\ i \in Int /\ call.last \in Int /\ call.last >= -1 /\ call.force \in BOOLEAN
    BY <1>1 DEF Printed, Askable
  <2>2. HadText(call.pages[i]) <=> call.pages[i].native # 0
    BY <2>1 DEF HadText
  <2>3. Selected(call, i) <=> i >= call.first /\ (call.last = -1 \/ i <= call.last)
    BY <2>1 DEF Selected
  <2> QED
    BY <2>2, <2>3 DEF Layered
<1>3. \A i \in DOMAIN call.pages :
        layers[i] = IF Layered(call, i) THEN <<Kept(call.pages[i])>> ELSE <<>>
  BY DEF Layers
<1>4. \A i \in DOMAIN call.pages : Layered(call, i) => layers[i] # <<>> /\ layers[i][1] = Kept(call.pages[i])
  <2> SUFFICES ASSUME NEW i \in DOMAIN call.pages, Layered(call, i)
               PROVE  layers[i] # <<>> /\ layers[i][1] = Kept(call.pages[i])
    OBVIOUS
  <2>1. layers[i] = <<Kept(call.pages[i])>>
    BY <1>3
  <2>2. <<Kept(call.pages[i])>> # <<>> /\ <<Kept(call.pages[i])>>[1] = Kept(call.pages[i])
    OBVIOUS
  <2> QED
    BY <2>1, <2>2
<1>5. result = IF unreadable \/ failing \/ torn
                 THEN [written |-> FALSE]
                 ELSE [written |-> TRUE, rows |-> PdfOcrRows(call), pages |-> AddTextLayers(call.pages, layers)]
  BY DEF PdfOcrExecute
<1> HIDE DEF result, layers
<1>6. CASE unreadable \/ failing \/ torn
  <2>1. ~result.written
    BY <1>5, <1>6
  <2>2. ASSUME unreadable
        PROVE  \E i \in DOMAIN call.pages : ~call.pages[i].readable
    BY <2>2
  <2>3. ASSUME failing
        PROVE  \E i \in DOMAIN call.pages :
                 asked(i) /\ \E pass \in {call.pages[i].first, call.pages[i].second} : pass.fails
    BY <1>2, <2>3 DEF Ran
  <2>4. ASSUME torn
        PROVE  \E i \in DOMAIN call.pages :
                 asked(i) /\ \E pass \in {call.pages[i].first, call.pages[i].second} : pass.sheets > 1
    <3>1. PICK i \in DOMAIN call.pages : layers[i] # <<>> /\ layers[i][1].sheets # 1
      BY <2>4
    <3>2. Layered(call, i) /\ layers[i][1] = Kept(call.pages[i])
      BY <1>3, <1>4, <3>1
    <3>3. Kept(call.pages[i]) \in {call.pages[i].first, call.pages[i].second}
      BY DEF Kept
    <3>4. Kept(call.pages[i]).sheets \in Nat \ {0}
      BY <1>1, <3>3 DEF Printed, Trials
    <3> QED
      BY <1>2, <3>1, <3>2, <3>3, <3>4
  <2>5. \E i \in DOMAIN call.pages :
          \/ ~call.pages[i].readable
          \/ /\ i >= call.first /\ (call.last = -1 \/ i <= call.last)
             /\ (call.pages[i].native = 0 \/ call.force)
             /\ \E pass \in {call.pages[i].first, call.pages[i].second} : pass.fails \/ pass.sheets > 1
    BY <1>6, <2>2, <2>3, <2>4
  <2> QED
    BY <2>1, <2>5 DEF SearchableAsAsked
<1>7. CASE ~(unreadable \/ failing \/ torn)
  <2>1. /\ result.written /\ result.rows = PdfOcrRows(call)
        /\ result.pages = AddTextLayers(call.pages, layers)
    BY <1>5, <1>7
  <2>2. Len(result.rows) = Len(call.pages)
    <3>1. result.rows = [i \in 1..Len(call.pages) |-> result.rows[i]]
      BY <1>1, <2>1 DEF PdfOcrRows
    <3> QED
      BY <1>1, <3>1, LengthOf
  <2>3. ASSUME NEW i \in DOMAIN call.pages
        PROVE  LET page == call.pages[i]
                   new == result.pages[i]
                   row == result.rows[i]
               IN /\ row.page = i
                  /\ \A name \in DOMAIN page.xobjects : new.xobjects[name] = page.xobjects[name]
                  /\ Drawn(page) \subseteq Drawn(new)
                  /\ row.applied = (IF Layered(call, i) THEN TRUE ELSE FALSE)
                  /\ ~Layered(call, i) =>
                       Drawn(new) \ Drawn(page) = {} /\ row.words = page.native /\ row.confidence = {}
                  /\ Layered(call, i) => \E pass \in {page.first, page.second} :
                       /\ Drawn(new) \ Drawn(page) = {pass} /\ ~pass.fails
                       /\ pass.confidence >= page.first.confidence
                       /\ page.retry /\ page.dpi < HighDpi /\ page.first.confidence < LowConfidence
                            => pass.confidence >= page.second.confidence
                       /\ row.words = pass.count /\ row.confidence = {pass.confidence}
    <3> DEFINE page == call.pages[i]
               new == result.pages[i]
               row == result.rows[i]
    <3>1. CASE ~Layered(call, i)
      <4>1. row = [page |-> i, hadText |-> HadText(page), applied |-> FALSE,
                   words |-> page.native, confidence |-> {}]
        BY <2>1, <3>1 DEF PdfOcrRows
      <4>2. new = [xobjects |-> page.xobjects, content |-> page.content]
        BY <1>3, <2>1, <3>1 DEF AddTextLayers
      <4>3. Drawn(new) = Drawn(page)
        BY <4>2 DEF Drawn
      <4> QED
        BY <3>1, <4>1, <4>2, <4>3
    <3>2. CASE Layered(call, i)
      <4>1. /\ row.page = i /\ row.applied = TRUE
            /\ row.words = Kept(page).count /\ row.confidence = {Kept(page).confidence}
        <5> DEFINE plain == [page |-> i, hadText |-> HadText(page), applied |-> FALSE,
                             words |-> page.native, confidence |-> {}]
                   applied == [plain EXCEPT !.applied = TRUE, !.words = Kept(page).count,
                                            !.confidence = {Kept(page).confidence}]
        <5>1. row = IF ~Layered(call, i) THEN plain ELSE applied
          BY <2>1 DEF PdfOcrRows
        <5>2. /\ applied.page = i /\ applied.applied = TRUE
              /\ applied.words = Kept(page).count /\ applied.confidence = {Kept(page).confidence}
          OBVIOUS
        <5> HIDE DEF row, plain, applied
        <5>3. row = applied
          BY <3>2, <5>1
        <5> QED
          BY <5>2, <5>3
      <4>2. new = LayOver(page, Kept(page))
        BY <1>4, <2>1, <3>2 DEF AddTextLayers
      <4>3. Printed(page) /\ \A pass \in Ran(page) : ~pass.fails
        BY <1>1, <1>7, <3>2
      <4>4. /\ Drawn(new) = Drawn(page) \cup {Kept(page)}
            /\ \A name \in DOMAIN page.xobjects : new.xobjects[name] = page.xobjects[name]
        BY <4>2, <4>3, LaidOver
      <4>5. /\ Kept(page) \in {page.first, page.second} /\ ~Kept(page).fails
            /\ Kept(page).confidence >= page.first.confidence
            /\ page.retry /\ page.dpi < HighDpi /\ page.first.confidence < LowConfidence
                 => Kept(page).confidence >= page.second.confidence
        BY <4>3, KeptPass, SMTT(60)
      <4>6. Kept(page) \notin Drawn(page)
        BY <4>3, <4>5 DEF Drawn, Printed
      <4>7. Drawn(new) \ Drawn(page) = {Kept(page)}
        BY <4>4, <4>6
      <4> HIDE DEF page, new, row
      <4>8. \E pass \in {page.first, page.second} :
              /\ Drawn(new) \ Drawn(page) = {pass} /\ ~pass.fails
              /\ pass.confidence >= page.first.confidence
              /\ page.retry /\ page.dpi < HighDpi /\ page.first.confidence < LowConfidence
                   => pass.confidence >= page.second.confidence
              /\ row.words = pass.count /\ row.confidence = {pass.confidence}
        BY <4>1, <4>5, <4>7
      <4> QED
        BY <3>2, <4>1, <4>4, <4>8 DEF page, new, row
    <3> QED
      BY <3>1, <3>2
  <2>4. ASSUME NEW i \in DOMAIN call.pages PROVE result.rows[i].applied = asked(i)
    <3>1. CASE asked(i)
      BY <1>2, <2>3, <3>1
    <3>2. CASE ~asked(i)
      BY <1>2, <2>3, <3>2
    <3> QED
      BY <3>1, <3>2
  <2>5. ASSUME NEW i \in DOMAIN call.pages
        PROVE  LET page == call.pages[i]
                   new == result.pages[i]
                   row == result.rows[i]
                   wanted == i >= call.first /\ (call.last = -1 \/ i <= call.last) /\ (page.native = 0 \/ call.force)
                   drawn == Drawn(new)
                   before == Drawn(page)
                   added == drawn \ before
               IN /\ row.page = i
                  /\ \A name \in DOMAIN page.xobjects : new.xobjects[name] = page.xobjects[name]
                  /\ before \subseteq drawn
                  /\ row.applied = wanted
                  /\ ~wanted =>
                       added = {} /\ row.words = page.native /\ row.confidence = {}
                  /\ wanted => \E pass \in {page.first, page.second} :
                       /\ added = {pass} /\ ~pass.fails
                       /\ pass.confidence >= page.first.confidence
                       /\ page.retry /\ page.dpi < HighDpi /\ page.first.confidence < LowConfidence
                            => pass.confidence >= page.second.confidence
                       /\ row.words = pass.count /\ row.confidence = {pass.confidence}
    BY <1>2, <2>3, <2>4
  <2> QED
    BY <2>1, <2>2, <2>5 DEF SearchableAsAsked
<1> QED
  BY <1>6, <1>7

-----------------------------------------------------------------------------
(* SplitBlank.                                                             *)

Runs == [start : Nat, ranges : Seq(Nat \X Nat)]
Separates(scan, p) == IsSeparator(scan.pages[p], scan.threshold)

\* What IsSeparator decides is what a reader of the page sees.
LEMMA SeparatorIsBlank ==
  ASSUME NEW scan, Scannable(scan), NEW p \in 1..Len(scan.pages)
  PROVE  Separates(scan, p) \in BOOLEAN /\ (Separates(scan, p) <=> Blank(scan, p))
<1> DEFINE page == scan.pages[p]
<1>1. page \in Looks /\ scan.threshold \in Int
  BY DEF Scannable
<1>2. PICK w \in Nat, x \in Nat, t \in Int : w = page.white /\ x = page.pixels /\ t = scan.threshold
  BY <1>1 DEF Looks
<1>3. w * 100 >= t * x <=> 100 * (x - w) <= (100 - t) * x
  <2>1. (100 - t) * x = 100 * x - t * x /\ t * x \in Int
    OBVIOUS
  <2> QED
    BY <2>1
<1> QED
  BY <1>1, <1>2, <1>3 DEF Separates, Blank, IsSeparator, PageRendersNearWhite, Looks

\* The loop over the pages is defined, and each turn follows from the one before (RunAt).
LEMMA RunIs ==
  ASSUME NEW scan, Scannable(scan)
  PROVE  /\ RunAt(scan)[0] = [start |-> 0, ranges |-> <<>>]
         /\ \A p \in 1..Len(scan.pages) : RunAt(scan)[p] = ExtendRun(RunAt(scan)[p - 1], Separates(scan, p), p)
<1> DEFINE n == Len(scan.pages)
           base == [start |-> 0, ranges |-> <<>>]
           step == [x \in Runs \X (1..n) |-> ExtendRun(x[1], Separates(scan, x[2]), x[2])]
           Eq(run) == run = [p \in 0..n |-> IF p = 0 THEN base
                                            ELSE ExtendRun(run[p - 1], IsSeparator(scan.pages[p], scan.threshold), p)]
           run == CHOOSE run : Eq(run)
<1>1. n \in Nat /\ base \in Runs
  BY DEF Scannable, Runs
<1>2. ASSUME NEW r \in Runs, NEW p \in 1..n
      PROVE  ExtendRun(r, Separates(scan, p), p) \in Runs
  <2>1. r.start \in Nat /\ r.ranges \in Seq(Nat \X Nat) /\ p \in Nat /\ p - 1 \in Nat
    BY DEF Runs
  <2>2. r.start # 0 => Append(r.ranges, <<r.start, p - 1>>) \in Seq(Nat \X Nat)
    BY <2>1
  <2> QED
    BY <2>1, <2>2 DEF ExtendRun, Runs
<1>3. step \in [Runs \X (1..n) -> Runs]
  <2> SUFFICES ASSUME NEW x \in Runs \X (1..n) PROVE ExtendRun(x[1], Separates(scan, x[2]), x[2]) \in Runs
    OBVIOUS
  <2>1. x[1] \in Runs /\ x[2] \in 1..n
    OBVIOUS
  <2> QED
    BY <1>2, <2>1
<1>4. PICK f \in [0..n -> Runs] : Recurs(f, n, base, step)
  <2> HIDE DEF step, n, base
  <2> QED
    BY <1>1, <1>3, Recursion
<1>5. ASSUME NEW p \in 0..n
      PROVE  f[p] = IF p = 0 THEN base ELSE ExtendRun(f[p - 1], IsSeparator(scan.pages[p], scan.threshold), p)
  <2>1. CASE p = 0
    BY <1>4, <2>1 DEF Recurs
  <2>2. CASE p # 0
    <3>1. p \in 1..n /\ p - 1 \in 0..n
      BY <1>1, <2>2
    <3>2. f[p - 1] \in Runs
      BY <3>1
    <3>3. f[p] = step[<<f[p - 1], p>>]
      BY <1>4, <3>1 DEF Recurs
    <3>4. step[<<f[p - 1], p>>] = ExtendRun(f[p - 1], Separates(scan, p), p)
      BY <3>1, <3>2
    <3> QED
      BY <2>2, <3>3, <3>4 DEF Separates
  <2> QED
    BY <2>1, <2>2
<1>6. Eq(f)
  <2>1. f = [p \in 0..n |-> f[p]]
    OBVIOUS
  <2> HIDE DEF n, base
  <2> QED
    BY <1>5, <2>1
<1>7. Eq(run)
  BY <1>6
<1>8. RunAt(scan) = run
  BY DEF RunAt
<1> HIDE DEF run
<1>9. ASSUME NEW p \in 0..n
      PROVE  run[p] = IF p = 0 THEN base ELSE ExtendRun(run[p - 1], IsSeparator(scan.pages[p], scan.threshold), p)
  <2> HIDE DEF n, base
  <2> QED
    BY <1>7
<1>10. run[0] = base /\ \A p \in 1..n : run[p] = ExtendRun(run[p - 1], Separates(scan, p), p)
  BY <1>1, <1>9 DEF Separates
<1> QED
  BY <1>8, <1>10

\* What is known of the loop after p pages: the ranges it has closed, all of them
\* before some page, and the run it is in.
ClosedRange(scan, a, b) ==
  /\ 1 <= a /\ a <= b
  /\ \A q \in a..b : ~Separates(scan, q)
  /\ a > 1 => Separates(scan, a - 1)
RangeTrue(scan, a, b) ==
  /\ a \in Nat /\ b \in Nat /\ b <= Len(scan.pages)
  /\ ClosedRange(scan, a, b)
  /\ b < Len(scan.pages) => Separates(scan, b + 1)
RangesTrue(scan, ranges, edge) ==
  /\ ranges \in Seq(Nat \X Nat)
  /\ \A k \in 1..Len(ranges) : RangeTrue(scan, ranges[k][1], ranges[k][2]) /\ ranges[k][2] < edge
  /\ \A j, k \in 1..Len(ranges) : j < k => ranges[j][2] < ranges[k][1]
InSome(ranges, q) == \E k \in 1..Len(ranges) : ranges[k][1] <= q /\ q <= ranges[k][2]
Edge(p, start) == IF start = 0 THEN p ELSE start - 1
RunTrue(scan, p, start, ranges) ==
  /\ start \in 0..p
  /\ start = 0 => p = 0 \/ Separates(scan, p)
  /\ start # 0 => ClosedRange(scan, start, p)
  /\ RangesTrue(scan, ranges, Edge(p, start))
  /\ \A q \in 1..p : ~Separates(scan, q) => (start # 0 /\ start <= q) \/ InSome(ranges, q)

\* One more closed run after the others.
LEMMA RangesAppend ==
  ASSUME NEW scan, NEW ranges, NEW edge \in Nat, NEW top \in Nat, NEW a, NEW b, edge <= top,
         RangesTrue(scan, ranges, edge), RangeTrue(scan, a, b), edge <= a, b < top
  PROVE  /\ RangesTrue(scan, Append(ranges, <<a, b>>), top)
         /\ \A q : InSome(ranges, q) => InSome(Append(ranges, <<a, b>>), q)
         /\ \A q \in a..b : InSome(Append(ranges, <<a, b>>), q)
<1> DEFINE s == Append(ranges, <<a, b>>)
           n == Len(ranges)
<1>1. <<a, b>> \in Nat \X Nat /\ n \in Nat /\ ranges \in Seq(Nat \X Nat) /\ a \in Nat /\ b \in Nat
  BY DEF RangesTrue, RangeTrue
<1>2. s \in Seq(Nat \X Nat) /\ Len(s) = n + 1 /\ (\A k \in 1..n : s[k] = ranges[k]) /\ s[n + 1] = <<a, b>>
  BY <1>1
<1>3. /\ \A k \in 1..n : /\ RangeTrue(scan, ranges[k][1], ranges[k][2]) /\ ranges[k][2] < edge
                         /\ ranges[k][1] \in Nat /\ ranges[k][2] \in Nat
      /\ \A j, k \in 1..n : j < k => ranges[j][2] < ranges[k][1]
  BY DEF RangesTrue, RangeTrue
<1> HIDE DEF s, n
<1>4. ASSUME NEW k \in 1..Len(s) PROVE (k \in 1..n /\ s[k] = ranges[k]) \/ (k = n + 1 /\ s[k][1] = a /\ s[k][2] = b)
  <2>1. k \in 1..n \/ k = n + 1
    BY <1>1, <1>2
  <2> QED
    BY <1>2, <2>1
<1>5. ASSUME NEW k \in 1..Len(s)
      PROVE  RangeTrue(scan, s[k][1], s[k][2]) /\ s[k][2] < top
  <2>1. CASE k \in 1..n /\ s[k] = ranges[k]
    BY <1>3, <2>1
  <2>2. CASE k = n + 1 /\ s[k][1] = a /\ s[k][2] = b
    BY <2>2
  <2> QED
    BY <1>4, <2>1, <2>2
<1>6. ASSUME NEW j \in 1..Len(s), NEW k \in 1..Len(s), j < k
      PROVE  s[j][2] < s[k][1]
  <2>1. j \in 1..n /\ s[j] = ranges[j]
    <3>1. j # n + 1
      BY <1>1, <1>2, <1>6
    <3> QED
      BY <1>4, <3>1
  <2>2. CASE k \in 1..n /\ s[k] = ranges[k]
    BY <1>3, <1>6, <2>1, <2>2
  <2>3. CASE k = n + 1 /\ s[k][1] = a /\ s[k][2] = b
    BY <1>1, <1>3, <2>1, <2>3, SMTT(60)
  <2> QED
    BY <1>4, <2>2, <2>3
<1>7. RangesTrue(scan, s, top)
  BY <1>2, <1>5, <1>6 DEF RangesTrue
<1>8. ASSUME NEW q, InSome(ranges, q) PROVE InSome(s, q)
  <2>1. PICK k \in 1..n : ranges[k][1] <= q /\ q <= ranges[k][2]
    BY <1>8 DEF InSome, n
  <2>2. k \in 1..Len(s) /\ s[k] = ranges[k]
    BY <1>1, <1>2, <2>1
  <2> QED
    BY <2>1, <2>2 DEF InSome
<1>9. ASSUME NEW q \in a..b PROVE InSome(s, q)
  <2>1. n + 1 \in 1..Len(s) /\ s[n + 1][1] <= q /\ q <= s[n + 1][2]
    BY <1>1, <1>2
  <2> QED
    BY <2>1 DEF InSome
<1> QED
  BY <1>7, <1>8, <1>9 DEF s

\* Runs that are right up to a page are right up to a later one.
LEMMA RangesLater ==
  ASSUME NEW scan, NEW ranges, NEW edge \in Nat, NEW top \in Nat, edge <= top, RangesTrue(scan, ranges, edge)
  PROVE  RangesTrue(scan, ranges, top)
<1>1. \A k \in 1..Len(ranges) : ranges[k][2] < edge => ranges[k][2] \in Nat /\ ranges[k][2] < top
  <2>1. \A k \in 1..Len(ranges) : ranges[k][2] \in Nat
    BY DEF RangesTrue, RangeTrue
  <2> QED
    BY <2>1
<1> QED
  BY <1>1 DEF RangesTrue

\* One turn of the loop keeps what is known of the runs (ExtendRun).
LEMMA RunExtends ==
  ASSUME NEW scan, Scannable(scan), NEW p \in 1..Len(scan.pages), NEW r \in Runs, RunTrue(scan, p - 1, r.start, r.ranges)
  PROVE  /\ ExtendRun(r, Separates(scan, p), p) \in Runs
         /\ RunTrue(scan, p, ExtendRun(r, Separates(scan, p), p).start, ExtendRun(r, Separates(scan, p), p).ranges)
<1> DEFINE s == ExtendRun(r, Separates(scan, p), p)
           sep(q) == Separates(scan, q)
<1>1. PICK start, ranges : start = r.start /\ ranges = r.ranges
  OBVIOUS
<1>2. /\ start \in 0..(p - 1)
      /\ start = 0 => p - 1 = 0 \/ sep(p - 1)
      /\ start # 0 => ClosedRange(scan, start, p - 1)
      /\ RangesTrue(scan, ranges, Edge(p - 1, start))
      /\ \A q \in 1..(p - 1) : ~sep(q) => (start # 0 /\ start <= q) \/ InSome(ranges, q)
  BY <1>1 DEF RunTrue
<1>3. p \in Nat /\ p > 0 /\ p - 1 \in Nat /\ sep(p) \in BOOLEAN /\ Len(scan.pages) \in Nat
  BY SeparatorIsBlank DEF Scannable
<1>4. start \in Nat /\ ranges \in Seq(Nat \X Nat) /\ Edge(p - 1, start) \in Nat /\ Edge(p - 1, start) <= p - 1
  BY <1>2, <1>3 DEF RangesTrue, Edge
<1>5. ASSUME NEW from, NEW all, s = [start |-> from, ranges |-> all], from \in Nat, RunTrue(scan, p, from, all)
      PROVE  s \in Runs /\ RunTrue(scan, p, s.start, s.ranges)
  <2>1. all \in Seq(Nat \X Nat)
    BY <1>5 DEF RunTrue, RangesTrue
  <2>2. s \in Runs /\ s.start = from /\ s.ranges = all
    BY <1>5, <2>1 DEF Runs
  <2> HIDE DEF s
  <2> QED
    BY <1>5, <2>2
<1>6. CASE sep(p) /\ start = 0
  <2>1. s = [start |-> 0, ranges |-> ranges]
    BY <1>1, <1>6 DEF ExtendRun
  <2>2. \A q \in 1..p : ~sep(q) => q \in 1..(p - 1)
    BY <1>3, <1>6
  <2>3. RangesTrue(scan, ranges, Edge(p, 0))
    BY <1>2, <1>3, <1>4, <1>6, RangesLater DEF Edge
  <2>4. RunTrue(scan, p, 0, ranges)
    BY <1>2, <1>3, <1>6, <2>2, <2>3 DEF RunTrue
  <2> QED
    BY <1>5, <2>1, <2>4
<1>7. CASE sep(p) /\ start # 0
  <2> DEFINE all == Append(ranges, <<start, p - 1>>)
  <2>1. s = [start |-> 0, ranges |-> all]
    BY <1>1, <1>7 DEF ExtendRun
  <2>2. RangeTrue(scan, start, p - 1)
    BY <1>2, <1>3, <1>4, <1>7 DEF RangeTrue
  <2>3. /\ RangesTrue(scan, all, p)
        /\ \A q : InSome(ranges, q) => InSome(all, q)
        /\ \A q \in (start)..(p - 1) : InSome(all, q)
    <3>1. Edge(p - 1, start) <= start /\ Edge(p - 1, start) <= p /\ p - 1 < p
      BY <1>3, <1>4, <1>7 DEF Edge
    <3> QED
      BY <1>2, <1>3, <1>4, <2>2, <3>1, RangesAppend
  <2> HIDE DEF all
  <2>4. \A q \in 1..p : ~sep(q) => InSome(all, q)
    <3> SUFFICES ASSUME NEW q \in 1..p, ~sep(q) PROVE InSome(all, q)
      OBVIOUS
    <3>1. q \in 1..(p - 1)
      BY <1>3, <1>7
    <3> QED
      BY <1>2, <1>3, <1>4, <2>3, <3>1
  <2>5. RunTrue(scan, p, 0, all)
    BY <1>3, <1>7, <2>3, <2>4 DEF RunTrue, Edge
  <2> QED
    BY <1>5, <2>1, <2>5
<1>8. CASE ~sep(p)
  <2> DEFINE from == IF start = 0 THEN p ELSE start
  <2>1. s = [start |-> from, ranges |-> ranges]
    BY <1>1, <1>8 DEF ExtendRun, Runs
  <2>2. from \in Nat /\ from # 0 /\ from <= p /\ Edge(p, from) = Edge(p - 1, start)
    BY <1>2, <1>3, <1>4 DEF Edge
  <2>3. ClosedRange(scan, from, p)
    <3>1. CASE start = 0
      <4>1. from = p /\ (p > 1 => sep(p - 1)) /\ \A q \in p..p : q = p
        BY <1>2, <1>3, <3>1
      <4> QED
        BY <1>3, <1>8, <4>1 DEF ClosedRange
    <3>2. CASE start # 0
      <4>1. \A q \in (start)..p : q = p \/ q \in (start)..(p - 1)
        BY <1>3, <1>4
      <4> QED
        BY <1>2, <1>3, <1>4, <1>8, <3>2, <4>1 DEF ClosedRange
    <3> QED
      BY <3>1, <3>2
  <2>4. \A q \in 1..p : ~sep(q) => from <= q \/ InSome(ranges, q)
    <3> SUFFICES ASSUME NEW q \in 1..p, ~sep(q) PROVE from <= q \/ InSome(ranges, q)
      OBVIOUS
    <3>1. CASE q = p
      BY <2>2, <3>1
    <3>2. CASE q # p
      <4>1. q \in 1..(p - 1)
        BY <1>3, <3>2
      <4> QED
        BY <1>2, <4>1
    <3> QED
      BY <3>1, <3>2
  <2>5. RunTrue(scan, p, from, ranges)
    <3> HIDE DEF from
    <3> QED
      BY <1>2, <1>3, <2>2, <2>3, <2>4 DEF RunTrue
  <2> QED
    BY <1>5, <2>1, <2>2, <2>5
<1> QED
  BY <1>3, <1>6, <1>7, <1>8

\* What is known of the runs holds after every page.
LEMMA RunsTrue ==
  ASSUME NEW scan, Scannable(scan)
  PROVE  \E start \in Nat, ranges \in Seq(Nat \X Nat) :
           /\ RunAt(scan)[Len(scan.pages)] = [start |-> start, ranges |-> ranges]
           /\ RunTrue(scan, Len(scan.pages), start, ranges)
<1> DEFINE n == Len(scan.pages)
           Good(p) == RunAt(scan)[p] \in Runs /\ RunTrue(scan, p, RunAt(scan)[p].start, RunAt(scan)[p].ranges)
           T == {p \in 0..n : Good(p)}
<1>1. n \in Nat
  BY DEF Scannable
<1>2. 0 \in T
  <2>1. RunAt(scan)[0] = [start |-> 0, ranges |-> <<>>]
    BY RunIs
  <2>2. RunTrue(scan, 0, 0, <<>>)
    BY DEF RunTrue, RangesTrue, Edge
  <2>3. Good(0)
    BY <2>1, <2>2 DEF Runs
  <2> QED
    BY <1>1, <2>3
<1>3. ASSUME NEW p \in 0..(n - 1), p \in T PROVE p + 1 \in T
  <2>1. p + 1 \in 1..n /\ (p + 1) - 1 = p
    BY <1>1
  <2>2. RunAt(scan)[p + 1] = ExtendRun(RunAt(scan)[p], Separates(scan, p + 1), p + 1)
    BY <2>1, RunIs
  <2>3. RunAt(scan)[p] \in Runs /\ RunTrue(scan, (p + 1) - 1, RunAt(scan)[p].start, RunAt(scan)[p].ranges)
    BY <1>3, <2>1
  <2>4. Good(p + 1)
    BY <2>1, <2>2, <2>3, RunExtends
  <2> QED
    BY <2>1, <2>4
<1>4. n \in T
  <2> HIDE DEF T, n
  <2> QED
    BY <1>1, <1>2, <1>3, Steps
<1>5. Good(n)
  BY <1>4
<1>6. PICK r \in Runs : r = RunAt(scan)[n] /\ RunTrue(scan, n, r.start, r.ranges)
  BY <1>5
<1>7. r.start \in Nat /\ r.ranges \in Seq(Nat \X Nat) /\ r = [start |-> r.start, ranges |-> r.ranges]
  BY DEF Runs
<1> QED
  BY <1>6, <1>7

\* Every page with content is in one document, no page without is in any
\* (PdfSplitBlankExecute).
LEMMA ContentIsInRuns ==
  ASSUME NEW scan, Scannable(scan)
  PROVE  ContentInRuns(scan, PdfSplitBlankExecute(scan))
<1> DEFINE n == Len(scan.pages)
           ranges == Ranges(scan)
           m == Len(ranges)
           rows == PdfSplitBlankExecute(scan)
<1>1. n \in Nat
  BY DEF Scannable
<1>2. /\ RangesTrue(scan, ranges, n + 1)
      /\ \A q \in 1..n : ~Separates(scan, q) => InSome(ranges, q)
  <2>1. PICK start \in Nat, closed \in Seq(Nat \X Nat) :
          /\ RunAt(scan)[n] = [start |-> start, ranges |-> closed]
          /\ RunTrue(scan, n, start, closed)
    BY RunsTrue
  <2>2. ranges = IF start = 0 THEN closed ELSE Append(closed, <<start, n>>)
    BY <2>1 DEF Ranges
  <2>3. RangesTrue(scan, closed, Edge(n, start)) /\ Edge(n, start) \in Nat /\ Edge(n, start) <= n
    BY <1>1, <2>1 DEF RunTrue, Edge
  <2> HIDE DEF ranges, n
  <2>4. CASE start = 0
    <3>1. RangesTrue(scan, closed, n + 1)
      BY <1>1, <2>3, RangesLater
    <3> QED
      BY <2>1, <2>2, <2>4, <3>1 DEF RunTrue
  <2>5. CASE start # 0
    <3>1. RangeTrue(scan, start, n)
      BY <1>1, <2>1, <2>5 DEF RunTrue, RangeTrue, n
    <3>2. Edge(n, start) <= start /\ Edge(n, start) <= n + 1 /\ n < n + 1 /\ n + 1 \in Nat
      BY <1>1, <2>1, <2>3, <2>5 DEF Edge
    <3>3. /\ RangesTrue(scan, ranges, n + 1)
          /\ \A q : InSome(closed, q) => InSome(ranges, q)
          /\ \A q \in (start)..n : InSome(ranges, q)
      BY <2>2, <2>3, <2>5, <3>1, <3>2, RangesAppend
    <3>4. ASSUME NEW q \in 1..n, ~Separates(scan, q) PROVE InSome(ranges, q)
      BY <1>1, <2>1, <3>3, <3>4 DEF RunTrue
    <3> QED
      BY <3>3, <3>4
  <2> QED
    BY <2>4, <2>5
<1> HIDE DEF n, ranges
<1>3. m \in Nat /\ DOMAIN ranges = 1..m
  BY <1>2 DEF RangesTrue
<1>4. /\ \A k \in 1..m : RangeTrue(scan, ranges[k][1], ranges[k][2]) /\ ranges[k][1] \in Nat /\ ranges[k][2] \in Nat
      /\ \A j, k \in 1..m : j < k => ranges[j][2] < ranges[k][1]
  BY <1>2 DEF RangesTrue, RangeTrue
<1>5. /\ DOMAIN rows = 1..m
      /\ \A k \in 1..m : /\ rows[k].document = k /\ rows[k].first = ranges[k][1] /\ rows[k].last = ranges[k][2]
                         /\ rows[k].count = ranges[k][2] - ranges[k][1] + 1
  BY <1>3 DEF PdfSplitBlankExecute, ranges
<1>6. \A q \in 1..n : Separates(scan, q) <=> Blank(scan, q)
  BY SeparatorIsBlank DEF n
<1>7. \A q \in 1..n : ~Separates(scan, q) => \E k \in 1..m : ranges[k][1] <= q /\ q <= ranges[k][2]
  BY <1>2 DEF InSome
<1> HIDE DEF m, rows
<1> DEFINE in(p) == {k \in DOMAIN rows : rows[k].first <= p /\ p <= rows[k].last}
<1>8. ASSUME NEW p \in 1..n
      PROVE  IF Blank(scan, p) THEN in(p) = {} ELSE \E k \in DOMAIN rows : in(p) = {k}
  <2>1. ASSUME NEW k \in in(p) PROVE k \in 1..m /\ ranges[k][1] <= p /\ p <= ranges[k][2]
    BY <1>5
  <2>2. CASE Blank(scan, p)
    <3> SUFFICES ASSUME NEW k \in in(p) PROVE FALSE
      BY <2>2
    <3>1. k \in 1..m /\ p \in (ranges[k][1])..(ranges[k][2])
      BY <1>1, <1>4, <2>1
    <3> QED
      BY <1>4, <1>6, <2>2, <3>1 DEF RangeTrue, ClosedRange
  <2>3. CASE ~Blank(scan, p)
    <3>1. PICK k \in 1..m : ranges[k][1] <= p /\ p <= ranges[k][2]
      BY <1>6, <1>7, <2>3
    <3>2. k \in in(p)
      BY <1>5, <3>1
    <3>3. ASSUME NEW j \in in(p) PROVE j = k
      <4>1. j \in 1..m /\ ranges[j][1] <= p /\ p <= ranges[j][2]
        BY <2>1
      <4>2. ~(j < k)
        BY <1>1, <1>4, <3>1, <4>1
      <4>3. ~(k < j)
        BY <1>1, <1>4, <3>1, <4>1
      <4> QED
        BY <1>3, <4>1, <4>2, <4>3
    <3>4. in(p) = {k}
      <4> HIDE DEF in
      <4> QED
        BY <3>2, <3>3
    <3> QED
      BY <1>5, <2>3, <3>4
  <2> QED
    BY <2>2, <2>3
<1>9. ASSUME NEW k \in 1..m
      PROVE  /\ rows[k].document = k
             /\ 1 <= rows[k].first /\ rows[k].last <= n
             /\ rows[k].count = rows[k].last - rows[k].first + 1 /\ rows[k].count > 0
             /\ rows[k].first > 1 => Blank(scan, rows[k].first - 1)
             /\ rows[k].last < n => Blank(scan, rows[k].last + 1)
             /\ k > 1 => rows[k - 1].last < rows[k].first
  <2>1. PICK a \in Nat, b \in Nat : a = ranges[k][1] /\ b = ranges[k][2]
    BY <1>4
  <2>2. rows[k].first = a /\ rows[k].last = b /\ rows[k].document = k /\ rows[k].count = b - a + 1
    BY <1>5, <2>1
  <2>3. /\ 1 <= a /\ a <= b /\ b <= n
        /\ a > 1 => Separates(scan, a - 1)
        /\ b < n => Separates(scan, b + 1)
    BY <1>4, <2>1 DEF RangeTrue, ClosedRange, n
  <2>4. (a > 1 => a - 1 \in 1..n) /\ (b < n => b + 1 \in 1..n) /\ b - a + 1 > 0
    BY <1>1, <2>3
  <2>5. ASSUME k > 1 PROVE rows[k - 1].last < a
    <3>1. k - 1 \in 1..m /\ k - 1 < k
      BY <1>3, <2>5
    <3>2. rows[k - 1].last = ranges[k - 1][2] /\ ranges[k - 1][2] < ranges[k][1]
      BY <1>4, <1>5, <3>1
    <3> QED
      BY <2>1, <3>2
  <2> QED
    BY <1>6, <2>2, <2>3, <2>4, <2>5
<1> QED
  BY <1>5, <1>8, <1>9 DEF ContentInRuns, n, rows

-----------------------------------------------------------------------------
(* Stamps.                                                                 *)

Dictionaries == UNION {[keys -> Nat] : keys \in {k \in SUBSET Nat : IsFiniteSet(k)}}
StampStates(job) ==
  [doc : [pages : {job.doc.pages}, fonts : [DOMAIN job.doc.fonts -> Dictionaries],
          content : [1..Len(job.doc.pages) -> Seq(Operators)]],
   number : Int, drawn : Seq([key : Nat, label : [minus : BOOLEAN, magnitude : Int]])]

\* A dictionary of a document is one of finitely many fonts.
LEMMA DictionaryIs ==
  ASSUME NEW fonts
  PROVE  Dictionary(fonts) <=> fonts \in Dictionaries
<1>1. ASSUME Dictionary(fonts) PROVE fonts \in Dictionaries
  BY <1>1 DEF Dictionary, Dictionaries
<1>2. ASSUME fonts \in Dictionaries PROVE Dictionary(fonts)
  <2>1. PICK keys \in SUBSET Nat : IsFiniteSet(keys) /\ fonts \in [keys -> Nat]
    BY <1>2 DEF Dictionaries
  <2>2. DOMAIN fonts = keys
    BY <2>1
  <2> QED
    BY <2>1, <2>2 DEF Dictionary
<1> QED
  BY <1>1, <1>2

\* The key of an added font is new to its dictionary.
LEMMA NewFont ==
  ASSUME NEW fonts, Dictionary(fonts)
  PROVE  NewKey(fonts) \in Nat /\ NewKey(fonts) \notin DOMAIN fonts
<1> DEFINE names == DOMAIN fonts
           n == Cardinality(names)
<1>1. n \in Nat
  BY FS_CardinalityType DEF Dictionary
<1>2. IsFiniteSet(0..n) /\ Cardinality(0..n) = n + 1
  BY <1>1, FS_Interval
<1>3. ~(0..n \subseteq names)
  <2> SUFFICES ASSUME 0..n \subseteq names PROVE FALSE
    OBVIOUS
  <2>1. Cardinality(0..n) <= n
    BY FS_Subset DEF Dictionary
  <2> QED
    BY <1>1, <1>2, <2>1
<1> DEFINE free == {k \in 0..n : k \notin names}
<1>4. free \in SUBSET Nat /\ free # {}
  BY <1>1, <1>3
<1>5. Min(free) \in free
  BY <1>4, SmallestOf
<1> QED
  BY <1>4, <1>5 DEF NewKey

\* What one page of the loop does.
StampState(sheets, fonts, content, number, drawn) ==
  [doc |-> [pages |-> sheets, fonts |-> fonts, content |-> content], number |-> number, drawn |-> drawn]
Wrapped(content, p) == [content EXCEPT ![p] = <<"q">> \o content[p] \o <<"Q", "drawing">>]
WithFont(fonts, d, p) ==
  [fonts EXCEPT ![d] = [k \in DOMAIN fonts[d] \cup {NewKey(fonts[d])} |-> IF k = NewKey(fonts[d]) THEN p ELSE fonts[d][k]]]
Drawing(fonts, d, number, labelled) ==
  [key |-> NewKey(fonts[d]), label |-> IF labelled THEN Label(number) ELSE Label(0)]
NextState(sheets, fonts, content, number, drawn, p, labelled) ==
  StampState(sheets, WithFont(fonts, sheets[p], p), Wrapped(content, p),
             IF labelled THEN Increment(number) ELSE number,
             Append(drawn, Drawing(fonts, sheets[p], number, labelled)))

\* One page of the loop, part by part (StampPage).
LEMMA StampPageIs ==
  ASSUME NEW job, NEW sheets, NEW fonts, NEW content, NEW number \in Int, NEW drawn, NEW labelled \in BOOLEAN,
         NEW p \in 1..Len(job.doc.pages), Stampable(job), MaxNumber \in Nat,
         StampState(sheets, fonts, content, number, drawn) \in StampStates(job)
  PROVE  /\ StampPage(StampState(sheets, fonts, content, number, drawn), p, labelled)
              = NextState(sheets, fonts, content, number, drawn, p, labelled)
         /\ NextState(sheets, fonts, content, number, drawn, p, labelled) \in StampStates(job)
<1> DEFINE n == Len(job.doc.pages)
           d == sheets[p]
           key == NewKey(fonts[d])
           wrapped == [content EXCEPT ![p] = <<"q">> \o content[p] \o <<"Q", "drawing">>]
           grown == [k \in DOMAIN fonts[d] \cup {key} |-> IF k = key THEN p ELSE fonts[d][k]]
           added == [fonts EXCEPT ![d] = grown]
           state == [doc |-> [pages |-> sheets, fonts |-> fonts, content |-> content], number |-> number, drawn |-> drawn]
           next == IF labelled THEN Increment(number) ELSE number
           label == IF labelled THEN Label(number) ELSE Label(0)
<1>0. state = StampState(sheets, fonts, content, number, drawn)
  BY DEF StampState
<1>1. /\ sheets = job.doc.pages /\ fonts \in [DOMAIN job.doc.fonts -> Dictionaries]
      /\ content \in [1..n -> Seq(Operators)]
      /\ drawn \in Seq([key : Nat, label : [minus : BOOLEAN, magnitude : Int]])
  BY <1>0 DEF StampStates
<1>2. n \in Nat /\ d \in DOMAIN job.doc.fonts
  BY <1>1 DEF Stampable
<1>3. fonts[d] \in Dictionaries
  BY <1>1, <1>2
<1>4. Dictionary(fonts[d])
  BY <1>3, DictionaryIs
<1>5. key \in Nat /\ key \notin DOMAIN fonts[d]
  BY <1>4, NewFont
<1>6. Dictionary(grown)
  <2>1. DOMAIN grown = DOMAIN fonts[d] \cup {key}
    OBVIOUS
  <2>2. IsFiniteSet(DOMAIN fonts[d] \cup {key})
    BY <1>4, FS_AddElement DEF Dictionary
  <2>3. \A k \in DOMAIN fonts[d] : fonts[d][k] \in Nat
    BY <1>4 DEF Dictionary
  <2>4. grown \in [DOMAIN fonts[d] \cup {key} -> Nat]
    BY <2>3
  <2> QED
    BY <1>4, <1>5, <2>1, <2>2, <2>4 DEF Dictionary
<1>7. added \in [DOMAIN job.doc.fonts -> Dictionaries]
  <2>1. grown \in Dictionaries
    BY <1>6, DictionaryIs
  <2> HIDE DEF grown
  <2> QED
    BY <1>1, <1>2, <2>1
<1>8. wrapped \in [1..n -> Seq(Operators)]
  <2>1. content[p] \in Seq(Operators)
    BY <1>1
  <2>2. <<"q">> \in Seq(Operators) /\ <<"Q", "drawing">> \in Seq(Operators)
    BY DEF Operators
  <2>3. <<"q">> \o content[p] \in Seq(Operators)
    BY <2>1, <2>2
  <2>4. <<"q">> \o content[p] \o <<"Q", "drawing">> \in Seq(Operators)
    BY <2>2, <2>3
  <2> QED
    BY <1>1, <2>4
<1>9. label \in [minus : BOOLEAN, magnitude : Int] /\ next \in Int
  BY DEF Label, Increment, MinNumber
<1>10. StampPage(state, p, labelled) =
         [doc |-> [pages |-> sheets, fonts |-> added, content |-> wrapped],
          number |-> next, drawn |-> Append(drawn, [key |-> key, label |-> label])]
  <2>1. AddHelvetica(state.doc, p) = [fonts |-> added, key |-> key]
    BY DEF AddHelvetica
  <2>2. state.doc = [pages |-> sheets, fonts |-> fonts, content |-> content] /\ state.number = number /\ state.drawn = drawn
    OBVIOUS
  <2>3. [state.doc.content EXCEPT ![p] = <<"q">> \o @ \o <<"Q", "drawing">>] = wrapped /\ state.doc.pages = sheets
    BY <2>2
  <2> HIDE DEF state, added, key, wrapped, next, label
  <2>4. StampPage(state, p, labelled) =
          [doc |-> [pages |-> state.doc.pages, fonts |-> added,
                    content |-> [state.doc.content EXCEPT ![p] = <<"q">> \o @ \o <<"Q", "drawing">>]],
           number |-> IF labelled THEN Increment(state.number) ELSE state.number,
           drawn |-> Append(state.drawn, [key |-> key, label |-> IF labelled THEN Label(state.number) ELSE Label(0)])]
    BY <2>1 DEF StampPage
  <2> QED
    BY <2>2, <2>3, <2>4 DEF next, label
<1> HIDE DEF added, wrapped, next, label, key, d
<1>11. Append(drawn, [key |-> key, label |-> label]) \in Seq([key : Nat, label : [minus : BOOLEAN, magnitude : Int]])
  BY <1>1, <1>5, <1>9
<1>12. [doc |-> [pages |-> sheets, fonts |-> added, content |-> wrapped],
        number |-> next, drawn |-> Append(drawn, [key |-> key, label |-> label])] \in StampStates(job)
  BY <1>1, <1>7, <1>8, <1>9, <1>11 DEF StampStates
<1>13. NextState(sheets, fonts, content, number, drawn, p, labelled)
         = [doc |-> [pages |-> sheets, fonts |-> added, content |-> wrapped],
            number |-> next, drawn |-> Append(drawn, [key |-> key, label |-> label])]
  BY DEF NextState, StampState, WithFont, Wrapped, Drawing, added, wrapped, next, label, key, d
<1> QED
  BY <1>0, <1>10, <1>12, <1>13

\* A state of the loop is given by its parts.
LEMMA StatesAre ==
  ASSUME NEW job, NEW s \in StampStates(job)
  PROVE  \E sheets, fonts, content, number, drawn : number \in Int /\ s = StampState(sheets, fonts, content, number, drawn)
<1>1. s = [doc |-> s.doc, number |-> s.number, drawn |-> s.drawn] /\ s.number \in Int
      /\ s.doc = [pages |-> s.doc.pages, fonts |-> s.doc.fonts, content |-> s.doc.content]
  BY DEF StampStates
<1>2. s = StampState(s.doc.pages, s.doc.fonts, s.doc.content, s.number, s.drawn)
  BY <1>1 DEF StampState
<1> WITNESS s.doc.pages, s.doc.fonts, s.doc.content, s.number, s.drawn
<1> QED
  BY <1>1, <1>2

\* The loop over the pages is defined, and each turn follows from the one before (Stamped).
LEMMA StampedIs ==
  ASSUME NEW job, Stampable(job), MaxNumber \in Nat
  PROVE  /\ Stamped(job)[0] = [doc |-> job.doc, number |-> job.start, drawn |-> <<>>]
         /\ \A p \in 1..Len(job.doc.pages) : Stamped(job)[p] = StampPage(Stamped(job)[p - 1], p, job.bates)
         /\ \A p \in 0..Len(job.doc.pages) : Stamped(job)[p] \in StampStates(job)
<1> DEFINE n == Len(job.doc.pages)
           X == StampStates(job)
           base == [doc |-> job.doc, number |-> job.start, drawn |-> <<>>]
           step == [x \in X \X (1..n) |-> StampPage(x[1], x[2], job.bates)]
           Eq(state) == state = [p \in 0..n |-> IF p = 0 THEN base ELSE StampPage(state[p - 1], p, job.bates)]
           state == CHOOSE state : Eq(state)
<1>1. n \in Nat
  BY DEF Stampable
<1>2. base \in X
  <2>1. \A d \in DOMAIN job.doc.fonts : job.doc.fonts[d] \in Dictionaries
    BY DictionaryIs DEF Stampable
  <2>2. job.doc.fonts \in [DOMAIN job.doc.fonts -> Dictionaries]
    BY <2>1 DEF Stampable
  <2>3. job.start \in Int
    BY DEF Stampable, MinNumber
  <2> QED
    BY <2>2, <2>3 DEF StampStates, Stampable
<1>3. ASSUME NEW s \in X, NEW p \in 1..n PROVE StampPage(s, p, job.bates) \in X
  <2>1. PICK sheets, fonts, content, number, drawn : number \in Int /\ s = StampState(sheets, fonts, content, number, drawn)
    BY StatesAre
  <2>2. job.bates \in BOOLEAN
    BY DEF Stampable
  <2> QED
    BY <2>1, <2>2, StampPageIs
<1>4. step \in [X \X (1..n) -> X]
  <2> SUFFICES ASSUME NEW x \in X \X (1..n) PROVE StampPage(x[1], x[2], job.bates) \in X
    OBVIOUS
  <2>1. x[1] \in X /\ x[2] \in 1..n
    OBVIOUS
  <2> QED
    BY <1>3, <2>1
<1>5. PICK f \in [0..n -> X] : Recurs(f, n, base, step)
  <2> HIDE DEF step, n, base, X
  <2> QED
    BY <1>1, <1>2, <1>4, Recursion
<1>6. f[0] = base /\ \A p \in 1..n : f[p] = step[<<f[p - 1], p>>]
  BY <1>5 DEF Recurs
<1>7. ASSUME NEW p \in 1..n PROVE f[p] = StampPage(f[p - 1], p, job.bates)
  <2>1. f[p - 1] \in X
    BY <1>1
  <2>2. step[<<f[p - 1], p>>] = StampPage(f[p - 1], p, job.bates)
    BY <2>1
  <2> QED
    BY <1>6, <2>2
<1>8. Eq(f)
  <2>1. f = [p \in 0..n |-> f[p]]
    OBVIOUS
  <2>2. \A p \in 0..n : p # 0 => p \in 1..n
    BY <1>1
  <2> HIDE DEF n, base, step, X
  <2>3. \A p \in 0..n : f[p] = IF p = 0 THEN base ELSE StampPage(f[p - 1], p, job.bates)
    BY <1>6, <1>7, <2>2
  <2> QED
    BY <2>1, <2>3
<1>9. Eq(state)
  BY <1>8
<1>10. Stamped(job) = state
  BY DEF Stamped
<1> HIDE DEF state, step
<1>11. \A p \in 0..n : state[p] = IF p = 0 THEN base ELSE StampPage(state[p - 1], p, job.bates)
  <2> HIDE DEF n, base
  <2> QED
    BY <1>9
<1>12. \A p \in 1..n : p \in 0..n /\ p # 0
  BY <1>1
<1>13. state[0] = base /\ \A p \in 1..n : state[p] = StampPage(state[p - 1], p, job.bates)
  <2>1. 0 \in 0..n
    BY <1>1
  <2> HIDE DEF n, base
  <2> QED
    BY <1>11, <1>12, <2>1
<1> DEFINE T == {p \in 0..n : state[p] \in X}
<1>14. 0 \in T
  BY <1>1, <1>2, <1>13
<1>15. ASSUME NEW p \in 0..(n - 1), p \in T PROVE p + 1 \in T
  <2>1. p + 1 \in 1..n /\ (p + 1) - 1 = p /\ p + 1 \in 0..n
    BY <1>1
  <2>2. state[p] \in X
    BY <1>15
  <2>3. StampPage(state[p], p + 1, job.bates) \in X
    BY <1>3, <2>1, <2>2
  <2>4. state[p + 1] = StampPage(state[p], p + 1, job.bates)
    BY <1>13, <2>1
  <2> QED
    BY <2>1, <2>3, <2>4
<1>16. \A p \in 0..n : p \in T
  <2> HIDE DEF T, n
  <2> QED
    BY <1>1, <1>14, <1>15, Steps
<1> QED
  BY <1>10, <1>13, <1>16

\* What is known after p pages: what they added is in the fonts, what the document had
\* too, and the numbers follow each other while they fit.
StampedTo(job, p, fonts, content, number, drawn) ==
  /\ fonts \in [DOMAIN job.doc.fonts -> Dictionaries]
  /\ \A d \in DOMAIN fonts : \A k \in DOMAIN job.doc.fonts[d] : k \in DOMAIN fonts[d] /\ fonts[d][k] = job.doc.fonts[d][k]
  /\ Len(drawn) = p
  /\ \A q \in 1..p :
       LET d == job.doc.pages[q]
       IN drawn[q].key \in DOMAIN fonts[d] /\ fonts[d][drawn[q].key] = q
  /\ \A q \in 1..Len(job.doc.pages) :
       content[q] = IF q <= p THEN <<"q">> \o job.doc.content[q] \o <<"Q", "drawing">> ELSE job.doc.content[q]
  /\ job.bates => /\ job.start + p <= MaxNumber => number = job.start + p
                  /\ \A q \in 1..p : job.start + q - 1 <= MaxNumber => Value(drawn[q].label) = job.start + q - 1

\* One more page is stamped, and the pages before it stay so.
LEMMA StampedMore ==
  ASSUME NEW job, NEW fonts, NEW content, NEW number \in Int, NEW drawn, NEW p \in 1..Len(job.doc.pages), Stampable(job), MaxNumber \in Nat,
         StampState(job.doc.pages, fonts, content, number, drawn) \in StampStates(job),
         StampedTo(job, p - 1, fonts, content, number, drawn)
  PROVE  StampedTo(job, p, WithFont(fonts, job.doc.pages[p], p), Wrapped(content, p),
                   IF job.bates THEN Increment(number) ELSE number,
                   Append(drawn, Drawing(fonts, job.doc.pages[p], number, job.bates)))
<1> DEFINE n == Len(job.doc.pages)
           d == job.doc.pages[p]
           key == NewKey(fonts[d])
           wrapped == Wrapped(content, p)
           added == WithFont(fonts, d, p)
           next == IF job.bates THEN Increment(number) ELSE number
           drawing == Drawing(fonts, d, number, job.bates)
           all == Append(drawn, drawing)
           D == DOMAIN job.doc.fonts
<1>1. /\ n \in Nat /\ p \in Nat /\ p > 0 /\ p <= n /\ d \in D /\ job.start \in Int /\ job.start <= MaxNumber /\ job.bates \in BOOLEAN
      /\ \A q \in 1..n : job.doc.pages[q] \in D
  BY DEF Stampable, MinNumber
<1>2. fonts \in [D -> Dictionaries]
  BY DEF StampedTo
<1>3. Dictionary(fonts[d])
  <2>1. fonts[d] \in Dictionaries
    BY <1>1, <1>2
  <2> QED
    BY <2>1, DictionaryIs
<1>4. key \in Nat /\ key \notin DOMAIN fonts[d]
  BY <1>3, NewFont
<1>5. /\ added \in [D -> Dictionaries]
      /\ content \in [1..n -> Seq(Operators)]
      /\ drawn \in Seq([key : Nat, label : [minus : BOOLEAN, magnitude : Int]])
  <2>1. StampState(job.doc.pages, added, wrapped, next, all) \in StampStates(job)
    BY <1>1, StampPageIs DEF NextState
  <2> HIDE DEF added
  <2> QED
    BY <2>1 DEF StampStates, StampState
<1>6. \A e \in D : e # d => added[e] = fonts[e]
  BY <1>1, <1>2 DEF WithFont
<1>7. /\ DOMAIN added[d] = DOMAIN fonts[d] \cup {key}
      /\ added[d][key] = p
      /\ \A k \in DOMAIN fonts[d] : added[d][k] = fonts[d][k]
  <2> DEFINE grown == [k \in DOMAIN fonts[d] \cup {key} |-> IF k = key THEN p ELSE fonts[d][k]]
  <2>1. added[d] = grown
    BY <1>1, <1>2, SMTT(60) DEF WithFont
  <2>2. DOMAIN grown = DOMAIN fonts[d] \cup {key} /\ grown[key] = p /\ \A k \in DOMAIN fonts[d] : grown[k] = fonts[d][k]
    BY <1>4
  <2> HIDE DEF grown, added
  <2> QED
    BY <2>1, <2>2
<1>8. drawing.key = key /\ (job.bates => drawing.label = Label(number))
  BY DEF Drawing
<1> HIDE DEF added, key, wrapped, drawing, next, D, n, d
<1>9. Len(drawn) = p - 1 /\ Len(all) = p /\ all[p] = drawing /\ \A q \in 1..(p - 1) : all[q] = drawn[q]
  <2>1. Len(drawn) = p - 1
    BY DEF StampedTo
  <2> QED
    BY <1>1, <1>5, <2>1
<1> HIDE DEF all
<1>10. ASSUME NEW e \in D, NEW k \in DOMAIN fonts[e]
       PROVE  k \in DOMAIN added[e] /\ added[e][k] = fonts[e][k]
  BY <1>6, <1>7
<1>11. \A e \in D : \A k \in DOMAIN job.doc.fonts[e] : k \in DOMAIN added[e] /\ added[e][k] = job.doc.fonts[e][k]
  <2>1. \A e \in D : \A k \in DOMAIN job.doc.fonts[e] : k \in DOMAIN fonts[e] /\ fonts[e][k] = job.doc.fonts[e][k]
    BY <1>2 DEF StampedTo
  <2> QED
    BY <1>10, <2>1
<1>12. ASSUME NEW q \in 1..p
       PROVE  all[q].key \in DOMAIN added[job.doc.pages[q]] /\ added[job.doc.pages[q]][all[q].key] = q
  <2>1. CASE q = p
    BY <1>7, <1>8, <1>9, <2>1 DEF d
  <2>2. CASE q # p
    <3>1. q \in 1..(p - 1) /\ q \in 1..n
      BY <1>1, <2>2
    <3>2. all[q] = drawn[q] /\ job.doc.pages[q] \in D
      BY <1>1, <1>9, <3>1
    <3>3. drawn[q].key \in DOMAIN fonts[job.doc.pages[q]] /\ fonts[job.doc.pages[q]][drawn[q].key] = q
      BY <3>1 DEF StampedTo
    <3> QED
      BY <1>10, <3>2, <3>3
  <2> QED
    BY <2>1, <2>2
<1>13. ASSUME NEW q \in 1..n
       PROVE  wrapped[q] = IF q <= p THEN <<"q">> \o job.doc.content[q] \o <<"Q", "drawing">> ELSE job.doc.content[q]
  <2>1. content[q] = IF q <= p - 1 THEN <<"q">> \o job.doc.content[q] \o <<"Q", "drawing">> ELSE job.doc.content[q]
    BY DEF StampedTo, n
  <2>2. wrapped[q] = IF q = p THEN <<"q">> \o content[q] \o <<"Q", "drawing">> ELSE content[q]
    BY <1>1, <1>5 DEF wrapped, Wrapped
  <2>3. CASE q = p
    <3>1. ~(q <= p - 1) /\ q <= p
      BY <1>1, <2>3
    <3> QED
      BY <2>1, <2>2, <2>3, <3>1
  <2>4. CASE q # p
    <3>1. q <= p - 1 <=> q <= p
      BY <1>1, <2>4
    <3> QED
      BY <2>1, <2>2, <2>4, <3>1
  <2> QED
    BY <2>3, <2>4
<1>14. ASSUME job.bates
       PROVE  /\ job.start + p <= MaxNumber => next = job.start + p
              /\ \A q \in 1..p : job.start + q - 1 <= MaxNumber => Value(all[q].label) = job.start + q - 1
  <2>1. job.start + (p - 1) <= MaxNumber => number = job.start + (p - 1)
    BY <1>14 DEF StampedTo
  <2>2. job.start + p <= MaxNumber => next = job.start + p
    <3> SUFFICES ASSUME job.start + p <= MaxNumber PROVE next = job.start + p
      OBVIOUS
    <3>1. number = job.start + (p - 1) /\ number # MaxNumber
      BY <1>1, <2>1
    <3> QED
      BY <1>1, <1>14, <3>1 DEF next, Increment
  <2>3. ASSUME NEW q \in 1..p, job.start + q - 1 <= MaxNumber PROVE Value(all[q].label) = job.start + q - 1
    <3>1. CASE q = p
      <4>1. number = job.start + p - 1
        BY <1>1, <2>1, <2>3, <3>1
      <4>2. Value(Label(number)) = number
        <5>1. number < 0 => -((-(number + 1)) + 1) = number
          OBVIOUS
        <5>2. Value(Label(number)) = IF number < 0 THEN -((-(number + 1)) + 1) ELSE number
          BY DEF Value, Label
        <5> QED
          BY <5>1, <5>2
      <4> QED
        BY <1>8, <1>9, <1>14, <3>1, <4>1, <4>2
    <3>2. CASE q # p
      <4>1. q \in 1..(p - 1)
        BY <1>1, <3>2
      <4> QED
        BY <1>9, <1>14, <2>3, <4>1 DEF StampedTo
    <3> QED
      BY <3>1, <3>2
  <2> QED
    BY <2>2, <2>3
<1>15. DOMAIN added = D
  BY <1>5, SMTT(60)
<1>16. StampedTo(job, p, added, wrapped, next, all)
  BY <1>5, <1>9, <1>11, <1>12, <1>13, <1>14, <1>15, SMTT(60) DEF StampedTo, D, n
<1> QED
  BY <1>16 DEF added, wrapped, next, all, drawing, d

\* A stamp reaches every page with a font of its own, and Bates numbers follow each
\* other (Watermark, Bates).
LEMMA EveryPageStamped ==
  ASSUME NEW job, Stampable(job), MaxNumber \in Nat
  PROVE  OwnStamps(job, Stamp(job))
<1> DEFINE n == Len(job.doc.pages)
           at(p) == Stamped(job)[p]
           Good(p) == StampedTo(job, p, at(p).doc.fonts, at(p).doc.content, at(p).number, at(p).drawn)
           T == {p \in 0..n : Good(p)}
<1>1. n \in Nat /\ \A q \in 1..n : job.doc.pages[q] \in DOMAIN job.doc.fonts
  BY DEF Stampable
<1>2. ASSUME NEW p \in 0..n
      PROVE  /\ at(p) \in StampStates(job)
             /\ at(p) = StampState(job.doc.pages, at(p).doc.fonts, at(p).doc.content, at(p).number, at(p).drawn)
             /\ at(p).number \in Int
  <2>1. at(p) \in StampStates(job)
    BY StampedIs
  <2>2. PICK s \in StampStates(job) : s = at(p)
    BY <2>1
  <2>3. /\ s = [doc |-> s.doc, number |-> s.number, drawn |-> s.drawn] /\ s.number \in Int
        /\ s.doc = [pages |-> job.doc.pages, fonts |-> s.doc.fonts, content |-> s.doc.content]
    BY DEF StampStates
  <2>4. s = StampState(job.doc.pages, s.doc.fonts, s.doc.content, s.number, s.drawn)
    BY <2>3 DEF StampState
  <2> QED
    BY <2>2, <2>3, <2>4
<1>3. 0 \in T
  <2>1. at(0) = [doc |-> job.doc, number |-> job.start, drawn |-> <<>>]
    BY StampedIs
  <2>2. \A d \in DOMAIN job.doc.fonts : job.doc.fonts[d] \in Dictionaries
    BY DictionaryIs DEF Stampable
  <2>3. job.doc.fonts \in [DOMAIN job.doc.fonts -> Dictionaries]
    BY <2>2 DEF Stampable
  <2>4. job.start \in Int
    BY DEF Stampable, MinNumber
  <2>5. StampedTo(job, 0, job.doc.fonts, job.doc.content, job.start, <<>>)
    BY <1>1, <2>3, <2>4 DEF StampedTo
  <2>6. Good(0)
    BY <2>1, <2>5
  <2> QED
    BY <1>1, <2>6
<1>4. ASSUME NEW p \in 0..(n - 1), p \in T PROVE p + 1 \in T
  <2>1. p + 1 \in 1..n /\ (p + 1) - 1 = p /\ p \in 0..n /\ p + 1 \in 0..n
    BY <1>1
  <2>2. PICK fonts, content, number, drawn :
          /\ fonts = at(p).doc.fonts /\ content = at(p).doc.content /\ number = at(p).number /\ drawn = at(p).drawn
    OBVIOUS
  <2>3. /\ at(p) = StampState(job.doc.pages, fonts, content, number, drawn)
        /\ at(p) \in StampStates(job) /\ number \in Int
        /\ StampedTo(job, p, fonts, content, number, drawn)
    BY <1>2, <1>4, <2>1, <2>2
  <2>4. at(p + 1) = StampPage(at(p), p + 1, job.bates)
    BY <2>1, StampedIs
  <2>5. job.bates \in BOOLEAN
    BY DEF Stampable
  <2>6. at(p + 1) = NextState(job.doc.pages, fonts, content, number, drawn, p + 1, job.bates)
    BY <2>1, <2>3, <2>4, <2>5, StampPageIs
  <2> DEFINE f == WithFont(fonts, job.doc.pages[p + 1], p + 1)
             c == Wrapped(content, p + 1)
             k == IF job.bates THEN Increment(number) ELSE number
             w == Append(drawn, Drawing(fonts, job.doc.pages[p + 1], number, job.bates))
  <2>7. StampedTo(job, p + 1, f, c, k, w)
    BY <2>1, <2>3, StampedMore
  <2>8. at(p + 1) = StampState(job.doc.pages, f, c, k, w)
    BY <2>6 DEF NextState
  <2> HIDE DEF f, c, k, w
  <2>9. Good(p + 1)
    BY <2>7, <2>8 DEF StampState
  <2> QED
    BY <2>1, <2>9
<1>5. n \in T
  <2> HIDE DEF T, n
  <2> QED
    BY <1>1, <1>3, <1>4, Steps
<1>6. PICK fonts, content, number, drawn :
        /\ Stamp(job) = StampState(job.doc.pages, fonts, content, number, drawn)
        /\ StampedTo(job, n, fonts, content, number, drawn)
  <2>1. n \in 0..n
    BY <1>1
  <2> QED
    BY <1>2, <1>5, <2>1 DEF Stamp
<1>7. /\ Stamp(job).drawn = drawn /\ Stamp(job).doc.fonts = fonts /\ Stamp(job).doc.content = content
      /\ Stamp(job).doc.pages = job.doc.pages
  BY <1>6 DEF StampState
<1>8. DOMAIN job.doc.pages = 1..n /\ DOMAIN fonts = DOMAIN job.doc.fonts
  BY <1>6 DEF Stampable, StampedTo
<1>9. ASSUME NEW p \in 1..n
      PROVE  /\ fonts[job.doc.pages[p]][drawn[p].key] = p
             /\ \A k \in DOMAIN job.doc.fonts[job.doc.pages[p]] : fonts[job.doc.pages[p]][k] = job.doc.fonts[job.doc.pages[p]][k]
             /\ content[p] = <<"q">> \o job.doc.content[p] \o <<"Q", "drawing">>
  <2>1. job.doc.pages[p] \in DOMAIN fonts /\ p <= n
    BY <1>1, <1>8
  <2>2. content[p] = <<"q">> \o job.doc.content[p] \o <<"Q", "drawing">>
    BY <1>6, <2>1 DEF StampedTo
  <2> QED
    BY <1>6, <2>1, <2>2 DEF StampedTo
<1>10. ASSUME job.bates, job.start + n - 1 <= MaxNumber
       PROVE  \A p \in 1..n : Value(drawn[p].label) = job.start + p - 1
  <2> SUFFICES ASSUME NEW p \in 1..n PROVE Value(drawn[p].label) = job.start + p - 1
    OBVIOUS
  <2>1. job.start \in Int
    BY DEF Stampable, MinNumber
  <2>2. job.start + p - 1 <= MaxNumber
    BY <1>1, <1>10, <2>1
  <2> QED
    BY <1>6, <1>10, <2>2 DEF StampedTo
<1>11. Len(drawn) = n
  BY <1>6 DEF StampedTo
<1> HIDE DEF n
<1>12. OwnStamps(job, Stamp(job)) <=>
         /\ Len(drawn) = n
         /\ \A p \in DOMAIN job.doc.pages :
              /\ fonts[job.doc.pages[p]][drawn[p].key] = p
              /\ \A k \in DOMAIN job.doc.fonts[job.doc.pages[p]] : fonts[job.doc.pages[p]][k] = job.doc.fonts[job.doc.pages[p]][k]
              /\ content[p] = <<"q">> \o job.doc.content[p] \o <<"Q", "drawing">>
         /\ job.bates /\ job.start + n - 1 <= MaxNumber =>
              \A p \in DOMAIN job.doc.pages : Value(drawn[p].label) = job.start + p - 1
  BY <1>7 DEF OwnStamps, n
<1> QED
  BY <1>8, <1>9, <1>10, <1>11, <1>12

-----------------------------------------------------------------------------
(* Signature.                                                              *)

\* A search finds a token of the kind, if there is one (FirstToken).
LEMMA FirstTokenIs ==
  ASSUME NEW S, NEW file \in Seq(S), NEW kind, NEW i \in 1..Len(file), file[i].kind = kind
  PROVE  FirstToken(file, kind) \in 1..Len(file) /\ file[FirstToken(file, kind)].kind = kind
<1> DEFINE I == {k \in 1..Len(file) : file[k].kind = kind}
<1>1. I \in SUBSET Nat /\ I # {}
  OBVIOUS
<1>2. Min(I) \in I
  BY <1>1, SmallestOf
<1>3. FirstToken(file, kind) = Min(I)
  BY <1>1 DEF FirstToken, SelectInSeq
<1> QED
  BY <1>2, <1>3

\* The token of the new signature is found when there is one (Mine).
LEMMA MineIs ==
  ASSUME NEW S, NEW file \in Seq(S), NEW kind, NEW i \in 1..Len(file),
         \A k \in 1..Len(file) : file[k].kind = kind /\ file[k].mine <=> k = i
  PROVE  Mine(file, kind) = i
<1> DEFINE I == {k \in 1..Len(file) : file[k].kind = kind /\ file[k].mine}
<1>1. I \in SUBSET Nat /\ I = {i}
  OBVIOUS
<1>2. Min(I) \in I
  BY <1>1, SmallestOf
<1>3. Mine(file, kind) = Min(I)
  BY <1>1 DEF Mine, SelectInSeq
<1> QED
  BY <1>1, <1>2, <1>3

\* n tokens of a file but one.
Without(file, c, n) == SubSeq(file, 1, c - 1) \o SubSeq(file, c + 1, n)

\* The bytes of a file without one of them.
LEMMA WithoutIs ==
  ASSUME NEW S, NEW file \in Seq(S), NEW n \in 0..Len(file), NEW c \in 1..n
  PROVE  /\ Without(file, c, n) \in Seq(S)
         /\ Len(Without(file, c, n)) = n - 1
         /\ \A k \in 1..(n - 1) : Without(file, c, n)[k] = file[IF k < c THEN k ELSE k + 1]
<1> DEFINE a == SubSeq(file, 1, c - 1)
           b == SubSeq(file, c + 1, n)
<1>1. n \in Nat /\ c \in Nat /\ 1 <= c /\ c <= n /\ Len(file) \in Nat /\ n <= Len(file)
  OBVIOUS
<1>2. a \in Seq(S) /\ Len(a) = c - 1 /\ \A k \in 1..(c - 1) : a[k] = file[k]
  <2>1. \A k \in 1..(c - 1) : file[k] \in S
    BY <1>1
  <2>2. /\ a \in Seq(S) /\ Len(a) = (IF 1 <= c - 1 THEN (c - 1) - 1 + 1 ELSE 0)
        /\ \A k \in 1..((c - 1) - 1 + 1) : a[k] = file[1 + k - 1]
    BY <1>1, <2>1, SubSeqProperties
  <2> QED
    BY <1>1, <2>2
<1>3. b \in Seq(S) /\ Len(b) = n - c /\ \A k \in 1..(n - c) : b[k] = file[c + k]
  <2>1. \A k \in (c + 1)..n : file[k] \in S
    BY <1>1
  <2>2. /\ b \in Seq(S) /\ Len(b) = (IF c + 1 <= n THEN n - (c + 1) + 1 ELSE 0)
        /\ \A k \in 1..(n - (c + 1) + 1) : b[k] = file[(c + 1) + k - 1]
    BY <1>1, <2>1, SubSeqProperties
  <2>3. ASSUME NEW k \in 1..(n - c) PROVE b[k] = file[c + k]
    <3>1. k \in 1..(n - (c + 1) + 1) /\ (c + 1) + k - 1 = c + k
      BY <1>1
    <3> QED
      BY <2>2, <3>1
  <2>4. Len(b) = n - c
    BY <1>1, <2>2
  <2> QED
    BY <2>2, <2>3, <2>4
<1> HIDE DEF a, b
<1>4. a \o b \in Seq(S) /\ Len(a \o b) = n - 1
      /\ \A k \in 1..(n - 1) : (a \o b)[k] = IF k <= c - 1 THEN a[k] ELSE b[k - (c - 1)]
  <2>1. /\ a \o b \in Seq(S) /\ Len(a \o b) = Len(a) + Len(b)
        /\ \A k \in 1..Len(a) + Len(b) : (a \o b)[k] = IF k <= Len(a) THEN a[k] ELSE b[k - Len(a)]
    BY <1>2, <1>3, ConcatProperties
  <2>2. Len(a) = c - 1 /\ Len(a) + Len(b) = n - 1
    BY <1>1, <1>2, <1>3
  <2> QED
    BY <2>1, <2>2
<1>5. ASSUME NEW k \in 1..(n - 1) PROVE (a \o b)[k] = file[IF k < c THEN k ELSE k + 1]
  <2>1. CASE k < c
    <3>1. k \in 1..(c - 1)
      BY <1>1, <2>1
    <3> QED
      BY <1>2, <1>4, <2>1, <3>1
  <2>2. CASE ~(k < c)
    <3>1. k - (c - 1) \in 1..(n - c) /\ c + (k - (c - 1)) = k + 1 /\ ~(k <= c - 1)
      BY <1>1, <2>2
    <3> QED
      BY <1>3, <1>4, <2>2, <3>1
  <2> QED
    BY <2>1, <2>2
<1> QED
  BY <1>4, <1>5 DEF Without, a, b

\* Two files agree but for one token exactly when the rest of them is the same.
LEMMA SameWithout ==
  ASSUME NEW S, NEW f \in Seq(S), NEW g \in Seq(S), NEW n \in 0..Len(f), n <= Len(g), NEW c \in 1..n
  PROVE  Without(f, c, n) = Without(g, c, n) <=> \A k \in 1..n : k # c => f[k] = g[k]
<1> DEFINE a == Without(f, c, n)
           b == Without(g, c, n)
<1>1. n \in Nat /\ c \in Nat /\ 1 <= c /\ c <= n /\ n \in 0..Len(g)
  OBVIOUS
<1>2. /\ a \in Seq(S) /\ Len(a) = n - 1 /\ \A k \in 1..(n - 1) : a[k] = f[IF k < c THEN k ELSE k + 1]
      /\ b \in Seq(S) /\ Len(b) = n - 1 /\ \A k \in 1..(n - 1) : b[k] = g[IF k < c THEN k ELSE k + 1]
  BY <1>1, WithoutIs
<1> HIDE DEF a, b
<1>3. ASSUME a = b, NEW k \in 1..n, k # c PROVE f[k] = g[k]
  <2>1. CASE k < c
    <3>1. k \in 1..(n - 1)
      BY <1>1, <2>1
    <3> QED
      BY <1>2, <1>3, <2>1, <3>1
  <2>2. CASE ~(k < c)
    <3>1. k - 1 \in 1..(n - 1) /\ ~(k - 1 < c) /\ (k - 1) + 1 = k
      BY <1>1, <1>3, <2>2
    <3> QED
      BY <1>2, <1>3, <3>1
  <2> QED
    BY <2>1, <2>2
<1>4. ASSUME \A k \in 1..n : k # c => f[k] = g[k] PROVE a = b
  <2>1. ASSUME NEW k \in 1..(n - 1) PROVE a[k] = b[k]
    <3>1. k < c => k \in 1..n /\ k # c
      BY <1>1
    <3>2. ~(k < c) => k + 1 \in 1..n /\ k + 1 # c
      BY <1>1
    <3> QED
      BY <1>2, <1>4, <3>1, <3>2
  <2> QED
    BY <1>2, <2>1, SeqEqual
<1> QED
  BY <1>3, <1>4 DEF a, b

\* The byte range of pdf_sign names all of a file but the hole.
Patch(c, n) == <<0, c - 1, c, n - c>>

\* The message of a patched range is the file without the hole (Message).
LEMMA MessageIs ==
  ASSUME NEW S, NEW file \in Seq(S), NEW n \in 0..Len(file), NEW c \in 1..n
  PROVE  /\ Message(file, Patch(c, n)) = Without(file, c, n)
         /\ Spans(Patch(c, n)) = 1..2 /\ Len(Patch(c, n)) \div 2 = 2
         /\ \A k \in 1..2 : SpanOk(file, Off(Patch(c, n), k), Extent(Patch(c, n), k))
         /\ Patch(c, n)[1] = 0 /\ Off(Patch(c, n), 2) + Extent(Patch(c, n), 2) = n
<1> DEFINE range == Patch(c, n)
           a == SubSeq(file, 1, c - 1)
           b == SubSeq(file, c + 1, n)
           ss == [k \in 1..2 |-> SubSeq(file, Off(range, k) + 1, Off(range, k) + Extent(range, k))]
<1>1. n \in Nat /\ c \in Nat /\ 1 <= c /\ c <= n /\ Len(file) \in Nat /\ n <= Len(file)
  OBVIOUS
<1>2. Len(range) = 4 /\ range[1] = 0 /\ range[2] = c - 1 /\ range[3] = c /\ range[4] = n - c
  BY DEF Patch
<1>3. 4 \div 2 = 2
  OBVIOUS
<1>4. Spans(range) = 1..2 /\ Len(range) \div 2 = 2
  BY <1>2, <1>3 DEF Spans
<1>5. Off(range, 1) = 0 /\ Extent(range, 1) = c - 1 /\ Off(range, 2) = c /\ Extent(range, 2) = n - c
  <2>1. 2 * 1 - 1 = 1 /\ 2 * 1 = 2 /\ 2 * 2 - 1 = 3 /\ 2 * 2 = 4
    OBVIOUS
  <2> QED
    BY <1>2, <2>1 DEF Off, Extent
<1>6. \A k \in 1..2 : k = 1 \/ k = 2
  OBVIOUS
<1>7. SpanOk(file, 0, c - 1) /\ SpanOk(file, c, n - c)
  BY <1>1 DEF SpanOk
<1>8. \A k \in 1..2 : SpanOk(file, Off(range, k), Extent(range, k))
  BY <1>5, <1>6, <1>7
<1>9. Message(file, range) = FlattenSeq(ss)
  BY <1>4, <1>8 DEF Message
<1>10. a \in Seq(S) /\ b \in Seq(S)
  <2>1. (\A k \in 1..(c - 1) : file[k] \in S) /\ (\A k \in (c + 1)..n : file[k] \in S)
    BY <1>1
  <2> QED
    BY <1>1, <2>1, SubSeqProperties
<1>11. ss[1] = a /\ ss[2] = b
  <2>1. 0 + 1 = 1 /\ 0 + (c - 1) = c - 1 /\ c + (n - c) = n
    BY <1>1
  <2>2. ss[1] = SubSeq(file, 0 + 1, 0 + (c - 1)) /\ ss[2] = SubSeq(file, c + 1, c + (n - c))
    BY <1>5
  <2> QED
    BY <2>1, <2>2
<1>12. ss \in Seq(Seq(S)) /\ Len(ss) = 2
  <2>1. \A k \in 1..2 : ss[k] \in Seq(S)
    BY <1>6, <1>10, <1>11
  <2>2. ss = [k \in 1..2 |-> ss[k]]
    OBVIOUS
  <2> DEFINE X == Seq(S)
  <2> HIDE DEF ss, X
  <2>3. ss \in [1..2 -> X]
    BY <2>1, <2>2 DEF X
  <2>4. ss \in Seq(X) /\ Len(ss) = 2
    <3>1. PICK m \in Nat : m = 2
      OBVIOUS
    <3>2. ss \in [1..m -> X]
      BY <2>3, <3>1
    <3>3. ss \in Seq(X) /\ Len(ss) = m
      BY <3>2
    <3> QED
      BY <3>1, <3>3
  <2> QED
    BY <2>4 DEF X
<1> HIDE DEF ss, a, b
<1>13. FlattenSeq(ss) = a \o b
  <2>1. PICK f \in [0..Len(ss) -> Seq(S)] :
          /\ FlattenSeq(ss) = f[Len(ss)] /\ f[0] = <<>>
          /\ \A i \in 1..Len(ss) : f[i] = f[i - 1] \o ss[i]
    BY <1>12, FlattenIs
  <2>2. f[1] = <<>> \o a /\ f[2] = f[1] \o b
    <3>1. f[1] = f[1 - 1] \o ss[1] /\ f[2] = f[2 - 1] \o ss[2]
      BY <1>12, <2>1, SMTT(60)
    <3>2. 1 - 1 = 0 /\ 2 - 1 = 1
      OBVIOUS
    <3> QED
      BY <1>11, <2>1, <3>1, <3>2
  <2>3. <<>> \o a = a
    BY <1>10
  <2> QED
    BY <1>12, <2>1, <2>2, <2>3
<1>14. c + (n - c) = n
  BY <1>1
<1> QED
  BY <1>2, <1>4, <1>5, <1>8, <1>9, <1>13, <1>14 DEF Without, a, b

\* A range that is patched is a token still.
LEMMA RangePatched ==
  ASSUME NEW texts, NEW overs, NEW token \in Tokens(texts, overs), NEW range \in Seq(Nat)
  PROVE  /\ [token EXCEPT !.range = range] \in Tokens(texts, overs)
         /\ [token EXCEPT !.range = range].range = range
         /\ [token EXCEPT !.range = range].kind = token.kind
         /\ [token EXCEPT !.range = range].mine = token.mine
         /\ [token EXCEPT !.range = range].over = token.over
  BY DEF Tokens

\* A hole that is filled is a token still.
LEMMA OverPatched ==
  ASSUME NEW texts, NEW overs, NEW token \in Tokens(texts, overs), NEW over
  PROVE  /\ [token EXCEPT !.over = over] \in Tokens(texts, overs \cup {over})
         /\ [token EXCEPT !.over = over].over = over
         /\ [token EXCEPT !.over = over].kind = token.kind
         /\ [token EXCEPT !.over = over].mine = token.mine
         /\ [token EXCEPT !.over = over].range = token.range
         /\ [token EXCEPT !.over = over].text = token.text
  BY DEF Tokens

\* What a file is once it was signed: i is its range, j its hole.
SignedAt(job, file, i, j) ==
  /\ i \in 1..Len(file) /\ j \in 1..Len(file) /\ i # j
  /\ Len(file) = Len(job.file)
  /\ file \in Seq(Tokens({0}, {<<>>, file[j].over}))
  /\ \A k \in 1..Len(file) :
       /\ file[k].kind = "range" /\ file[k].mine <=> k = i
       /\ file[k].kind = "hole" /\ file[k].mine <=> k = j
       /\ ~file[k].mine => file[k] = job.file[k]
  /\ file[i].range = Patch(j, Len(file))
  /\ file[j].over = Without(file, j, Len(file))
  /\ file[j].over # <<>>
  /\ ~job.signedBefore

\* A file that is signed and published: its range and its hole are those of the new signature.
LEMMA SignedFile ==
  ASSUME NEW job, Signable(job), SignDetached(job).outcome = "signed", Sentinel \in Nat
  PROVE  \E i, j : SignedAt(job, SignDetached(job).file, i, j)
<1> DEFINE f == job.file
           n == Len(f)
           c == FirstToken(f, "hole")
           r == FirstToken(f, "range")
           Old == Tokens({0}, {<<>>})
           patched == [f EXCEPT ![r].range = <<0, c - 1, c, n - c>>]
           message == Without(patched, c, n)
           filled == [patched EXCEPT ![c].over = message]
           New == Tokens({0}, {<<>>, message})
           report == ReadSignatures(filled)
<1>1. f \in Seq(Old) /\ n \in Nat /\ n < Sentinel /\ DOMAIN f = 1..n
  BY DEF Signable
<1>2. PICK i \in 1..n, j \in 1..n : f[i] = MyRange /\ f[j] = MyHole /\ \A k \in 1..n : f[k].mine => k \in {i, j}
  BY <1>1 DEF Signable
<1>3. /\ f[i].kind = "range" /\ f[i].mine /\ f[i].range = Placeholder
      /\ f[j].kind = "hole" /\ f[j].mine /\ f[j].over = <<>>
  BY <1>2 DEF MyRange, MyHole, Token
<1>4. c \in 1..n /\ f[c].kind = "hole" /\ r \in 1..n /\ f[r].kind = "range"
  BY <1>1, <1>2, <1>3, FirstTokenIs
<1>5. c # r /\ i # j
  BY <1>3, <1>4
<1>6. Patch(c, n) \in Seq(Nat) /\ <<0, c - 1, c, n - c>> = Patch(c, n)
  <2>1. 0 \in Nat /\ c - 1 \in Nat /\ c \in Nat /\ n - c \in Nat
    BY <1>1, <1>4
  <2> QED
    BY <2>1 DEF Patch
<1> HIDE DEF c, r, n, Old, f
<1>7. \A k \in 1..n : f[k] \in Old
  BY <1>1
<1>8. /\ patched \in Seq(Old) /\ Len(patched) = n
      /\ \A k \in 1..n : k # r => patched[k] = f[k]
      /\ patched[r] = [f[r] EXCEPT !.range = Patch(c, n)]
  <2>1. patched = [f EXCEPT ![r] = [f[r] EXCEPT !.range = Patch(c, n)]]
    BY <1>6
  <2>2. [f[r] EXCEPT !.range = Patch(c, n)] \in Old
    BY <1>4, <1>6, <1>7, RangePatched DEF Old
  <2>3. PICK t \in Old : t = [f[r] EXCEPT !.range = Patch(c, n)]
    BY <2>2
  <2>4. patched = [f EXCEPT ![r] = t]
    BY <2>1, <2>3
  <2> HIDE DEF patched
  <2> QED
    BY <1>1, <1>4, <2>3, <2>4 DEF n
<1> HIDE DEF patched
<1>9. /\ filled \in Seq(New) /\ Len(filled) = n
      /\ \A k \in 1..n : k # c => filled[k] = patched[k]
      /\ filled[c] = [patched[c] EXCEPT !.over = message]
  <2>1. \A k \in 1..n : patched[k] \in Old
    BY <1>8
  <2>2. PICK t : t = [patched[c] EXCEPT !.over = message]
    OBVIOUS
  <2>3. t \in New
    <3>1. patched[c] \in Tokens({0}, {<<>>})
      BY <1>4, <2>1 DEF Old
    <3>2. t \in Tokens({0}, {<<>>} \cup {message})
      BY <2>2, <3>1, OverPatched
    <3>3. {<<>>} \cup {message} = {<<>>, message}
      OBVIOUS
    <3> QED
      BY <3>2, <3>3 DEF New
  <2>4. filled = [patched EXCEPT ![c] = t]
    BY <2>2
  <2>5. Old \subseteq New
    BY DEF Old, New, Tokens
  <2>6. patched \in [1..n -> New]
    <3>1. patched \in [1..n -> Old]
      BY <1>8
    <3> HIDE DEF New
    <3> QED
      BY <2>5, <3>1
  <2>7. filled \in [1..n -> New] /\ filled[c] = t /\ \A k \in 1..n : k # c => filled[k] = patched[k]
    BY <1>4, <2>3, <2>4, <2>6
  <2>8. n \in Nat
    BY <1>1
  <2> HIDE DEF filled, New
  <2>9. filled \in Seq(New) /\ Len(filled) = n
    BY <2>7, <2>8
  <2> QED
    BY <2>2, <2>7, <2>9
<1>10. SubSeq(patched, 1, c - 1) \o SubSeq(patched, c + 1, Len(patched)) = message
  BY <1>8 DEF Without
<1>11. /\ ~job.signedBefore /\ report.covers /\ report.hasVerified /\ report.verified
       /\ SignDetached(job).file = filled
  <2> HIDE DEF report, filled, message
  <2>1. SignDetached(job) =
          IF \/ job.signedBefore \/ ~f[r].wide \/ ~job.fits \/ ~(report.covers /\ report.hasVerified /\ report.verified)
            THEN [outcome |-> "throws", file |-> <<>>]
            ELSE [outcome |-> "signed", file |-> filled]
    BY <1>10 DEF SignDetached, patched, filled, report, c, r, n, f
  <2> QED
    BY <2>1, SMTT(60)
<1>12. message \in Seq(Old) /\ Len(message) = n - 1
  BY <1>1, <1>4, <1>8, WithoutIs
<1> HIDE DEF message
<1>13. ASSUME NEW k \in 1..n
       PROVE  /\ filled[k].kind = f[k].kind /\ filled[k].mine = f[k].mine
              /\ k # r => filled[k].range = f[k].range
              /\ k = r => filled[k].range = Patch(c, n)
              /\ k # c => filled[k].over = f[k].over
              /\ k = c => filled[k].over = message
              /\ k \notin {c, r} => filled[k] = f[k]
  <2> HIDE DEF filled
  <2>1. CASE k = r
    <3>1. filled[k] = [f[k] EXCEPT !.range = Patch(c, n)]
      BY <1>5, <1>8, <1>9, <2>1
    <3>2. f[k] \in Tokens({0}, {<<>>})
      BY <1>7 DEF Old
    <3>3. /\ filled[k].kind = f[k].kind /\ filled[k].mine = f[k].mine
          /\ filled[k].range = Patch(c, n) /\ filled[k].over = f[k].over
      BY <1>6, <3>1, <3>2, RangePatched
    <3> QED
      BY <1>5, <2>1, <3>3
  <2>2. CASE k = c
    <3>1. filled[k] = [f[k] EXCEPT !.over = message]
      BY <1>5, <1>8, <1>9, <2>2
    <3>2. f[k] \in Tokens({0}, {<<>>})
      BY <1>7 DEF Old
    <3>3. /\ filled[k].kind = f[k].kind /\ filled[k].mine = f[k].mine
          /\ filled[k].range = f[k].range /\ filled[k].over = message
      BY <3>1, <3>2, OverPatched
    <3> QED
      BY <1>5, <2>2, <3>3
  <2>3. CASE k # r /\ k # c
    BY <1>8, <1>9, <2>3
  <2> QED
    BY <2>1, <2>2, <2>3
<1> HIDE DEF filled
<1>14. \A k \in 1..n :
         /\ filled[k].kind = "range" /\ filled[k].mine <=> k = i
         /\ filled[k].kind = "hole" /\ filled[k].mine <=> k = j
  BY <1>2, <1>3, <1>5, <1>13
<1>15. Mine(filled, "range") = i /\ Mine(filled, "hole") = j
  BY <1>2, <1>9, <1>14, MineIs
<1>16. /\ report.covers => \A k \in Spans(filled[i].range) : SpanOk(filled, Off(filled[i].range, k), Extent(filled[i].range, k))
       /\ report.hasVerified <=> filled[j].over # <<>>
  BY <1>15 DEF ReadSignatures
<1>17. c = j
  <2> SUFFICES ASSUME c # j PROVE FALSE
    OBVIOUS
  <2>1. filled[j].over = <<>>
    BY <1>2, <1>3, <1>13
  <2> QED
    BY <1>11, <1>16, <2>1
<1>18. r = i
  <2> SUFFICES ASSUME r # i PROVE FALSE
    OBVIOUS
  <2>1. filled[i].range = Placeholder
    BY <1>2, <1>3, <1>13
  <2>2. 1 \in Spans(Placeholder) /\ Off(Placeholder, 1) = 0 /\ Extent(Placeholder, 1) = Sentinel
    <3>1. Len(Placeholder) = 4 /\ Placeholder[1] = 0 /\ Placeholder[2] = Sentinel
      BY DEF Placeholder
    <3>2. 4 \div 2 = 2 /\ 2 * 1 - 1 = 1 /\ 2 * 1 = 2
      OBVIOUS
    <3> QED
      BY <3>1, <3>2 DEF Spans, Off, Extent
  <2>3. SpanOk(filled, 0, Sentinel)
    BY <1>11, <1>16, <2>1, <2>2
  <2> QED
    BY <1>1, <1>9, <2>3 DEF SpanOk
<1>19. filled[j].over = Without(filled, j, n)
  <2>1. \A k \in 1..n : k # c => patched[k] = filled[k]
    BY <1>9
  <2>2. patched \in Seq(New)
    <3>1. Old \subseteq New
      BY DEF Old, New, Tokens
    <3> QED
      BY <1>8, <3>1, SeqMonotonic
  <2>3. Without(patched, c, n) = Without(filled, c, n)
    <3> HIDE DEF New
    <3>1. n \in 0..Len(patched) /\ n <= Len(filled)
      BY <1>1, <1>8, <1>9
    <3> QED
      BY <1>4, <1>9, <2>1, <2>2, <3>1, SameWithout
  <2> QED
    BY <1>4, <1>13, <1>17, <2>3 DEF message
<1>20. \A k \in 1..n : ~filled[k].mine => filled[k] = f[k]
  BY <1>3, <1>13, <1>17, <1>18
<1>21. New = Tokens({0}, {<<>>, filled[j].over})
  BY <1>4, <1>13, <1>17
<1>22. SignedAt(job, filled, i, j)
  BY <1>2, <1>4, <1>5, <1>9, <1>11, <1>13, <1>14, <1>16, <1>17, <1>18, <1>19, <1>20, <1>21 DEF SignedAt, f, n
<1> QED
  BY <1>11, <1>22

\* What later changes leave of a signed file.
LaterTrue(job, file, j, g) ==
  /\ g \in Seq(Tokens({0, 1}, {<<>>, file[j].over}))
  /\ Len(g) = Len(file) + job.append
  /\ \A k \in 1..Len(file) :
       /\ g[k].kind = file[k].kind /\ g[k].mine = file[k].mine /\ g[k].range = file[k].range
       /\ k # job.alter => g[k] = file[k]
       /\ k = job.alter => g[k].text = 1 /\ g[k].over = <<>>
  /\ \A k \in (Len(file) + 1)..Len(g) : ~g[k].mine

\* What a signed file is later: changed at one byte, or longer (Later).
LEMMA LaterIs ==
  ASSUME NEW job, NEW file, NEW i, NEW j, SignedAt(job, file, i, j), job.append \in Nat
  PROVE  LaterTrue(job, file, j, Later(job, file))
<1> DEFINE n == Len(file)
           Old == Tokens({0}, {<<>>, file[j].over})
           New == Tokens({0, 1}, {<<>>, file[j].over})
           changed == IF job.alter \in DOMAIN file
                        THEN [file EXCEPT ![job.alter].text = 1, ![job.alter].over = <<>>] ELSE file
           more == [k \in 1..job.append |-> Token("text")]
           g == Later(job, file)
<1>1. file \in Seq(Old) /\ n \in Nat /\ DOMAIN file = 1..n /\ \A k \in 1..n : file[k] \in Old
  <2>1. file \in Seq(Old)
    BY DEF SignedAt
  <2> HIDE DEF Old
  <2> QED
    BY <2>1
<1>2. Old \subseteq New
  BY DEF Old, New, Tokens
<1>3. g = changed \o more
  BY DEF Later
<1>4. /\ changed \in Seq(New) /\ Len(changed) = n
      /\ \A k \in 1..n :
           /\ changed[k].kind = file[k].kind /\ changed[k].mine = file[k].mine /\ changed[k].range = file[k].range
           /\ k # job.alter => changed[k] = file[k]
           /\ k = job.alter => changed[k].text = 1 /\ changed[k].over = <<>>
  <2> HIDE DEF New
  <2>1. CASE job.alter \notin DOMAIN file
    <3>1. changed = file /\ \A k \in 1..n : k # job.alter
      BY <1>1, <2>1
    <3>2. file \in Seq(New)
      BY <1>1, <1>2, SeqMonotonic
    <3> HIDE DEF changed
    <3> QED
      BY <1>1, <3>1, <3>2
  <2>2. CASE job.alter \in DOMAIN file
    <3> DEFINE t == [file[job.alter] EXCEPT !.text = 1, !.over = <<>>]
    <3>1. changed = [file EXCEPT ![job.alter] = t]
      BY <2>2
    <3>2. /\ t \in New /\ t.kind = file[job.alter].kind /\ t.mine = file[job.alter].mine
          /\ t.range = file[job.alter].range /\ t.text = 1 /\ t.over = <<>>
      <4>1. file[job.alter] \in Old
        BY <1>1, <2>2
      <4> QED
        BY <4>1 DEF Old, New, Tokens
    <3> HIDE DEF changed, t
    <3>3. file \in [1..n -> New]
      <4>1. file \in [1..n -> Old]
        BY <1>1
      <4> QED
        BY <1>2, <4>1
    <3>4. changed \in [1..n -> New] /\ changed[job.alter] = t /\ \A k \in 1..n : k # job.alter => changed[k] = file[k]
      BY <1>1, <2>2, <3>1, <3>2, <3>3
    <3>5. changed \in Seq(New) /\ Len(changed) = n
      BY <1>1, <3>4
    <3> QED
      BY <3>2, <3>4, <3>5
  <2> QED
    BY <2>1, <2>2
<1>5. /\ more \in Seq(New) /\ Len(more) = job.append
      /\ \A k \in 1..job.append : ~more[k].mine
  <2>1. Token("text") \in New /\ ~Token("text").mine
    BY DEF Token, New, Tokens
  <2> HIDE DEF New
  <2>2. more \in [1..job.append -> New] /\ \A k \in 1..job.append : more[k] = Token("text")
    BY <2>1
  <2> QED
    BY <2>1, <2>2
<1> HIDE DEF changed, more, New, g, n, Old
<1>6. /\ g \in Seq(New) /\ Len(g) = n + job.append
      /\ \A k \in 1..(n + job.append) : g[k] = IF k <= n THEN changed[k] ELSE more[k - n]
  <2>1. /\ changed \o more \in Seq(New) /\ Len(changed \o more) = Len(changed) + Len(more)
        /\ \A k \in 1..Len(changed) + Len(more) :
             (changed \o more)[k] = IF k <= Len(changed) THEN changed[k] ELSE more[k - Len(changed)]
    BY <1>4, <1>5, ConcatProperties, ZenonT(60)
  <2>2. Len(changed) = n /\ Len(more) = job.append
    BY <1>4, <1>5
  <2> QED
    BY <1>3, <2>1, <2>2
<1>7. ASSUME NEW k \in 1..n PROVE g[k] = changed[k]
  BY <1>1, <1>6
<1>8. ASSUME NEW k \in (n + 1)..Len(g) PROVE ~g[k].mine
  <2>1. k \in 1..(n + job.append) /\ ~(k <= n) /\ k - n \in 1..job.append
    BY <1>1, <1>6
  <2> QED
    BY <1>5, <1>6, <2>1
<1> QED
  BY <1>4, <1>6, <1>7, <1>8, ZenonT(60) DEF LaterTrue, g, n, New

\* pdf_sign signs every byte but the signature, or fails; pdf_signatures tells growth and
\* change (SignDetached, ReadSignatures).
LEMMA WholeFileSigned ==
  ASSUME NEW job, Signable(job), Sentinel \in Nat
  PROVE  SignedWhole(job, SignAndRead(job))
<1> DEFINE file == SignDetached(job).file
           n == Len(file)
           g == Later(job, file)
           report == ReadSignatures(g)
<1>1. ASSUME SignDetached(job).outcome = "throws"
      PROVE  SignedWhole(job, SignAndRead(job))
  BY <1>1 DEF SignedWhole, SignAndRead
<1>2. SignDetached(job).outcome \in {"throws", "signed"}
  BY DEF SignDetached
<1> SUFFICES ASSUME SignDetached(job).outcome = "signed"
             PROVE  SignedWhole(job, SignAndRead(job))
  BY <1>1, <1>2
<1>3. SignAndRead(job) = [outcome |-> "signed", file |-> file, report |-> report]
  BY DEF SignAndRead
<1>4. PICK i, j : SignedAt(job, file, i, j)
  BY SignedFile
<1> DEFINE Old == Tokens({0}, {<<>>, file[j].over})
           New == Tokens({0, 1}, {<<>>, file[j].over})
<1> HIDE DEF file
<1>5. /\ i \in 1..n /\ j \in 1..n /\ i # j /\ n = Len(job.file)
      /\ file \in Seq(Old) /\ n \in Nat /\ DOMAIN file = 1..n
      /\ file[i].range = Patch(j, n) /\ file[j].over = Without(file, j, n) /\ file[j].over # <<>>
      /\ ~job.signedBefore
  BY <1>4 DEF SignedAt
<1>6. \A k \in 1..n :
        /\ file[k].kind = "range" /\ file[k].mine <=> k = i
        /\ file[k].kind = "hole" /\ file[k].mine <=> k = j
        /\ ~file[k].mine => file[k] = job.file[k]
  BY <1>4 DEF SignedAt
<1>7. job.append \in Nat
  BY DEF Signable
<1>8. /\ g \in Seq(New) /\ Len(g) = n + job.append
      /\ \A k \in 1..n :
           /\ g[k].kind = file[k].kind /\ g[k].mine = file[k].mine /\ g[k].range = file[k].range
           /\ k # job.alter => g[k] = file[k]
           /\ k = job.alter => g[k].text = 1 /\ g[k].over = <<>>
      /\ \A k \in (n + 1)..Len(g) : ~g[k].mine
  <2>1. LaterTrue(job, file, j, g)
    BY <1>4, <1>7, LaterIs
  <2> HIDE DEF g
  <2> QED
    BY <2>1 DEF LaterTrue
<1> HIDE DEF g, New, Old, n
<1>9. \A k \in 1..Len(g) : k \in 1..n \/ k \in (n + 1)..Len(g)
  BY <1>5, <1>7, <1>8
<1>10. i \in 1..Len(g) /\ j \in 1..Len(g) /\ n \in 0..Len(g)
  BY <1>5, <1>7, <1>8
<1>11. /\ Mine(g, "range") = i /\ Mine(g, "hole") = j
       /\ Mine(file, "hole") = j
  <2>1. \A k \in 1..Len(g) :
          /\ g[k].kind = "range" /\ g[k].mine <=> k = i
          /\ g[k].kind = "hole" /\ g[k].mine <=> k = j
    <3> SUFFICES ASSUME NEW k \in 1..Len(g)
                 PROVE  /\ g[k].kind = "range" /\ g[k].mine <=> k = i
                        /\ g[k].kind = "hole" /\ g[k].mine <=> k = j
      OBVIOUS
    <3>1. CASE k \in 1..n
      BY <1>6, <1>8, <3>1
    <3>2. CASE k \in (n + 1)..Len(g)
      <4>1. k # i /\ k # j
        BY <1>5, <3>2
      <4> QED
        BY <1>8, <3>2, <4>1
    <3> QED
      BY <1>9, <3>1, <3>2
  <2>2. Mine(g, "range") = i
    <3>1. g \in Seq(New) /\ i \in 1..Len(g)
      BY <1>8, <1>10
    <3>2. \A k \in 1..Len(g) : g[k].kind = "range" /\ g[k].mine <=> k = i
      BY <2>1
    <3> HIDE DEF g
    <3> QED
      BY <3>1, <3>2, MineIs
  <2>3. Mine(g, "hole") = j
    <3>1. g \in Seq(New) /\ j \in 1..Len(g)
      BY <1>8, <1>10
    <3>2. \A k \in 1..Len(g) : g[k].kind = "hole" /\ g[k].mine <=> k = j
      BY <2>1
    <3> HIDE DEF g
    <3> QED
      BY <3>1, <3>2, MineIs
  <2>4. \A k \in 1..Len(file) : file[k].kind = "hole" /\ file[k].mine <=> k = j
    BY <1>6 DEF n
  <2>5. Mine(file, "hole") = j
    <3>1. j \in 1..Len(file) /\ file \in Seq(Old)
      BY <1>5 DEF n
    <3> QED
      BY <2>4, <3>1, MineIs
  <2> QED
    BY <2>2, <2>3, <2>5
<1>12. g[i].range = Patch(j, n)
  BY <1>5, <1>8
<1> DEFINE message == Message(g, Patch(j, n))
           over == g[j].over
<1>13. /\ message = Without(g, j, n)
       /\ Spans(Patch(j, n)) = 1..2 /\ Len(Patch(j, n)) \div 2 = 2
       /\ \A k \in 1..2 : SpanOk(g, Off(Patch(j, n), k), Extent(Patch(j, n), k))
       /\ Patch(j, n)[1] = 0 /\ Off(Patch(j, n), 2) + Extent(Patch(j, n), 2) = n
  BY <1>5, <1>8, <1>10, MessageIs
<1> HIDE DEF message
<1>14. /\ report.covers <=> n = Len(g)
       /\ report.verified <=> over # <<>> /\ message # <<>> /\ over = message
  BY <1>11, <1>12, <1>13 DEF ReadSignatures, message
<1>15. n = Len(g) <=> job.append = 0
  BY <1>5, <1>7, <1>8
<1>16. Without(file, j, n) = Without(g, j, n) <=> \A k \in 1..n : k # j => file[k] = g[k]
  <2>1. file \in Seq(New)
    <3>1. Old \subseteq New
      BY DEF Old, New, Tokens
    <3> QED
      BY <1>5, <3>1, SeqMonotonic
  <2>2. n \in 0..Len(file) /\ n <= Len(g)
    BY <1>5, <1>10 DEF n
  <2> QED
    <3>1. j \in 1..n /\ g \in Seq(New)
      BY <1>5, <1>8
    <3> QED
      BY <2>1, <2>2, <3>1, SameWithout
<1>17. report.verified <=> job.alter \notin 1..n
  <2>1. CASE job.alter \notin 1..n
    <3>1. \A k \in 1..n : g[k] = file[k]
      BY <1>8, <2>1
    <3>2. Without(file, j, n) = Without(g, j, n)
      BY <1>16, <3>1
    <3> QED
      BY <1>5, <1>13, <1>14, <2>1, <3>1, <3>2
  <2>2. CASE job.alter = j
    <3>1. over = <<>>
      BY <1>5, <1>8, <2>2
    <3> QED
      BY <1>5, <1>14, <2>2, <3>1
  <2>3. CASE job.alter \in 1..n /\ job.alter # j
    <3>1. g[job.alter].text = 1
      BY <1>8, <2>3
    <3>2. file[job.alter].text = 0
      <4>1. file[job.alter] \in Old
        BY <1>5, <2>3
      <4> QED
        BY <4>1 DEF Old, Tokens
    <3>3. file[job.alter] # g[job.alter]
      BY <3>1, <3>2
    <3>4. Without(file, j, n) # Without(g, j, n)
      BY <1>16, <2>3, <3>3
    <3>5. over = Without(file, j, n)
      BY <1>5, <1>8, <2>3
    <3> QED
      BY <1>13, <1>14, <2>3, <3>4, <3>5
  <2> QED
    BY <2>1, <2>2, <2>3
<1> HIDE DEF report
<1>18. SubSeq(file, 1, j - 1) \o SubSeq(file, j + 1, Len(file)) = Without(file, j, n)
  BY DEF Without, n
<1>19. /\ Len(file) = Len(job.file)
       /\ \A k \in DOMAIN file : ~file[k].mine => file[k] = job.file[k]
       /\ file[j].over = SubSeq(file, 1, j - 1) \o SubSeq(file, j + 1, Len(file))
       /\ report.covers <=> job.append = 0
       /\ report.verified <=> job.alter \notin DOMAIN file
  BY <1>5, <1>6, <1>14, <1>15, <1>17, <1>18 DEF n
<1> DEFINE reply == SignAndRead(job)
<1>20. reply.outcome = "signed" /\ reply.file = file /\ reply.report = report
  BY <1>3
<1> HIDE DEF reply
<1>21. SignedWhole(job, reply)
  BY <1>5, <1>11, <1>19, <1>20 DEF SignedWhole
<1> QED
  BY <1>21 DEF reply

-----------------------------------------------------------------------------
(* Revisions.                                                              *)

\* Numbers up to some limit, if there are any, have a greatest one.
LEMMA GreatestOf ==
  ASSUME NEW n \in Nat, NEW S \in SUBSET (1..n), S # {}
  PROVE  Max(S) \in S /\ \A y \in S : y <= Max(S)
<1> DEFINE R == {n - y : y \in S}
<1>1. R \in SUBSET Nat /\ R # {}
  <2>1. PICK y \in S : TRUE
    OBVIOUS
  <2>2. n - y \in R
    OBVIOUS
  <2>3. \A z \in S : n - z \in Nat
    OBVIOUS
  <2> QED
    BY <2>2, <2>3
<1>2. PICK r \in R : \A q \in R : r <= q
  BY <1>1, LeastOf
<1>3. PICK x \in S : r = n - x
  BY <1>2
<1>4. \A y \in S : y <= x
  <2> SUFFICES ASSUME NEW y \in S PROVE y <= x
    OBVIOUS
  <2>1. n - y \in R
    OBVIOUS
  <2> QED
    BY <1>2, <1>3, <2>1
<1>5. \E z \in S : \A y \in S : z >= y
  BY <1>4
<1>6. Max(S) \in S /\ \A y \in S : Max(S) >= y
  BY <1>5 DEF Max
<1> QED
  BY <1>6

Place == [xref : Nat, eof : Nat]

\* Sections found in order.
InOrder(sections, limit) ==
  /\ sections \in Seq(Place)
  /\ \A k \in 1..Len(sections) : sections[k].eof <= limit
  /\ \A j, k \in 1..Len(sections) : j < k => sections[j].eof < sections[k].eof

\* The section of a keyword.
SectionAt(file, i) == [xref |-> file[i + 1].value, eof |-> i + 2]

\* A keyword that is complete has an offset and an end.
LEMMA SectionIs ==
  ASSUME NEW file, Scanned(file), NEW i \in 1..Len(file), Complete(file, i)
  PROVE  SectionAt(file, i) \in Place
<1>1. Len(file) \in Nat /\ i + 1 \in 1..Len(file) /\ i + 2 \in Nat
  BY DEF Complete, Scanned
<1>2. file[i + 1].value \in Nat \cup {NoPrev} /\ file[i + 1].value # NoPrev
  <2>1. file[i + 1] \in Marks
    BY <1>1 DEF Scanned
  <2>2. file[i + 1].value \in Nat \cup {NoPrev}
    BY <2>1 DEF Marks
  <2>3. file[i + 1].kind = "number" /\ i + 1 \in DOMAIN file
    BY <1>1 DEF Complete, Scanned
  <2> QED
    BY <2>2, <2>3 DEF Scanned
<1>3. file[i + 1].value \in Nat
  BY <1>2
<1> QED
  BY <1>1, <1>3 DEF SectionAt, Place

\* The scan is defined, and each token follows from the one before (Found).
LEMMA FoundIs ==
  ASSUME NEW file, Scanned(file)
  PROVE  /\ Found(file)[0] = <<>>
         /\ \A i \in 1..Len(file) :
              Found(file)[i] = IF Complete(file, i) THEN Append(Found(file)[i - 1], SectionAt(file, i))
                               ELSE Found(file)[i - 1]
<1> DEFINE n == Len(file)
           X == Seq(Place)
           next(x, i) == IF Complete(file, i) THEN Append(x, SectionAt(file, i)) ELSE x
           step == [x \in X \X (1..n) |-> next(x[1], x[2])]
           Eq(found) == found = [i \in 0..n |-> IF i = 0 THEN <<>>
                                                ELSE IF Complete(file, i) THEN Append(found[i - 1], [xref |-> file[i + 1].value, eof |-> i + 2])
                                                ELSE found[i - 1]]
           found == CHOOSE found : Eq(found)
<1>1. n \in Nat /\ <<>> \in X
  BY DEF Scanned
<1>2. ASSUME NEW x \in X, NEW i \in 1..n
      PROVE  next(x, i) \in X
  <2>1. CASE Complete(file, i)
    <3>1. SectionAt(file, i) \in Place
      BY <2>1, SectionIs
    <3> QED
      BY <2>1, <3>1
  <2> QED
    BY <2>1
<1>3. step \in [X \X (1..n) -> X]
  <2> SUFFICES ASSUME NEW x \in X \X (1..n) PROVE next(x[1], x[2]) \in X
    OBVIOUS
  <2>1. x[1] \in X /\ x[2] \in 1..n
    OBVIOUS
  <2> HIDE DEF next, X
  <2> QED
    BY <1>2, <2>1
<1>4. PICK f \in [0..n -> X] : Recurs(f, n, <<>>, step)
  <2> HIDE DEF step, n, X
  <2> QED
    BY <1>1, <1>3, Recursion
<1>5. ASSUME NEW i \in 0..n
      PROVE  f[i] = IF i = 0 THEN <<>> ELSE next(f[i - 1], i)
  <2>1. CASE i = 0
    BY <1>4, <2>1 DEF Recurs
  <2>2. CASE i # 0
    <3>1. i \in 1..n /\ i - 1 \in 0..n
      BY <1>1, <2>2
    <3> HIDE DEF X, next
    <3>2. f[i - 1] \in X
      BY <3>1
    <3>3. f[i] = step[<<f[i - 1], i>>]
      BY <1>4, <3>1 DEF Recurs
    <3>4. step[<<f[i - 1], i>>] = next(f[i - 1], i)
      BY <3>1, <3>2
    <3> QED
      BY <2>2, <3>3, <3>4
  <2> QED
    BY <2>1, <2>2
<1>6. Eq(f)
  <2>1. f = [i \in 0..n |-> f[i]]
    OBVIOUS
  <2> HIDE DEF n, X
  <2> QED
    BY <1>5, <2>1 DEF SectionAt
<1>7. Eq(found)
  BY <1>6
<1>8. Found(file) = found
  BY DEF Found
<1> HIDE DEF found
<1>9. ASSUME NEW i \in 0..n
      PROVE  found[i] = IF i = 0 THEN <<>> ELSE next(found[i - 1], i)
  <2> HIDE DEF n
  <2> QED
    BY <1>7 DEF SectionAt
<1>10. found[0] = <<>> /\ \A i \in 1..n : found[i] = next(found[i - 1], i)
  BY <1>1, <1>9
<1> QED
  BY <1>8, <1>10

\* The sections of a file are in the order of their ends.
LEMMA SectionsInOrder ==
  ASSUME NEW file, Scanned(file)
  PROVE  InOrder(PdfFindStartxrefSections(file), Len(file) + 2)
<1> DEFINE n == Len(file)
           found == Found(file)
           T == {i \in 0..n : InOrder(found[i], i + 2)}
<1>1. n \in Nat
  BY DEF Scanned
<1>2. 0 \in T
  <2>1. found[0] = <<>>
    BY FoundIs
  <2>2. <<>> \in Seq(Place) /\ Len(<<>>) = 0 /\ \A k \in 1..0 : FALSE
    OBVIOUS
  <2>3. InOrder(<<>>, 2)
    BY <2>2 DEF InOrder
  <2> QED
    BY <1>1, <2>1, <2>3
<1>3. ASSUME NEW i \in 0..(n - 1), i \in T
      PROVE  i + 1 \in T
  <2>1. i + 1 \in 1..n /\ (i + 1) - 1 = i /\ i + 1 \in 0..n /\ (i + 1) + 2 = i + 3 /\ i \in Nat
    BY <1>1
  <2>2. found[i + 1] = IF Complete(file, i + 1) THEN Append(found[i], SectionAt(file, i + 1)) ELSE found[i]
    BY <2>1, FoundIs
  <2> DEFINE s == found[i]
             t == SectionAt(file, i + 1)
  <2>3. s \in Seq(Place) /\ InOrder(s, i + 2) /\ Len(s) \in Nat
    BY <1>3 DEF InOrder
  <2>4. CASE Complete(file, i + 1)
    <3>1. t \in Place
      BY <2>1, <2>4, SectionIs
    <3>2. t.eof = i + 3
      BY <2>1 DEF SectionAt
    <3> HIDE DEF s, t
    <3> DEFINE more == Append(s, t)
    <3>3. more \in Seq(Place) /\ Len(more) = Len(s) + 1 /\ more[Len(s) + 1] = t
          /\ \A k \in 1..Len(s) : more[k] = s[k]
      BY <2>3, <3>1
    <3>4. ASSUME NEW k \in 1..Len(s)
          PROVE  s[k].eof \in Nat /\ s[k].eof <= i + 2
      <4> HIDE DEF more
      <4>1. s[k] \in Place
        BY <2>3
      <4> QED
        BY <2>3, <4>1 DEF InOrder, Place
    <3> HIDE DEF more
    <3>5. ASSUME NEW k \in 1..Len(more)
          PROVE  more[k].eof <= i + 3
      <4>1. CASE k \in 1..Len(s)
        BY <2>1, <3>3, <3>4, <4>1
      <4>2. CASE k = Len(s) + 1
        BY <2>1, <3>2, <3>3, <4>2
      <4> QED
        BY <2>3, <3>3, <4>1, <4>2
    <3>6. ASSUME NEW j \in 1..Len(more), NEW k \in 1..Len(more), j < k
          PROVE  more[j].eof < more[k].eof
      <4>1. j \in 1..Len(s)
        BY <2>3, <3>3, <3>6
      <4>2. CASE k \in 1..Len(s)
        BY <2>3, <3>3, <3>6, <4>1, <4>2 DEF InOrder
      <4>3. CASE k = Len(s) + 1
        BY <2>1, <3>2, <3>3, <3>4, <4>1, <4>3
      <4> QED
        BY <2>3, <3>3, <4>2, <4>3
    <3>7. InOrder(more, i + 3)
      BY <3>3, <3>5, <3>6 DEF InOrder
    <3> QED
      BY <2>1, <2>2, <2>4, <3>7 DEF more, s, t
  <2>5. CASE ~Complete(file, i + 1)
    <3>1. ASSUME NEW k \in 1..Len(s)
          PROVE  s[k].eof \in Nat /\ s[k].eof <= i + 2
      <4> HIDE DEF s
      <4>1. s[k] \in Place
        BY <2>3
      <4> QED
        BY <2>3, <4>1 DEF InOrder, Place
    <3> HIDE DEF s
    <3>2. InOrder(s, i + 3)
      BY <2>1, <2>3, <3>1 DEF InOrder
    <3> QED
      BY <2>1, <2>2, <2>5, <3>2 DEF s
  <2> QED
    BY <2>4, <2>5
<1>4. n \in T
  <2> HIDE DEF T, n
  <2> QED
    BY <1>1, <1>2, <1>3, Steps
<1> QED
  BY <1>4 DEF PdfFindStartxrefSections

\* /Prev is an offset or there is none (PdfReadPrevAtXref).
LEMMA PrevIs ==
  ASSUME NEW file, Scanned(file), NEW offset \in Int
  PROVE  PdfReadPrevAtXref(file, offset) \in Nat \cup {NoPrev}
<1> DEFINE after == {i \in DOMAIN file : i > offset /\ IsDictionary(file[i])}
<1>1. DOMAIN file = 1..Len(file) /\ Len(file) \in Nat
  BY DEF Scanned
<1>2. CASE after # {}
  <2>1. after \in SUBSET Nat
    BY <1>1
  <2>2. Min(after) \in after
    BY <1>2, <2>1, SmallestOf
  <2>3. Min(after) \in 1..Len(file)
    BY <1>1, <2>2
  <2> HIDE DEF after
  <2>4. file[Min(after)] \in Marks
    BY <2>3 DEF Scanned
  <2>5. file[Min(after)].value \in Nat \cup {NoPrev}
    BY <2>4 DEF Marks
  <2> QED
    BY <2>5 DEF PdfReadPrevAtXref, after
<1>3. CASE after = {}
  BY <1>3 DEF PdfReadPrevAtXref
<1> QED
  BY <1>2, <1>3

\* The section of an offset that was seen is the last of those that name it (ByXref).
LEMMA ByXrefIs ==
  ASSUME NEW s \in Seq(Place), NEW offset, Observed(s, offset)
  PROVE  \E m \in 1..Len(s) :
           /\ ByXref(s, offset) = s[m] /\ s[m].xref = offset
           /\ \A k \in 1..Len(s) : s[k].xref = offset => k <= m
<1> DEFINE S == {k \in DOMAIN s : s[k].xref = offset}
<1>1. Len(s) \in Nat /\ DOMAIN s = 1..Len(s)
  OBVIOUS
<1>2. S \in SUBSET (1..Len(s)) /\ S # {}
  BY <1>1 DEF Observed
<1> HIDE DEF S
<1>3. Max(S) \in S /\ \A y \in S : y <= Max(S)
  BY <1>1, <1>2, GreatestOf
<1>4. Max(S) \in 1..Len(s) /\ s[Max(S)].xref = offset
  BY <1>2, <1>3 DEF S
<1>5. ASSUME NEW k \in 1..Len(s), s[k].xref = offset PROVE k <= Max(S)
  <2>1. k \in S
    BY <1>1, <1>5 DEF S
  <2> QED
    BY <1>3, <2>1
<1>6. ByXref(s, offset) = s[Max(S)]
  BY DEF ByXref, S
<1> QED
  BY <1>4, <1>5, <1>6

Links == [cur : Nat \cup {NoPrev}, chain : Seq(Place)]

\* A turn of the walk: it stops, or it adds the section it stands at (Turn).
Stops(s, cur, chain) ==
  cur < 0 \/ (\E k \in DOMAIN chain : chain[k].xref = cur) \/ ~Observed(s, cur)

\* A turn is one of the two.
LEMMA TurnIs ==
  ASSUME NEW file, Scanned(file), NEW s \in Seq(Place), NEW walk \in Links
  PROVE  /\ Turn(file, s, walk) \in Links
         /\ Stops(s, walk.cur, walk.chain) => Turn(file, s, walk) = walk
         /\ ~Stops(s, walk.cur, walk.chain) =>
              Turn(file, s, walk) =
                [cur |-> PdfReadPrevAtXref(file, walk.cur), chain |-> Append(walk.chain, ByXref(s, walk.cur))]
<1>1. walk.cur \in Nat \cup {NoPrev} /\ walk.chain \in Seq(Place) /\ walk.cur \in Int
  BY DEF Links, NoPrev
<1>2. Stops(s, walk.cur, walk.chain) => Turn(file, s, walk) = walk
  BY DEF Turn, Stops
<1>3. ASSUME ~Stops(s, walk.cur, walk.chain)
      PROVE  /\ Turn(file, s, walk) =
                  [cur |-> PdfReadPrevAtXref(file, walk.cur), chain |-> Append(walk.chain, ByXref(s, walk.cur))]
             /\ Turn(file, s, walk) \in Links
  <2>1. Turn(file, s, walk) =
          [cur |-> PdfReadPrevAtXref(file, walk.cur), chain |-> Append(walk.chain, ByXref(s, walk.cur))]
    BY <1>3 DEF Turn, Stops
  <2>2. Observed(s, walk.cur)
    BY <1>3 DEF Stops
  <2>3. ByXref(s, walk.cur) \in Place
    BY <2>2, ByXrefIs
  <2>4. PdfReadPrevAtXref(file, walk.cur) \in Nat \cup {NoPrev}
    BY <1>1, PrevIs
  <2>5. Append(walk.chain, ByXref(s, walk.cur)) \in Seq(Place)
    BY <1>1, <2>3
  <2> QED
    BY <2>1, <2>4, <2>5 DEF Links
<1> QED
  BY <1>2, <1>3

\* The walk is defined, and each turn follows from the one before (Walk).
LEMMA WalkIs ==
  ASSUME NEW file, Scanned(file), NEW s \in Seq(Place), s # <<>>
  PROVE  /\ Walk(file, s)[0] = [cur |-> Last(s).xref, chain |-> <<>>]
         /\ \A n \in 0..Len(s) : Walk(file, s)[n] \in Links
         /\ \A n \in 1..Len(s) : Walk(file, s)[n] = Turn(file, s, Walk(file, s)[n - 1])
<1> DEFINE m == Len(s)
           base == [cur |-> Last(s).xref, chain |-> <<>>]
           step == [x \in Links \X (1..m) |-> Turn(file, s, x[1])]
           Eq(walk) == walk = [n \in 0..m |-> IF n = 0 THEN base ELSE Turn(file, s, walk[n - 1])]
           walk == CHOOSE walk : Eq(walk)
<1>1. m \in Nat /\ base \in Links
  <2>1. m \in 1..Len(s) /\ Last(s) = s[m]
    BY DEF Last
  <2>2. s[m] \in Place
    BY <2>1
  <2>3. Last(s).xref \in Nat
    BY <2>1, <2>2 DEF Place
  <2>4. <<>> \in Seq(Place)
    OBVIOUS
  <2> QED
    BY <2>1, <2>3, <2>4 DEF Links
<1>2. \A x \in Links : Turn(file, s, x) \in Links
  BY TurnIs
<1>3. step \in [Links \X (1..m) -> Links]
  <2> SUFFICES ASSUME NEW x \in Links \X (1..m) PROVE Turn(file, s, x[1]) \in Links
    OBVIOUS
  <2>1. x[1] \in Links
    OBVIOUS
  <2> QED
    BY <1>2, <2>1
<1>4. PICK f \in [0..m -> Links] : Recurs(f, m, base, step)
  <2> HIDE DEF step, m, base
  <2> QED
    BY <1>1, <1>3, Recursion
<1>5. ASSUME NEW n \in 0..m
      PROVE  f[n] = IF n = 0 THEN base ELSE Turn(file, s, f[n - 1])
  <2>1. CASE n = 0
    BY <1>4, <2>1 DEF Recurs
  <2>2. CASE n # 0
    <3>1. n \in 1..m /\ n - 1 \in 0..m
      BY <1>1, <2>2
    <3>2. f[n - 1] \in Links
      BY <3>1
    <3>3. f[n] = step[<<f[n - 1], n>>]
      BY <1>4, <3>1 DEF Recurs
    <3>4. step[<<f[n - 1], n>>] = Turn(file, s, f[n - 1])
      BY <3>1, <3>2
    <3> QED
      BY <2>2, <3>3, <3>4
  <2> QED
    BY <2>1, <2>2
<1>6. Eq(f)
  <2>1. f = [n \in 0..m |-> f[n]]
    OBVIOUS
  <2> HIDE DEF m, base
  <2> QED
    BY <1>5, <2>1
<1>7. Eq(walk)
  BY <1>6
<1>8. Walk(file, s) = walk
  BY DEF Walk
<1> HIDE DEF walk
<1>9. ASSUME NEW n \in 0..m
      PROVE  walk[n] = IF n = 0 THEN base ELSE Turn(file, s, walk[n - 1])
  <2> HIDE DEF m, base
  <2> QED
    BY <1>7
<1>10. walk[0] = base /\ \A n \in 1..m : walk[n] = Turn(file, s, walk[n - 1])
  BY <1>1, <1>9
<1> DEFINE T == {n \in 0..m : walk[n] \in Links}
<1>11. \A n \in 0..m : n \in T
  <2>1. 0 \in T
    BY <1>1, <1>10
  <2>2. ASSUME NEW n \in 0..(m - 1), n \in T PROVE n + 1 \in T
    <3>1. n + 1 \in 1..m /\ n + 1 \in 0..m /\ (n + 1) - 1 = n
      BY <1>1
    <3>2. walk[n + 1] = Turn(file, s, walk[n])
      BY <1>10, <3>1
    <3> QED
      BY <1>2, <2>2, <3>1, <3>2
  <2> HIDE DEF T, m
  <2> QED
    BY <1>1, <2>1, <2>2, Steps
<1> HIDE DEF m
<1> QED
  BY <1>8, <1>10, <1>11 DEF m

\* A chain from the newest section: each of its sections is the last of its offset,
\* none comes twice, each is the /Prev of the one before it, and cur is the /Prev of
\* the last one.
ChainTrue(file, s, cur, chain) ==
  /\ chain \in Seq(Place) /\ cur \in Nat \cup {NoPrev}
  /\ \A k \in 1..Len(chain) : Observed(s, chain[k].xref) /\ chain[k] = ByXref(s, chain[k].xref)
  /\ \A j, k \in 1..Len(chain) : chain[j].xref = chain[k].xref => j = k
  /\ chain = <<>> => cur = Last(s).xref
  /\ chain # <<>> => chain[1].xref = Last(s).xref /\ cur = PdfReadPrevAtXref(file, chain[Len(chain)].xref)
  /\ \A k \in 2..Len(chain) : chain[k].xref = PdfReadPrevAtXref(file, chain[k - 1].xref)

\* A turn that does not stop makes the chain longer.
LEMMA ChainGrows ==
  ASSUME NEW file, Scanned(file), NEW s \in Seq(Place), NEW cur, NEW chain,
         ChainTrue(file, s, cur, chain), ~Stops(s, cur, chain)
  PROVE  ChainTrue(file, s, PdfReadPrevAtXref(file, cur), Append(chain, ByXref(s, cur)))
<1> DEFINE n == Len(chain)
           new == ByXref(s, cur)
           more == Append(chain, new)
           prev(offset) == PdfReadPrevAtXref(file, offset)
<1>1. /\ chain \in Seq(Place) /\ n \in Nat /\ DOMAIN chain = 1..n /\ cur \in Int
      /\ Observed(s, cur) /\ \A k \in 1..n : chain[k].xref # cur
  BY DEF ChainTrue, Stops, NoPrev
<1>2. new \in Place /\ new.xref = cur
  BY <1>1, ByXrefIs
<1>3. prev(cur) \in Nat \cup {NoPrev}
  BY <1>1, PrevIs
<1> HIDE DEF prev, new
<1>4. more \in Seq(Place) /\ Len(more) = n + 1 /\ more[n + 1] = new /\ (\A k \in 1..n : more[k] = chain[k])
      /\ more # <<>>
  BY <1>1, <1>2
<1> HIDE DEF more, n
<1>5. ASSUME NEW k \in 1..Len(more) PROVE k \in 1..n \/ k = n + 1
  BY <1>1, <1>4
<1>6. ASSUME NEW k \in 1..Len(more)
      PROVE  Observed(s, more[k].xref) /\ more[k] = ByXref(s, more[k].xref)
  <2>1. CASE k \in 1..n
    BY <1>4, <2>1 DEF ChainTrue, n
  <2>2. CASE k = n + 1
    BY <1>1, <1>2, <1>4, <2>2 DEF new
  <2> QED
    BY <1>5, <2>1, <2>2
<1>7. ASSUME NEW j \in 1..Len(more), NEW k \in 1..Len(more), more[j].xref = more[k].xref
      PROVE  j = k
  <2>1. CASE j \in 1..n /\ k \in 1..n
    BY <1>4, <1>7, <2>1 DEF ChainTrue, n
  <2>2. CASE j = n + 1 /\ k \in 1..n
    BY <1>1, <1>2, <1>4, <1>7, <2>2
  <2>3. CASE j \in 1..n /\ k = n + 1
    BY <1>1, <1>2, <1>4, <1>7, <2>3
  <2> QED
    BY <1>5, <2>1, <2>2, <2>3
<1>8. more[1].xref = Last(s).xref
  <2>1. CASE n = 0
    <3>1. chain = <<>>
      BY <1>1, <2>1 DEF n
    <3> QED
      BY <1>2, <1>4, <2>1, <3>1 DEF ChainTrue
  <2>2. CASE n # 0
    <3>1. chain # <<>> /\ 1 \in 1..n
      BY <1>1, <2>2 DEF n
    <3> QED
      BY <1>4, <3>1 DEF ChainTrue
  <2> QED
    BY <2>1, <2>2
<1>9. prev(cur) = prev(more[Len(more)].xref)
  BY <1>2, <1>4
<1>10. ASSUME NEW k \in 2..Len(more)
       PROVE  more[k].xref = prev(more[k - 1].xref)
  <2>1. k - 1 \in 1..n /\ more[k - 1] = chain[k - 1]
    BY <1>1, <1>4, SMTT(60)
  <2>2. CASE k \in 2..n
    <3>1. more[k] = chain[k] /\ chain[k].xref = prev(chain[k - 1].xref)
      BY <1>4, <2>2 DEF ChainTrue, n, prev
    <3> QED
      BY <2>1, <3>1
  <2>3. CASE k = n + 1
    <3>1. chain # <<>> /\ k - 1 = n
      BY <1>1, <2>1, <2>3 DEF n
    <3>2. cur = prev(chain[n].xref)
      BY <3>1 DEF ChainTrue, n, prev
    <3> QED
      BY <1>2, <1>4, <2>1, <2>3, <3>1, <3>2
  <2> QED
    BY <1>1, <1>4, <2>2, <2>3
<1> QED
  BY <1>3, <1>4, <1>6, <1>7, <1>8, <1>9, <1>10 DEF ChainTrue, more, new, prev

\* After n turns the walk has stopped, or there are n sections in the chain.
WalkTrue(file, s, n, cur, chain) == ChainTrue(file, s, cur, chain) /\ (Stops(s, cur, chain) \/ Len(chain) = n)

\* One more turn keeps what is known of the walk.
LEMMA WalkGrows ==
  ASSUME NEW file, Scanned(file), NEW s \in Seq(Place), s # <<>>
  PROVE  \A n \in 0..Len(s) : WalkTrue(file, s, n, Walk(file, s)[n].cur, Walk(file, s)[n].chain)
<1> DEFINE m == Len(s)
           walk == Walk(file, s)
           T == {n \in 0..m : WalkTrue(file, s, n, walk[n].cur, walk[n].chain)}
<1>1. m \in Nat
  OBVIOUS
<1>2. 0 \in T
  <2>1. walk[0] = [cur |-> Last(s).xref, chain |-> <<>>]
    BY WalkIs
  <2>2. walk[0] \in Links
    <3>1. 0 \in 0..Len(s)
      BY <1>1
    <3> QED
      BY <3>1, WalkIs
  <2>3. walk[0].cur = Last(s).xref /\ walk[0].chain = <<>> /\ walk[0].cur \in Nat \cup {NoPrev}
    <3> HIDE DEF walk
    <3>1. walk[0].cur = Last(s).xref /\ walk[0].chain = <<>>
      BY <2>1
    <3>2. walk[0].cur \in Nat \cup {NoPrev}
      BY <2>2 DEF Links
    <3> QED
      BY <3>1, <3>2
  <2>4. <<>> \in Seq(Place) /\ Len(<<>>) = 0 /\ (\A k \in 1..0 : FALSE) /\ (\A k \in 2..0 : FALSE)
    OBVIOUS
  <2> HIDE DEF walk
  <2>5. ChainTrue(file, s, walk[0].cur, <<>>)
    <3> DEFINE cur == walk[0].cur
               chain == <<>>
    <3>1. cur = Last(s).xref /\ cur \in Nat \cup {NoPrev}
      BY <2>3
    <3>2. chain \in Seq(Place) /\ Len(chain) = 0 /\ chain = <<>>
      BY <2>4
    <3> HIDE DEF cur, chain
    <3>3. ChainTrue(file, s, cur, chain)
      BY <2>4, <3>1, <3>2 DEF ChainTrue
    <3> QED
      BY <3>3 DEF cur, chain
  <2> QED
    BY <1>1, <2>3, <2>4, <2>5 DEF WalkTrue
<1>3. ASSUME NEW n \in 0..(m - 1), n \in T
      PROVE  n + 1 \in T
  <2>1. n + 1 \in 1..m /\ n + 1 \in 0..m /\ (n + 1) - 1 = n /\ n \in 0..m /\ n \in Nat
    BY <1>1
  <2>2. walk[n] \in Links /\ walk[n + 1] = Turn(file, s, walk[n])
    BY <2>1, WalkIs
  <2>3. WalkTrue(file, s, n, walk[n].cur, walk[n].chain)
    BY <1>3
  <2> HIDE DEF walk
  <2> DEFINE cur == walk[n].cur
             chain == walk[n].chain
  <2>4. CASE Stops(s, cur, chain)
    <3>1. walk[n + 1] = walk[n]
      BY <2>2, <2>4, TurnIs
    <3> QED
      BY <2>1, <2>3, <2>4, <3>1 DEF WalkTrue
  <2>5. CASE ~Stops(s, cur, chain)
    <3>1. walk[n + 1] = [cur |-> PdfReadPrevAtXref(file, cur), chain |-> Append(chain, ByXref(s, cur))]
      BY <2>2, <2>5, TurnIs
    <3>2. ChainTrue(file, s, cur, chain) /\ Len(chain) = n /\ chain \in Seq(Place)
      BY <2>3, <2>5 DEF WalkTrue, ChainTrue
    <3> HIDE DEF cur, chain
    <3>3. ChainTrue(file, s, PdfReadPrevAtXref(file, cur), Append(chain, ByXref(s, cur)))
      BY <2>5, <3>2, ChainGrows
    <3>4. Observed(s, cur)
      BY <2>5 DEF Stops
    <3>5. ByXref(s, cur) \in Place
      BY <3>4, ByXrefIs
    <3>6. Len(Append(chain, ByXref(s, cur))) = n + 1
      BY <3>2, <3>5
    <3>7. WalkTrue(file, s, n + 1, walk[n + 1].cur, walk[n + 1].chain)
      BY <3>1, <3>3, <3>6 DEF WalkTrue
    <3> QED
      BY <2>1, <3>7
  <2> QED
    BY <2>4, <2>5
<1> HIDE DEF T, m
<1>4. \A n \in 0..m : n \in T
  BY <1>1, <1>2, <1>3, Steps
<1> QED
  BY <1>4 DEF T, m

\* There are no more offsets in a chain than sections in the file: after as many
\* turns as that the walk has stopped, and has sections.
LEMMA WalkStops ==
  ASSUME NEW file, Scanned(file), NEW s \in Seq(Place), s # <<>>, NEW cur, NEW chain,
         WalkTrue(file, s, Len(s), cur, chain)
  PROVE  Stops(s, cur, chain) /\ chain # <<>>
<1> DEFINE n == Len(s)
           offset(k) == IF k = n + 1 THEN cur ELSE chain[k].xref
           place(k) == CHOOSE i \in 1..n : s[i].xref = offset(k)
           f == [k \in 1..(n + 1) |-> place(k)]
<1>1. n \in Nat /\ n # 0 /\ DOMAIN s = 1..n /\ chain \in Seq(Place)
  BY DEF WalkTrue, ChainTrue
<1>2. Stops(s, cur, chain)
  <2> SUFFICES ASSUME ~Stops(s, cur, chain) PROVE FALSE
    OBVIOUS
  <2>1. Len(chain) = n /\ ChainTrue(file, s, cur, chain) /\ DOMAIN chain = 1..n
    BY <1>1 DEF WalkTrue
  <2>2. Observed(s, cur) /\ \A k \in 1..n : chain[k].xref # cur
    BY <2>1 DEF Stops
  <2>3. ASSUME NEW k \in 1..(n + 1)
        PROVE  \E i \in 1..n : s[i].xref = offset(k)
    <3>1. CASE k = n + 1
      BY <1>1, <2>2, <3>1 DEF Observed
    <3>2. CASE k # n + 1
      <4>1. k \in 1..n
        BY <1>1, <3>2
      <4>2. Observed(s, chain[k].xref)
        BY <2>1, <4>1 DEF ChainTrue
      <4> QED
        BY <1>1, <3>2, <4>2 DEF Observed
    <3> QED
      BY <3>1, <3>2
  <2>4. \A k \in 1..(n + 1) : place(k) \in 1..n /\ s[place(k)].xref = offset(k)
    BY <2>3
  <2> HIDE DEF place
  <2>5. f \in [1..(n + 1) -> 1..n]
    BY <2>4
  <2>6. IsFiniteSet(1..(n + 1)) /\ IsFiniteSet(1..n) /\ Cardinality(1..n) = n /\ Cardinality(1..(n + 1)) = n + 1
    BY <1>1, FS_Interval
  <2>7. \E x, y \in 1..(n + 1) : x # y /\ f[x] = f[y]
    <3> HIDE DEF f, n
    <3>1. Cardinality(1..n) < Cardinality(1..(n + 1))
      BY <1>1, <2>6
    <3> QED
      BY <2>5, <2>6, <3>1, FS_PigeonHole
  <2>8. PICK x, y \in 1..(n + 1) : x # y /\ f[x] = f[y]
    BY <2>7
  <2>9. place(x) = place(y)
    BY <2>8
  <2>10. offset(x) = offset(y)
    BY <2>4, <2>9
  <2>11. CASE x \in 1..n /\ y \in 1..n
    BY <1>1, <2>1, <2>8, <2>10, <2>11 DEF ChainTrue
  <2>12. CASE x = n + 1 /\ y \in 1..n
    BY <1>1, <2>2, <2>10, <2>12
  <2>13. CASE y = n + 1 /\ x \in 1..n
    BY <1>1, <2>2, <2>10, <2>13
  <2> QED
    BY <1>1, <2>8, <2>11, <2>12, <2>13
<1>3. ASSUME chain = <<>> PROVE FALSE
  <2>1. cur = Last(s).xref /\ DOMAIN chain = {}
    BY <1>3 DEF WalkTrue, ChainTrue
  <2>2. Last(s) = s[n] /\ n \in 1..n
    BY <1>1 DEF Last
  <2>3. s[n] \in Place
    BY <2>2
  <2>4. cur \in Nat
    BY <2>1, <2>2, <2>3 DEF Place
  <2>5. Observed(s, cur)
    BY <1>1, <2>1, <2>2 DEF Observed
  <2> QED
    BY <1>2, <2>1, <2>4, <2>5 DEF Stops
<1> QED
  BY <1>2, <1>3

\* The rows of a chain, oldest first.
EndOf(chain, i) == IF i = 0 THEN 0 ELSE chain[i].eof
SizeOf(chain, i) ==
  IF EndOf(chain, i) < EndOf(chain, i - 1) THEN 0 ELSE EndOf(chain, i) - EndOf(chain, i - 1)
RowsOf(chain) ==
  [i \in DOMAIN chain |->
     [xref |-> chain[i].xref, eof |-> chain[i].eof, size |-> SizeOf(chain, i), incremental |-> i > 1]]

\* The answer is the rows of the chain (EnumeratePdfRevisions).
LEMMA RowsAre ==
  ASSUME NEW file
  PROVE  LET s == PdfFindStartxrefSections(file)
         IN EnumeratePdfRevisions(file) = IF s = <<>> THEN <<>> ELSE RowsOf(PrevChain(file, s))
  BY DEF EnumeratePdfRevisions, RowsOf, SizeOf, EndOf

\* The chain of the newest section, oldest first.
Linked(file, s, r) ==
  /\ r \in Seq(Place) /\ r # <<>>
  /\ r[Len(r)].xref = Last(s).xref
  /\ \A i \in 2..Len(r) : PdfReadPrevAtXref(file, r[i].xref) = r[i - 1].xref
  /\ \A i, j \in 1..Len(r) : r[i].xref = r[j].xref => i = j
  /\ \A i \in 1..Len(r) : Observed(s, r[i].xref) /\ r[i] = ByXref(s, r[i].xref)
  /\ LET oldest == PdfReadPrevAtXref(file, r[1].xref)
     IN oldest = NoPrev \/ ~Observed(s, oldest) \/ \E i \in 1..Len(r) : r[i].xref = oldest

\* A chain of the walk, reversed, is linked.
LEMMA ChainLinked ==
  ASSUME NEW file, Scanned(file), NEW s \in Seq(Place), s # <<>>
  PROVE  Linked(file, s, PrevChain(file, s))
<1> DEFINE cur == Walk(file, s)[Len(s)].cur
           c == Walk(file, s)[Len(s)].chain
           m == Len(c)
           r == PrevChain(file, s)
<1>1. WalkTrue(file, s, Len(s), cur, c)
  <2>1. Len(s) \in 0..Len(s)
    OBVIOUS
  <2> QED
    BY <2>1, WalkGrows
<1>2. r = Reverse(c)
  BY DEF PrevChain
<1> HIDE DEF cur, c, r
<1>3. Stops(s, cur, c) /\ c # <<>> /\ ChainTrue(file, s, cur, c)
  BY <1>1, WalkStops DEF WalkTrue
<1>4. c \in Seq(Place) /\ m \in Nat /\ m >= 1 /\ DOMAIN c = 1..m
  BY <1>3 DEF ChainTrue
<1>5. r = [i \in 1..m |-> c[(m - i) + 1]]
  BY <1>2 DEF Reverse
<1> HIDE DEF m
<1>6. \A i \in 1..m : (m - i) + 1 \in 1..m /\ r[i] = c[(m - i) + 1]
  BY <1>4, <1>5
<1>7. r \in Seq(Place) /\ Len(r) = m /\ r # <<>>
  <2>1. \A i \in 1..m : c[(m - i) + 1] \in Place
    BY <1>4, <1>6
  <2>2. r \in [1..m -> Place]
    BY <1>5, <2>1
  <2>3. r \in Seq(Place) /\ Len(r) = m
    BY <1>4, <2>2, SeqDef
  <2> QED
    BY <1>4, <2>3
<1>8. r[m].xref = Last(s).xref
  <2>1. m \in 1..m /\ (m - m) + 1 = 1
    BY <1>4
  <2> QED
    BY <1>3, <1>6, <2>1 DEF ChainTrue
<1>9. ASSUME NEW i \in 2..m
      PROVE  PdfReadPrevAtXref(file, r[i].xref) = r[i - 1].xref
  <2>1. i \in 1..m /\ i - 1 \in 1..m /\ (m - i) + 2 \in 2..m /\ (m - (i - 1)) + 1 = (m - i) + 2
        /\ ((m - i) + 2) - 1 = (m - i) + 1
    BY <1>4
  <2>2. r[i] = c[(m - i) + 1] /\ r[i - 1] = c[(m - i) + 2]
    BY <1>6, <2>1
  <2>3. c[(m - i) + 2].xref = PdfReadPrevAtXref(file, c[(m - i) + 1].xref)
    BY <1>3, <2>1 DEF ChainTrue, m
  <2> QED
    BY <2>2, <2>3
<1>10. ASSUME NEW i \in 1..m, NEW j \in 1..m, r[i].xref = r[j].xref
       PROVE  i = j
  <2>1. c[(m - i) + 1].xref = c[(m - j) + 1].xref /\ (m - i) + 1 \in 1..m /\ (m - j) + 1 \in 1..m
    BY <1>6, <1>10
  <2>2. (m - i) + 1 = (m - j) + 1
    <3>1. \A k, l \in 1..m : c[k].xref = c[l].xref => k = l
      BY <1>3 DEF ChainTrue, m
    <3> QED
      BY <2>1, <3>1
  <2> QED
    BY <1>4, <2>2
<1>11. \A i \in 1..m : Observed(s, r[i].xref) /\ r[i] = ByXref(s, r[i].xref)
  BY <1>3, <1>6, SMTT(60) DEF ChainTrue, m
<1>12. cur = PdfReadPrevAtXref(file, r[1].xref)
  <2>1. 1 \in 1..m /\ (m - 1) + 1 = m
    BY <1>4
  <2> QED
    BY <1>3, <1>6, <2>1 DEF ChainTrue, m
<1>13. cur = NoPrev \/ ~Observed(s, cur) \/ \E i \in 1..m : r[i].xref = cur
  <2>1. CASE cur < 0
    BY <1>3, <2>1 DEF ChainTrue, NoPrev
  <2>2. ASSUME NEW k \in 1..m, c[k].xref = cur
        PROVE  \E i \in 1..m : r[i].xref = cur
    <3>1. (m - k) + 1 \in 1..m /\ (m - ((m - k) + 1)) + 1 = k
      BY <1>4
    <3>2. r[(m - k) + 1] = c[k]
      BY <1>6, <3>1
    <3> QED
      BY <2>2, <3>1, <3>2
  <2> QED
    BY <1>3, <1>4, <2>1, <2>2 DEF Stops
<1> QED
  BY <1>7, <1>8, <1>9, <1>10, <1>11, <1>12, <1>13 DEF Linked, r

\* The rows are the links of the /Prev chain (EnumeratePdfRevisions).
LEMMA PrevIsFollowed ==
  ASSUME NEW file, Scanned(file)
  PROVE  FollowsPrev(file, EnumeratePdfRevisions(file))
<1> DEFINE s == PdfFindStartxrefSections(file)
           r == PrevChain(file, s)
           rows == EnumeratePdfRevisions(file)
           m == Len(r)
<1>1. InOrder(s, Len(file) + 2)
  BY SectionsInOrder
<1> HIDE DEF s
<1>2. s \in Seq(Place)
  BY <1>1 DEF InOrder
<1>3. CASE s = <<>>
  <2>1. rows = <<>>
    BY <1>3, RowsAre DEF s
  <2> HIDE DEF rows
  <2> QED
    BY <1>3, <2>1 DEF FollowsPrev, s, rows
<1>4. CASE s # <<>>
  <2>1. Linked(file, s, r)
    BY <1>2, <1>4, ChainLinked
  <2>2. rows = RowsOf(r)
    BY <1>4, RowsAre DEF s
  <2> HIDE DEF r, rows
  <2>3. r \in Seq(Place) /\ m \in Nat /\ m >= 1 /\ DOMAIN r = 1..m
    BY <2>1 DEF Linked
  <2> HIDE DEF m
  <2>4. DOMAIN rows = 1..m /\ Len(rows) = m /\ rows # <<>> /\ Last(rows) = rows[m] /\ m \in 1..m
        /\ \A i \in 1..m : rows[i].xref = r[i].xref /\ rows[i].eof = r[i].eof
    <3>1. DOMAIN rows = 1..m /\ \A i \in 1..m : rows[i].xref = r[i].xref /\ rows[i].eof = r[i].eof
      BY <2>2, <2>3 DEF RowsOf
    <3>2. rows = [i \in 1..m |-> rows[i]]
      BY <2>2, <2>3 DEF RowsOf
    <3>3. Len(rows) = m
      BY <2>3, <3>2
    <3> QED
      BY <2>3, <3>1, <3>3 DEF Last
  <2>5. ASSUME NEW i \in 1..m, NEW k \in 1..Len(s), s[k].xref = r[i].xref
        PROVE  s[k].eof <= r[i].eof
    <3>1. Observed(s, r[i].xref) /\ r[i] = ByXref(s, r[i].xref)
      BY <2>1 DEF Linked, m
    <3>2. PICK j \in 1..Len(s) :
             /\ ByXref(s, r[i].xref) = s[j]
             /\ \A l \in 1..Len(s) : s[l].xref = r[i].xref => l <= j
      BY <1>2, <3>1, ByXrefIs
    <3>3. k <= j /\ r[i] = s[j]
      BY <2>5, <3>1, <3>2
    <3>4. s[j].eof \in Nat /\ s[k].eof \in Nat
      <4>1. s[j] \in Place /\ s[k] \in Place
        BY <1>2
      <4> QED
        BY <4>1 DEF Place
    <3>5. k < j => s[k].eof < s[j].eof
      BY <1>1 DEF InOrder
    <3> QED
      BY <3>3, <3>4, <3>5
  <2>6. Last(s) = s[Len(s)] /\ Len(s) \in 1..Len(s) /\ DOMAIN s = 1..Len(s)
    BY <1>2, <1>4 DEF Last
  <2>7. r[m].xref = Last(s).xref
    BY <2>1 DEF Linked, m
  <2>8. r[m].eof = Last(s).eof
    <3>1. Observed(s, r[m].xref) /\ r[m] = ByXref(s, r[m].xref)
      BY <2>1, <2>4 DEF Linked, m
    <3>2. PICK j \in 1..Len(s) :
             /\ ByXref(s, r[m].xref) = s[j]
             /\ \A l \in 1..Len(s) : s[l].xref = r[m].xref => l <= j
      BY <1>2, <3>1, ByXrefIs
    <3>3. s[Len(s)].xref = r[m].xref
      BY <2>6, <2>7
    <3>4. Len(s) <= j /\ Len(s) \in Nat
      BY <1>2, <2>6, <3>2, <3>3
    <3>5. j = Len(s)
      BY <3>4
    <3> QED
      BY <2>6, <3>1, <3>2, <3>5
  <2>9. /\ \A i \in 2..m : PdfReadPrevAtXref(file, rows[i].xref) = rows[i - 1].xref
        /\ \A i, j \in 1..m : rows[i].xref = rows[j].xref => i = j
    <3>1. \A i \in 2..m : i \in 1..m /\ i - 1 \in 1..m
      BY <2>3
    <3> QED
      BY <2>1, <2>4, <3>1 DEF Linked, m
  <2>10. LET oldest == PdfReadPrevAtXref(file, rows[1].xref)
         IN oldest = NoPrev \/ ~Observed(s, oldest) \/ \E i \in 1..m : rows[i].xref = oldest
    <3>1. rows[1].xref = r[1].xref
      BY <2>3, <2>4
    <3> QED
      BY <2>1, <2>4, <3>1 DEF Linked, m
  <2>11. \A i \in DOMAIN rows, k \in DOMAIN s : s[k].xref = rows[i].xref => s[k].eof <= rows[i].eof
    BY <2>4, <2>5, <2>6
  <2>12. Last(rows).xref = Last(s).xref /\ Last(rows).eof = Last(s).eof
    BY <2>4, <2>7, <2>8
  <2>13. /\ \A i \in 2..Len(rows) : PdfReadPrevAtXref(file, rows[i].xref) = rows[i - 1].xref
         /\ \A i, j \in DOMAIN rows : rows[i].xref = rows[j].xref => i = j
    BY <2>4, <2>9
  <2>14. LET oldest == PdfReadPrevAtXref(file, rows[1].xref)
         IN oldest = NoPrev \/ ~Observed(s, oldest) \/ \E i \in DOMAIN rows : rows[i].xref = oldest
    BY <2>4, <2>10
  <2>15. rows # <<>> /\ s # <<>>
    BY <1>4, <2>4
  <2> QED
    BY <2>11, <2>12, <2>13, <2>14, <2>15, Zenon DEF FollowsPrev, s, rows
<1> QED
  BY <1>3, <1>4

\* In a file that only grew the walk goes through the sections one by one, from the
\* last to the first.
Retraced(s, n, cur, chain) ==
  /\ chain \in Seq(Place) /\ Len(chain) = n
  /\ \A k \in 1..n : chain[k] = s[(Len(s) - k) + 1]
  /\ n < Len(s) => cur = s[Len(s) - n].xref

\* So the chain of a file that only grew is all its sections.
LEMMA GrownRetraced ==
  ASSUME NEW file, Scanned(file), Grown(file)
  PROVE  LET s == PdfFindStartxrefSections(file)
         IN s \in Seq(Place) /\ s # <<>> /\ PrevChain(file, s) = s
<1> DEFINE s == PdfFindStartxrefSections(file)
           m == Len(s)
           walk == Walk(file, s)
           T == {n \in 0..m : Retraced(s, n, walk[n].cur, walk[n].chain)}
<1>1. /\ s \in Seq(Place) /\ s # <<>>
      /\ \A k \in 2..m : PdfReadPrevAtXref(file, s[k].xref) = s[k - 1].xref
      /\ \A j, k \in 1..m : s[j].xref = s[k].xref => j = k
  <2>1. s \in Seq(Place)
    BY SectionsInOrder DEF InOrder
  <2>2. DOMAIN s = 1..m
    BY <2>1
  <2> QED
    BY <2>1, <2>2 DEF Grown
<1> HIDE DEF s
<1>2. m \in Nat /\ m >= 1 /\ DOMAIN s = 1..m
  BY <1>1
<1> HIDE DEF m
<1>3. 0 \in T
  <2>1. walk[0] = [cur |-> Last(s).xref, chain |-> <<>>]
    BY <1>1, WalkIs
  <2>2. walk[0].cur = s[m].xref /\ walk[0].chain = <<>>
    BY <2>1 DEF Last, m
  <2>3. <<>> \in Seq(Place) /\ Len(<<>>) = 0 /\ (\A k \in 1..0 : FALSE) /\ m - 0 = m
    BY <1>2
  <2> HIDE DEF walk
  <2> DEFINE cur == walk[0].cur
             chain == walk[0].chain
  <2>4. chain \in Seq(Place) /\ Len(chain) = 0 /\ cur = s[m - 0].xref
    BY <2>2, <2>3
  <2> HIDE DEF cur, chain
  <2>5. Retraced(s, 0, cur, chain)
    BY <2>3, <2>4 DEF Retraced, m
  <2> QED
    BY <1>2, <2>5 DEF cur, chain
<1>4. ASSUME NEW n \in 0..(m - 1), n \in T
      PROVE  n + 1 \in T
  <2>1. n + 1 \in 1..m /\ n + 1 \in 0..m /\ (n + 1) - 1 = n /\ n \in 0..m /\ n \in Nat /\ n < m /\ m - n \in 1..m
    BY <1>2
  <2>2. walk[n] \in Links /\ walk[n + 1] = Turn(file, s, walk[n])
    <3>1. /\ \A k \in 0..m : walk[k] \in Links
          /\ \A k \in 1..m : walk[k] = Turn(file, s, walk[k - 1])
      BY <1>1, WalkIs DEF m
    <3> HIDE DEF walk
    <3> QED
      BY <2>1, <3>1
  <2> DEFINE cur == walk[n].cur
             chain == walk[n].chain
  <2>3. Retraced(s, n, cur, chain)
    BY <1>4
  <2> HIDE DEF walk, cur, chain
  <2>4. /\ chain \in Seq(Place) /\ Len(chain) = n /\ DOMAIN chain = 1..n /\ cur = s[m - n].xref
        /\ \A k \in 1..n : chain[k] = s[(m - k) + 1]
    BY <2>1, <2>3 DEF Retraced, m
  <2>5. s[m - n] \in Place /\ cur \in Nat
    <3>1. s[m - n] \in Place
      BY <1>1, <2>1 DEF m
    <3> QED
      BY <2>4, <3>1 DEF Place
  <2>6. Observed(s, cur)
    BY <1>2, <2>1, <2>4 DEF Observed
  <2>7. ASSUME NEW k \in DOMAIN chain PROVE chain[k].xref # cur
    <3>1. k \in 1..n /\ (m - k) + 1 \in 1..m /\ (m - k) + 1 # m - n
      BY <1>2, <2>1, <2>4
    <3>2. s[(m - k) + 1].xref # s[m - n].xref
      BY <1>1, <2>1, <3>1
    <3> QED
      BY <2>4, <3>1, <3>2
  <2>8. ~Stops(s, cur, chain)
    BY <2>5, <2>6, <2>7 DEF Stops
  <2>9. ByXref(s, cur) = s[m - n]
    <3>1. PICK j \in 1..m : ByXref(s, cur) = s[j] /\ s[j].xref = cur
      BY <1>1, <2>6, ByXrefIs DEF m
    <3>2. j = m - n
      BY <1>1, <2>1, <2>4, <3>1
    <3> QED
      BY <3>1, <3>2
  <2> DEFINE more == Append(chain, s[m - n])
             prev == PdfReadPrevAtXref(file, cur)
  <2>10. walk[n + 1] = [cur |-> prev, chain |-> more]
    <3> DEFINE w == walk[n]
    <3>1. w \in Links /\ walk[n + 1] = Turn(file, s, w) /\ cur = w.cur /\ chain = w.chain /\ s \in Seq(Place)
      BY <1>1, <2>2 DEF cur, chain
    <3> HIDE DEF w, more, prev
    <3>2. ~Stops(s, w.cur, w.chain)
      BY <2>8, <3>1
    <3>3. Turn(file, s, w) = [cur |-> PdfReadPrevAtXref(file, w.cur), chain |-> Append(w.chain, ByXref(s, w.cur))]
      BY <3>1, <3>2, TurnIs
    <3> QED
      BY <2>9, <3>1, <3>3 DEF more, prev
  <2>11. more \in Seq(Place) /\ Len(more) = n + 1 /\ more[n + 1] = s[m - n] /\ \A k \in 1..n : more[k] = chain[k]
    BY <2>4, <2>5
  <2>12. n + 1 < m => prev = s[m - (n + 1)].xref
    <3> SUFFICES ASSUME n + 1 < m PROVE prev = s[m - (n + 1)].xref
      OBVIOUS
    <3>1. m - n \in 2..m /\ (m - n) - 1 = m - (n + 1)
      BY <1>2, <2>1
    <3> QED
      BY <1>1, <2>4, <3>1
  <2> HIDE DEF more, prev
  <2>13. ASSUME NEW k \in 1..(n + 1) PROVE more[k] = s[(m - k) + 1]
    <3>1. CASE k \in 1..n
      BY <2>4, <2>11, <3>1
    <3>2. CASE k = n + 1
      <4>1. (m - k) + 1 = m - n
        BY <1>2, <2>1, <3>2
      <4> QED
        BY <2>11, <3>2, <4>1
    <3> QED
      BY <2>1, <3>1, <3>2
  <2>14. Retraced(s, n + 1, prev, more)
    BY <2>11, <2>12, <2>13 DEF Retraced, m
  <2>15. walk[n + 1].cur = prev /\ walk[n + 1].chain = more
    BY <2>10
  <2> QED
    BY <2>1, <2>14, <2>15
<1>5. m \in T
  <2> HIDE DEF T
  <2>1. \A n \in 0..m : n \in T
    BY <1>2, <1>3, <1>4, Steps
  <2> QED
    BY <1>2, <2>1
<1> DEFINE c == walk[m].chain
<1>6. c \in Seq(Place) /\ Len(c) = m /\ \A k \in 1..m : c[k] = s[(m - k) + 1]
  BY <1>5 DEF Retraced, m
<1>7. PrevChain(file, s) = Reverse(c)
  BY DEF PrevChain, m
<1> HIDE DEF c, walk
<1>8. Reverse(c) = [i \in 1..m |-> c[(m - i) + 1]]
  BY <1>6 DEF Reverse
<1>9. \A i \in 1..m : (m - i) + 1 \in 1..m /\ (m - ((m - i) + 1)) + 1 = i
  BY <1>2
<1>10. \A i \in 1..m : c[(m - i) + 1] = s[i]
  BY <1>6, <1>9
<1>11. s = [i \in 1..m |-> s[i]]
  BY <1>1 DEF m
<1>12. Reverse(c) = s
  BY <1>8, <1>10, <1>11
<1> QED
  BY <1>1, <1>7, <1>12 DEF s

\* In a file that only grew every section is a row, and the sizes add up to the end of
\* the last one (EnumeratePdfRevisions).
LEMMA UpdatesCounted ==
  ASSUME NEW file, Scanned(file)
  PROVE  CountsUpdates(file, EnumeratePdfRevisions(file))
<1> DEFINE rows == EnumeratePdfRevisions(file)
           s == PdfFindStartxrefSections(file)
           m == Len(s)
           Eq(total) == total = [i \in 0..Len(rows) |-> IF i = 0 THEN 0 ELSE total[i - 1] + rows[i].size]
           total == CHOOSE total : Eq(total)
<1> SUFFICES ASSUME Grown(file)
             PROVE  Len(rows) = m /\ total[Len(rows)] = Last(rows).eof
  BY DEF CountsUpdates
<1>1. s \in Seq(Place) /\ s # <<>> /\ PrevChain(file, s) = s /\ InOrder(s, Len(file) + 2)
  BY GrownRetraced, SectionsInOrder
<1>2. rows = RowsOf(s)
  BY <1>1, RowsAre
<1> HIDE DEF s, rows
<1>3. m \in Nat /\ m >= 1 /\ DOMAIN s = 1..m
  BY <1>1
<1> HIDE DEF m
<1>4. ASSUME NEW i \in 1..m PROVE s[i].eof \in Nat /\ EndOf(s, i) = s[i].eof
  <2>1. s[i] \in Place
    BY <1>1, <1>3
  <2> QED
    BY <1>3, <2>1 DEF Place, EndOf
<1>5. ASSUME NEW i \in 1..m
      PROVE  /\ rows[i].eof = s[i].eof /\ rows[i].size = s[i].eof - EndOf(s, i - 1)
             /\ rows[i].size \in Nat /\ EndOf(s, i - 1) \in Nat
  <2>1. rows[i].eof = s[i].eof /\ rows[i].size = SizeOf(s, i)
    BY <1>2, <1>3 DEF RowsOf
  <2>2. EndOf(s, i - 1) \in Nat /\ EndOf(s, i - 1) <= EndOf(s, i)
    <3>1. CASE i = 1
      BY <1>3, <1>4, <3>1 DEF EndOf
    <3>2. CASE i # 1
      <4>1. i - 1 \in 1..m /\ i - 1 < i
        BY <1>3, <3>2
      <4>2. s[i - 1].eof < s[i].eof
        BY <1>1, <4>1 DEF InOrder, m
      <4> QED
        BY <1>4, <4>1, <4>2
    <3> QED
      BY <3>1, <3>2
  <2> QED
    BY <1>4, <2>1, <2>2 DEF SizeOf
<1>6. rows = [i \in 1..m |-> rows[i]]
  BY <1>2, <1>3 DEF RowsOf
<1>7. Len(rows) = m /\ Last(rows) = rows[m] /\ m \in 1..m
  <2>1. Len(rows) = m
    BY <1>3, <1>6
  <2> QED
    BY <1>3, <2>1 DEF Last
<1> DEFINE sum == [i \in 0..m |-> EndOf(s, i)]
<1>8. Eq(sum)
  <2>1. ASSUME NEW i \in 0..m
        PROVE  EndOf(s, i) = IF i = 0 THEN 0 ELSE sum[i - 1] + rows[i].size
    <3>1. CASE i = 0
      BY <3>1 DEF EndOf
    <3>2. CASE i # 0
      <4>1. i \in 1..m /\ i - 1 \in 0..m
        BY <1>3, <3>2
      <4>2. sum[i - 1] = EndOf(s, i - 1)
        BY <4>1
      <4> HIDE DEF sum
      <4>3. EndOf(s, i) = EndOf(s, i - 1) + rows[i].size
        BY <1>4, <1>5, <4>1
      <4> QED
        BY <3>2, <4>2, <4>3
    <3> QED
      BY <3>1, <3>2
  <2>2. sum = [i \in 0..m |-> IF i = 0 THEN 0 ELSE sum[i - 1] + rows[i].size]
    BY <2>1
  <2> QED
    BY <1>7, <2>2
<1>9. Eq(total)
  BY <1>8
<1> HIDE DEF total
<1>10. ASSUME NEW i \in 0..m
       PROVE  total[i] = IF i = 0 THEN 0 ELSE total[i - 1] + rows[i].size
  BY <1>7, <1>9
<1> DEFINE T == {i \in 0..m : total[i] = EndOf(s, i)}
<1>11. 0 \in T
  BY <1>3, <1>10 DEF EndOf
<1>12. ASSUME NEW i \in 0..(m - 1), i \in T PROVE i + 1 \in T
  <2>1. i + 1 \in 1..m /\ i + 1 \in 0..m /\ (i + 1) - 1 = i /\ i + 1 # 0
    BY <1>3
  <2>2. total[i + 1] = total[i] + rows[i + 1].size
    BY <1>10, <2>1
  <2>3. total[i] = EndOf(s, i)
    BY <1>12
  <2>4. EndOf(s, i + 1) = EndOf(s, i) + rows[i + 1].size
    BY <1>4, <1>5, <2>1
  <2> QED
    BY <2>1, <2>2, <2>3, <2>4
<1>13. m \in T
  <2> HIDE DEF T
  <2>1. \A i \in 0..m : i \in T
    BY <1>3, <1>11, <1>12, Steps
  <2> QED
    BY <1>3, <2>1
<1> QED
  BY <1>4, <1>5, <1>7, <1>13

-----------------------------------------------------------------------------
(* Options.                                                                *)

GivenTo(row) == {k \in DOMAIN row.opt : row.opt[k] # Null}
Honoured(function, row, done) ==
  done.is = "effect" =>
    /\ row.input # Null /\ row.second # Null /\ row.options # Null
    /\ function # "ocr_image" => GivenTo(row) = DOMAIN row.opt
    /\ GivenTo(row) \ {"mode", "format"} \subseteq done.reads
    /\ Needs(done.op) \subseteq GivenTo(row) \cup (IF function = "pdf_to_text" THEN {"layout"} ELSE {})
    /\ function \notin Writers => row.blob \/ ~row.denied

\* ocr_image (PdfFamilyOcrImage).
LEMMA OcrHonoured ==
  ASSUME NEW row, Argued("ocr_image", row)
  PROVE  Honoured("ocr_image", row, PdfFamilyOcrImage(row))
<1> DEFINE opt == [key \in {k \in DOMAIN row.opt : row.opt[k] # Null} |-> row.opt[key]]
           done == PdfFamilyOcrImage(row)
<1> SUFFICES ASSUME done.is = "effect" PROVE Honoured("ocr_image", row, done)
  BY DEF Honoured
<1>1. row.input # Null /\ row.options # Null /\ Only(row.opt, OcrKeys) /\ done = Effect("RecognizeImageBlob", opt, OcrKeys)
  BY DEF PdfFamilyOcrImage, NullRow, Error
<1>2. done.op = "RecognizeImageBlob" /\ done.reads = OcrKeys \cap DOMAIN opt
  BY <1>1 DEF Effect
<1>3. DOMAIN opt = GivenTo(row)
  BY DEF GivenTo
<1>4. row.second # Null /\ row.blob
  BY DEF Argued
<1>5. Needs(done.op) = {}
  BY <1>2 DEF Needs
<1>6. GivenTo(row) \subseteq done.reads
  BY <1>1, <1>2, <1>3 DEF Only, GivenTo
<1> QED
  BY <1>1, <1>4, <1>5, <1>6 DEF Honoured

\* No option of a row is NULL, and all of them are read.
LEMMA AllGiven ==
  ASSUME NEW function, NEW row, NEW op, NEW keys, row.input # Null, row.second # Null, row.options # Null,
         ~HasNull(row.opt), Only(row.opt, keys \cup {"mode", "format"}),
         Needs(op) \subseteq DOMAIN row.opt \cup (IF function = "pdf_to_text" THEN {"layout"} ELSE {}),
         function \notin Writers => row.blob \/ ~row.denied
  PROVE  Honoured(function, row, Effect(op, row.opt, keys))
<1>1. GivenTo(row) = DOMAIN row.opt
  BY DEF GivenTo, HasNull
<1>2. Effect(op, row.opt, keys).reads = keys \cap DOMAIN row.opt /\ Effect(op, row.opt, keys).op = op
  BY DEF Effect
<1> QED
  BY <1>1, <1>2 DEF Honoured, Only

\* What PdfFamilyText does of a row that takes effect.
Carried(row, done) ==
  /\ row.input # Null /\ row.options # Null /\ ~HasNull(row.opt) /\ (row.blob \/ ~row.denied)
  /\ \E op, keys : /\ done = Effect(op, row.opt, keys) /\ Needs(op) = {}
                   /\ Only(row.opt, keys \cup {"mode", "format"})

\* Every format, key by key (PdfFamilyText).
LEMMA TextCarried ==
  ASSUME NEW row, PdfFamilyText(row).is = "effect"
  PROVE  Carried(row, PdfFamilyText(row))
<1> DEFINE format == Setting(row.opt, "format", "text")
           done == PdfFamilyText(row)
<1>1. Error.is # "effect" /\ NullRow.is # "effect"
  BY DEF Error, NullRow
<1>2. row.input # Null /\ row.options # Null
  BY <1>1 DEF PdfFamilyText
<1>3. format \in {Null, "text", "html", "xml", "json", "markdown"}
  BY <1>1, <1>2 DEF PdfFamilyText
<1>4. format = Null \/ Only(row.opt, TextKeys(format))
  BY <1>1, <1>2, <1>3 DEF PdfFamilyText
<1>5. ~HasNull(row.opt)
  BY <1>1, <1>2, <1>3, <1>4 DEF PdfFamilyText
<1>6. ~Refused(row)
  BY <1>1, <1>2, <1>3, <1>4, <1>5 DEF PdfFamilyText
<1>7. format # Null
  BY <1>5 DEF Setting, HasNull, Null
<1>8. done = CASE format = "text" -> Effect("DocToText", row.opt, {"layout", "password"})
               [] format = "html" -> Effect("DocToHtml", row.opt, {"password"})
               [] format = "xml" -> Effect("DocToXml", row.opt, {"password"})
               [] format = "json" -> Effect("WriteJson", row.opt, {"password"})
               [] format = "markdown" -> Effect("DocToMarkdown", row.opt, {})
  <2>1. ~(format = "markdown" /\ row.blob)
    BY <1>1, <1>2, <1>3, <1>4, <1>5, <1>6 DEF PdfFamilyText
  <2> QED
    BY <1>1, <1>2, <1>3, <1>4, <1>5, <1>6, <2>1 DEF PdfFamilyText
<1> HIDE DEF format, done
<1>9. \E op, keys : done = Effect(op, row.opt, keys) /\ Needs(op) = {} /\ Only(row.opt, keys \cup {"mode", "format"})
  <2>1. CASE format = "text"
    <3>1. done = Effect("DocToText", row.opt, {"layout", "password"})
      BY <1>8, <2>1
    <3>2. Needs("DocToText") = {} /\ Only(row.opt, {"layout", "password"} \cup {"mode", "format"})
      BY <1>4, <1>7, <2>1 DEF Needs, Only, TextKeys
    <3> QED
      BY <3>1, <3>2
  <2>2. CASE format = "html"
    <3>1. done = Effect("DocToHtml", row.opt, {"password"})
      BY <1>8, <2>2
    <3>2. Needs("DocToHtml") = {} /\ Only(row.opt, {"password"} \cup {"mode", "format"})
      BY <1>4, <1>7, <2>2 DEF Needs, Only, TextKeys
    <3> QED
      BY <3>1, <3>2
  <2>3. CASE format = "xml"
    <3>1. done = Effect("DocToXml", row.opt, {"password"})
      BY <1>8, <2>3
    <3>2. Needs("DocToXml") = {} /\ Only(row.opt, {"password"} \cup {"mode", "format"})
      BY <1>4, <1>7, <2>3 DEF Needs, Only, TextKeys
    <3> QED
      BY <3>1, <3>2
  <2>4. CASE format = "json"
    <3>1. done = Effect("WriteJson", row.opt, {"password"})
      BY <1>8, <2>4
    <3>2. Needs("WriteJson") = {} /\ Only(row.opt, {"password"} \cup {"mode", "format"})
      BY <1>4, <1>7, <2>4 DEF Needs, Only, TextKeys
    <3> QED
      BY <3>1, <3>2
  <2>5. CASE format = "markdown"
    <3>1. done = Effect("DocToMarkdown", row.opt, {})
      BY <1>8, <2>5
    <3>2. Needs("DocToMarkdown") = {} /\ Only(row.opt, {} \cup {"mode", "format"})
      BY <1>4, <1>7, <2>5 DEF Needs, Only, TextKeys
    <3> QED
      BY <3>1, <3>2
  <2> QED
    BY <1>3, <1>7, <2>1, <2>2, <2>3, <2>4, <2>5
<1> QED
  BY <1>2, <1>5, <1>6, <1>9 DEF Carried, Refused, done

\* pdf_text (PdfFamilyText).
LEMMA TextHonoured ==
  ASSUME NEW row, Argued("pdf_text", row)
  PROVE  Honoured("pdf_text", row, PdfFamilyText(row))
<1> SUFFICES ASSUME PdfFamilyText(row).is = "effect" PROVE Honoured("pdf_text", row, PdfFamilyText(row))
  BY DEF Honoured
<1>1. Carried(row, PdfFamilyText(row)) /\ row.second # Null
  BY TextCarried DEF Argued
<1>2. PICK op, keys : PdfFamilyText(row) = Effect(op, row.opt, keys) /\ Needs(op) = {}
                      /\ Only(row.opt, keys \cup {"mode", "format"})
  BY <1>1 DEF Carried
<1> QED
  BY <1>1, <1>2, AllGiven DEF Carried

\* pdf_to_text, whose layout becomes an option (PdfLegacyText).
LEMMA LegacyHonoured ==
  ASSUME NEW row, Argued("pdf_to_text", row)
  PROVE  Honoured("pdf_to_text", row, PdfLegacyText(row))
<1> DEFINE laid == [row EXCEPT !.options = "given", !.opt = [key \in {"layout"} |-> row.second]]
           asked == IF row.second = "none" THEN row ELSE laid
           done == PdfFamilyText(asked)
<1> SUFFICES ASSUME done.is = "effect" PROVE Honoured("pdf_to_text", row, done)
  BY DEF Honoured, PdfLegacyText
<1>1. Carried(asked, done)
  BY TextCarried
<1>2. laid.input = row.input /\ laid.blob = row.blob /\ laid.denied = row.denied
      /\ laid.opt = [key \in {"layout"} |-> row.second]
  BY DEF Argued
<1>3. row.input # Null /\ (row.blob \/ ~row.denied)
  BY <1>1, <1>2 DEF Carried
<1>4. row.second # Null
  <2>1. CASE row.second = "none"
    BY <2>1 DEF Null
  <2>2. CASE row.second # "none"
    BY <1>1, <1>2, <2>2 DEF Carried, HasNull
  <2> QED
    BY <2>1, <2>2
<1>5. DOMAIN row.opt = {} /\ row.options # Null
  BY DEF Argued, Null
<1>6. GivenTo(row) = {}
  BY <1>5 DEF GivenTo
<1>7. PICK op, keys : done = Effect(op, asked.opt, keys) /\ Needs(op) = {}
  BY <1>1 DEF Carried
<1>8. done.op = op
  BY <1>7 DEF Effect
<1> QED
  BY <1>3, <1>4, <1>5, <1>6, <1>7, <1>8 DEF Honoured

\* pdf_render (PdfFamilyRender).
LEMMA RenderHonoured ==
  ASSUME NEW row, Argued("pdf_render", row)
  PROVE  Honoured("pdf_render", row, PdfFamilyRender(row))
<1> DEFINE format == Setting(row.opt, "format", "png")
           done == PdfFamilyRender(row)
           op == IF format = "png" THEN "DocToPng" ELSE "DocToSvg"
<1> SUFFICES ASSUME done.is = "effect" PROVE Honoured("pdf_render", row, done)
  BY DEF Honoured
<1>1. Error.is # "effect" /\ NullRow.is # "effect"
  BY DEF Error, NullRow
<1>2. ~Missing(row) /\ Only(row.opt, {"format", "dpi"}) /\ ~HasNull(row.opt) /\ ~Refused(row)
  BY <1>1 DEF PdfFamilyRender
<1>3. done = Effect(op, row.opt, {"dpi"})
  BY <1>1 DEF PdfFamilyRender
<1>4. Needs(op) = {}
  BY DEF Needs
<1>5. Only(row.opt, {"dpi"} \cup {"mode", "format"})
  BY <1>2 DEF Only
<1>6. row.input # Null /\ row.second # Null /\ row.options # Null /\ (row.blob \/ ~row.denied)
  BY <1>2 DEF Missing, Refused
<1> HIDE DEF format, done, op
<1> QED
  BY <1>2, <1>3, <1>4, <1>5, <1>6, AllGiven

\* pdf_pages (PdfFamilyPages).
LEMMA PagesHonoured ==
  ASSUME NEW row, Argued("pdf_pages", row)
  PROVE  Honoured("pdf_pages", row, PdfFamilyPages(row))
<1> DEFINE reads == {"rotate", "rotate_pages"}
           done == PdfFamilyPages(row)
           op == IF row.ranges THEN "PagesThenRotate" ELSE "Rotate"
<1> SUFFICES ASSUME done.is = "effect" PROVE Honoured("pdf_pages", row, done)
  BY DEF Honoured
<1>1. Error.is # "effect" /\ NullRow.is # "effect"
  BY DEF Error, NullRow
<1>2. ~Missing(row) /\ Only(row.opt, reads) /\ ~HasNull(row.opt)
  BY <1>1 DEF PdfFamilyPages
<1>3. row.input # Null /\ row.second # Null /\ row.options # Null
  BY <1>2 DEF Missing
<1>4. CASE "rotate" \notin DOMAIN row.opt
  <2>1. "rotate_pages" \notin DOMAIN row.opt
    BY <1>1, <1>2, <1>4 DEF PdfFamilyPages
  <2>2. done = Effect("Pages", row.opt, {})
    BY <1>1, <1>2, <1>4 DEF PdfFamilyPages
  <2>3. Needs("Pages") = {} /\ Only(row.opt, {} \cup {"mode", "format"})
    BY <1>2, <1>4, <2>1 DEF Needs, Only
  <2> HIDE DEF done
  <2> QED
    BY <1>2, <1>3, <2>2, <2>3, AllGiven DEF Writers
<1>5. CASE "rotate" \in DOMAIN row.opt
  <2>1. done = Effect(op, row.opt, reads)
    BY <1>1, <1>2, <1>5 DEF PdfFamilyPages
  <2>2. Needs(op) = {"rotate"} /\ Only(row.opt, reads \cup {"mode", "format"})
    BY <1>2 DEF Needs, Only
  <2> HIDE DEF done, op, reads
  <2> QED
    BY <1>2, <1>3, <1>5, <2>1, <2>2, AllGiven DEF Writers
<1> QED
  BY <1>4, <1>5

\* pdf_stamp (PdfFamilyStamp).
LEMMA StampHonoured ==
  ASSUME NEW row, Argued("pdf_stamp", row)
  PROVE  Honoured("pdf_stamp", row, PdfFamilyStamp(row))
<1> DEFINE mode == Setting(row.opt, "mode", "none")
           done == PdfFamilyStamp(row)
<1> SUFFICES ASSUME done.is = "effect" PROVE Honoured("pdf_stamp", row, done)
  BY DEF Honoured
<1>1. Error.is # "effect" /\ NullRow.is # "effect"
  BY DEF Error, NullRow
<1>2. ~Missing(row) /\ ~HasNull(row.opt) /\ (mode \in {Null, "none"} \/ Only(row.opt, StampKeys(mode)))
  BY <1>1 DEF PdfFamilyStamp
<1>3. row.input # Null /\ row.second # Null /\ row.options # Null
  BY <1>2 DEF Missing
<1>4. done = CASE mode = "watermark" /\ "text" \in DOMAIN row.opt -> Effect("Watermark", row.opt, {"text", "opacity"})
               [] mode = "bates" /\ "prefix" \in DOMAIN row.opt /\ "start" \in DOMAIN row.opt ->
                    Effect("Bates", row.opt, {"prefix", "start"})
               [] OTHER -> Error
  BY <1>1, <1>2 DEF PdfFamilyStamp
<1> HIDE DEF done, mode
<1>5. CASE mode = "watermark" /\ "text" \in DOMAIN row.opt
  <2>1. done = Effect("Watermark", row.opt, {"text", "opacity"})
    BY <1>4, <1>5
  <2>2. Needs("Watermark") = {"text"} /\ Only(row.opt, {"text", "opacity"} \cup {"mode", "format"})
    BY <1>2, <1>5 DEF Needs, Only, StampKeys, Null
  <2> QED
    BY <1>2, <1>3, <1>5, <2>1, <2>2, AllGiven DEF Writers
<1>6. CASE mode = "bates" /\ "prefix" \in DOMAIN row.opt /\ "start" \in DOMAIN row.opt
  <2>1. done = Effect("Bates", row.opt, {"prefix", "start"})
    BY <1>4, <1>6
  <2>2. Needs("Bates") = {"prefix", "start"} /\ Only(row.opt, {"prefix", "start"} \cup {"mode", "format"})
    BY <1>2, <1>6 DEF Needs, Only, StampKeys, Null
  <2> QED
    BY <1>2, <1>3, <1>6, <2>1, <2>2, AllGiven DEF Writers
<1> QED
  BY <1>1, <1>4, <1>5, <1>6

\* pdf_rewrite (PdfFamilyRewrite).
LEMMA RewriteHonoured ==
  ASSUME NEW row, Argued("pdf_rewrite", row)
  PROVE  Honoured("pdf_rewrite", row, PdfFamilyRewrite(row))
<1> DEFINE mode == Setting(row.opt, "mode", "none")
           done == PdfFamilyRewrite(row)
<1> SUFFICES ASSUME done.is = "effect" PROVE Honoured("pdf_rewrite", row, done)
  BY DEF Honoured
<1>1. Error.is # "effect" /\ NullRow.is # "effect"
  BY DEF Error, NullRow
<1>2. ~Missing(row) /\ ~HasNull(row.opt) /\ (mode \in {Null, "none"} \/ Only(row.opt, RewriteKeys(mode)))
  BY <1>1 DEF PdfFamilyRewrite
<1>3. row.input # Null /\ row.second # Null /\ row.options # Null
  BY <1>2 DEF Missing
<1>4. done = CASE mode = "compress" -> Effect("Compress", row.opt, {})
               [] mode = "encrypt" /\ "password" \in DOMAIN row.opt ->
                    Effect("Encrypt", row.opt, {"password", "owner_password"})
               [] mode = "decrypt" /\ "password" \in DOMAIN row.opt -> Effect("Decrypt", row.opt, {"password"})
               [] mode = "repair" -> Effect("Repair", row.opt, {"password"})
               [] OTHER -> Error
  BY <1>1, <1>2 DEF PdfFamilyRewrite
<1> HIDE DEF done, mode
<1>5. CASE mode = "compress"
  <2>1. done = Effect("Compress", row.opt, {})
    BY <1>4, <1>5
  <2>2. Needs("Compress") = {} /\ Only(row.opt, {} \cup {"mode", "format"})
    BY <1>2, <1>5 DEF Needs, Only, RewriteKeys, Null
  <2> QED
    BY <1>2, <1>3, <2>1, <2>2, AllGiven DEF Writers
<1>6. CASE mode = "encrypt" /\ "password" \in DOMAIN row.opt
  <2>1. done = Effect("Encrypt", row.opt, {"password", "owner_password"})
    BY <1>4, <1>6
  <2>2. Needs("Encrypt") = {"password"} /\ Only(row.opt, {"password", "owner_password"} \cup {"mode", "format"})
    BY <1>2, <1>6 DEF Needs, Only, RewriteKeys, Null
  <2> QED
    BY <1>2, <1>3, <1>6, <2>1, <2>2, AllGiven DEF Writers
<1>7. CASE mode = "decrypt" /\ "password" \in DOMAIN row.opt
  <2>1. done = Effect("Decrypt", row.opt, {"password"})
    BY <1>4, <1>7
  <2>2. Needs("Decrypt") = {"password"} /\ Only(row.opt, {"password"} \cup {"mode", "format"})
    BY <1>2, <1>7 DEF Needs, Only, RewriteKeys, Null
  <2> QED
    BY <1>2, <1>3, <1>7, <2>1, <2>2, AllGiven DEF Writers
<1>8. CASE mode = "repair"
  <2>1. done = Effect("Repair", row.opt, {"password"})
    BY <1>4, <1>8
  <2>2. Needs("Repair") = {} /\ Only(row.opt, {"password"} \cup {"mode", "format"})
    BY <1>2, <1>8 DEF Needs, Only, RewriteKeys, Null
  <2> QED
    BY <1>2, <1>3, <2>1, <2>2, AllGiven DEF Writers
<1> QED
  BY <1>1, <1>4, <1>5, <1>6, <1>7, <1>8

\* One row of any function (Row).
LEMMA RowHonoured ==
  ASSUME NEW function \in Functions, NEW row, Argued(function, row)
  PROVE  Honoured(function, row, Answers(function, row))
BY OcrHonoured, TextHonoured, LegacyHonoured, RenderHonoured, PagesHonoured, StampHonoured, RewriteHonoured
   DEF Functions, Answers

\* A chunk of rows whose answers are a part of the answers to each (ScalarCall).
LEMMA ChunkHonoured ==
  ASSUME NEW call, Callable(call), NEW rows, NEW n \in 1..Len(call.rows),
         rows = <<>> \/ DOMAIN rows = 1..n,
         \A i \in DOMAIN rows : rows[i] = Answers(call.function, call.rows[i]),
         call.function \in Writers => PdfCheckPairArgs(call.rows),
         Len(rows) < Len(call.rows) => rows[Len(rows)].is = "error"
  PROVE  OptionsTakeEffect(call, rows)
<1>1. DOMAIN call.rows = 1..Len(call.rows) /\ Len(call.rows) \in Nat
  BY DEF Callable
<1>2. DOMAIN rows \subseteq DOMAIN call.rows
  BY <1>1
<1>3. ASSUME NEW i \in DOMAIN rows, rows[i].is = "effect"
      PROVE  LET row == call.rows[i]
                 given == {k \in DOMAIN row.opt : row.opt[k] # Null}
             IN /\ row.input # Null /\ row.second # Null /\ row.options # Null
                /\ call.function # "ocr_image" => given = DOMAIN row.opt
                /\ given \ {"mode", "format"} \subseteq rows[i].reads
                /\ Needs(rows[i].op) \subseteq given \cup (IF call.function = "pdf_to_text" THEN {"layout"} ELSE {})
                /\ row.blob \/ ~row.denied
  <2>1. Honoured(call.function, call.rows[i], rows[i])
    BY <1>2, RowHonoured DEF Callable
  <2>2. call.function \in Writers => ~call.rows[i].denied
    BY <1>2, <1>3, <2>1 DEF Honoured, PdfCheckPairArgs
  <2> QED
    BY <1>3, <2>1, <2>2 DEF Honoured, GivenTo
<1> QED
  BY <1>3 DEF OptionsTakeEffect, PdfCheckPairArgs

\* Any chunk (ScalarCall).
LEMMA ChunkTakesEffect ==
  ASSUME NEW call, Callable(call)
  PROVE  OptionsTakeEffect(call, ScalarCall(call))
<1> DEFINE done == [i \in DOMAIN call.rows |-> Answers(call.function, call.rows[i])]
           errors == {i \in DOMAIN done : done[i] = Error}
           bound == call.function = "pdf_to_text" \/
                    \A i \in DOMAIN call.rows : PdfFamilyResolveOptions(call.function, call.rows[i].opt)
           refused == ~bound \/ (call.function \in Writers /\ ~PdfCheckPairArgs(call.rows))
           first == CHOOSE i \in errors : \A j \in errors : i <= j
           n == Len(call.rows)
<1>1. n \in Nat /\ DOMAIN call.rows = 1..n
  BY DEF Callable
<1>2. ScalarCall(call) = IF refused THEN <<Error>> ELSE IF errors = {} THEN done ELSE SubSeq(done, 1, first)
  BY DEF ScalarCall
<1>3. Error.is = "error"
  BY DEF Error
<1>4. DOMAIN done = 1..n /\ \A i \in 1..n : done[i] = Answers(call.function, call.rows[i])
  BY <1>1
<1> HIDE DEF bound, done, first
<1>5. CASE refused
  <2> DEFINE rows == <<Error>>
  <2>1. Len(rows) = 1 /\ DOMAIN rows = {1} /\ rows[1] = Error
    OBVIOUS
  <2>2. rows[1].is = "error" /\ \A i \in DOMAIN rows : rows[i].is = "error"
    BY <1>3, <2>1
  <2>3. ScalarCall(call) = rows
    BY <1>2, <1>5
  <2> HIDE DEF rows
  <2> QED
    BY <1>1, <2>1, <2>2, <2>3 DEF OptionsTakeEffect
<1>6. CASE ~refused /\ errors = {}
  <2>1. ScalarCall(call) = done
    BY <1>2, <1>6
  <2>2. Len(done) = n
    BY <1>1, <1>4
  <2>3. CASE n = 0
    BY <1>1, <1>4, <2>1, <2>2, <2>3 DEF OptionsTakeEffect
  <2>4. CASE n # 0
    <3>1. n \in 1..n
      BY <1>1, <2>4
    <3>2. call.function \in Writers => PdfCheckPairArgs(call.rows)
      BY <1>6
    <3>3. ~(Len(done) < Len(call.rows))
      BY <1>1, <2>2
    <3>4. \A i \in DOMAIN done : done[i] = Answers(call.function, call.rows[i])
      BY <1>4
    <3>5. DOMAIN done = 1..n
      BY <1>4
    <3> QED
      BY <2>1, <3>1, <3>2, <3>3, <3>4, <3>5, ChunkHonoured
  <2> QED
    BY <2>3, <2>4
<1>7. CASE ~refused /\ errors # {}
  <2> DEFINE rows == SubSeq(done, 1, first)
  <2>1. errors \in SUBSET Nat /\ errors \subseteq 1..n
    BY <1>1, <1>4
  <2>2. \E i \in errors : \A j \in errors : i <= j
    BY <1>7, <2>1, LeastOf
  <2>3. first \in errors /\ first \in 1..n /\ done[first] = Error
    BY <2>1, <2>2 DEF first
  <2>4. \A i \in 1..first : done[i] \in {done[j] : j \in 1..n}
    BY <1>1, <2>3
  <2>5. /\ rows \in Seq({done[j] : j \in 1..n})
        /\ Len(rows) = first
        /\ \A i \in 1..first : rows[i] = done[i]
    <3>1. 1 \in Int /\ first \in Int /\ 1 <= first /\ first - 1 + 1 = first
      BY <1>1, <2>3
    <3>2. \A i \in 1..first - 1 + 1 : 1 + i - 1 = i
      BY <3>1
    <3> DEFINE S == {done[j] : j \in 1..n}
    <3> HIDE DEF S
    <3>3. \A i \in 1..first : done[i] \in S
      BY <2>4 DEF S
    <3>4. /\ rows \in Seq(S)
          /\ Len(rows) = IF 1 <= first THEN first - 1 + 1 ELSE 0
          /\ \A i \in 1..first - 1 + 1 : rows[i] = done[1 + i - 1]
      BY <3>1, <3>3, SubSeqProperties
    <3> QED
      BY <3>1, <3>2, <3>4 DEF S
  <2>6. DOMAIN rows = 1..first
    BY <2>5
  <2>7. ScalarCall(call) = rows
    BY <1>2, <1>7
  <2> HIDE DEF rows
  <2>8. \A i \in DOMAIN rows : rows[i] = Answers(call.function, call.rows[i])
    BY <1>1, <1>4, <2>3, <2>5, <2>6
  <2>9. rows[Len(rows)].is = "error"
    BY <1>1, <1>3, <2>3, <2>5
  <2> QED
    BY <1>7, <2>3, <2>6, <2>7, <2>8, <2>9, ChunkHonoured
<1> QED
  BY <1>5, <1>6, <1>7

\* The mode of a variant (Variant).
LEMMA VariantIs == \A m, i, o : Variant(m, i, o).mode = m
BY DEF Variant

\* A family has one variant of a mode.
LEMMA OneVariant ==
  ASSUME NEW family \in Families, NEW v \in Variants[family], NEW w \in Variants[family], v.mode = w.mode
  PROVE  v = w
<1>1. CASE family = "read_pdf"
  <2>1. Variants[family] = ReadPdf
    BY <1>1 DEF Variants
  <2>2. \A x, y \in ReadPdf : x.mode = y.mode => x = y
    BY VariantIs DEF ReadPdf
  <2> QED
    BY <2>1, <2>2
<1>2. CASE family = "pdf_info"
  <2>1. Variants[family] = PdfInfo
    BY <1>2 DEF Variants
  <2>2. \A x, y \in PdfInfo : x.mode = y.mode => x = y
    BY VariantIs DEF PdfInfo
  <2> QED
    BY <2>1, <2>2
<1>3. CASE family = "pdf_objects"
  <2>1. Variants[family] = PdfObjects
    BY <1>3 DEF Variants
  <2>2. \A x, y \in PdfObjects : x.mode = y.mode => x = y
    BY VariantIs DEF PdfObjects
  <2> QED
    BY <2>1, <2>2
<1>4. CASE family = "pdf_render"
  <2>1. Variants[family] = PdfRender
    BY <1>4 DEF Variants
  <2>2. \A x, y \in PdfRender : x.mode = y.mode => x = y
    BY VariantIs DEF PdfRender
  <2> QED
    BY <2>1, <2>2
<1>5. CASE family = "pdf_split"
  <2>1. Variants[family] = PdfSplit
    BY <1>5 DEF Variants
  <2>2. \A x, y \in PdfSplit : x.mode = y.mode => x = y
    BY VariantIs DEF PdfSplit
  <2> QED
    BY <2>1, <2>2
<1> QED
  BY <1>1, <1>2, <1>3, <1>4, <1>5 DEF Families

\* Only pdf_render has a directory for its output.
LEMMA OnlyRenderWrites ==
  ASSUME NEW family \in Families
  PROVE  /\ family # "pdf_render" => "output_dir" \notin Advertised(family)
         /\ family = "pdf_render" => Selector[family] \notin Advertised(family)
<1>1. CASE family = "read_pdf"
  <2>1. Variants[family] = ReadPdf /\ Selector[family] = "grain"
    BY <1>1 DEF Variants, Selector
  <2>2. \A v \in ReadPdf : "output_dir" \notin v.options
    BY DEF ReadPdf, Variant, AddOcrNamedParams
  <2> QED
    BY <1>1, <2>1, <2>2 DEF Advertised
<1>2. CASE family = "pdf_info"
  <2>1. Variants[family] = PdfInfo /\ Selector[family] = "detail"
    BY <1>2 DEF Variants, Selector
  <2>2. \A v \in PdfInfo : "output_dir" \notin v.options
    BY DEF PdfInfo, Variant, Inspect
  <2> QED
    BY <1>2, <2>1, <2>2 DEF Advertised
<1>3. CASE family = "pdf_objects"
  <2>1. Variants[family] = PdfObjects /\ Selector[family] = "kind"
    BY <1>3 DEF Variants, Selector
  <2>2. \A v \in PdfObjects : "output_dir" \notin v.options
    BY DEF PdfObjects, Variant, Inspect
  <2> QED
    BY <1>3, <2>1, <2>2 DEF Advertised
<1>4. CASE family = "pdf_render"
  <2>1. Variants[family] = PdfRender /\ Selector[family] = "none"
    BY <1>4 DEF Variants, Selector
  <2>2. \A v \in PdfRender : "none" \notin v.options
    BY DEF PdfRender, Variant, ImageOptions
  <2> QED
    BY <1>4, <2>1, <2>2 DEF Advertised
<1>5. CASE family = "pdf_split"
  <2>1. Variants[family] = PdfSplit /\ Selector[family] = "mode"
    BY <1>5 DEF Variants, Selector
  <2>2. \A v \in PdfSplit : "output_dir" \notin v.options
    BY DEF PdfSplit, Variant
  <2> QED
    BY <1>5, <2>1, <2>2 DEF Advertised
<1> QED
  BY <1>1, <1>2, <1>3, <1>4, <1>5 DEF Families

\* Every option of a variant is looked at by its scan, or is one of those that are
\* said to be ignored (AddOcrNamedParams, LoadInternal and the scans).
LEMMA SharedParameters ==
  /\ AddOcrNamedParams = ReadPages \cup {"parse_tables", "ocr_endpoint"}
  /\ {"parse_tables", "ocr_endpoint"} \cap ReadPages = {}
<1>1. \A k \in AddOcrNamedParams : k \in ReadPages \/ k = "parse_tables" \/ k = "ocr_endpoint"
  BY DEF AddOcrNamedParams, ReadPages, PageRange, Recognition
<1>2. \A k \in ReadPages : k \in AddOcrNamedParams
  BY DEF AddOcrNamedParams, ReadPages, PageRange, Recognition
<1>3. "parse_tables" \in AddOcrNamedParams /\ "ocr_endpoint" \in AddOcrNamedParams
  BY DEF AddOcrNamedParams
<1>4. "parse_tables" \notin ReadPages /\ "ocr_endpoint" \notin ReadPages
  BY DEF ReadPages, PageRange, Recognition
<1> QED
  BY <1>1, <1>2, <1>3, <1>4

ReadOrIgnored(family, v) ==
  \A k \in v.options : k \in Reads[family][v.mode] <=> k \notin Ignored(family, v.mode)

LEMMA OptionsReadOrIgnored ==
  ASSUME NEW family \in Families, NEW v \in Variants[family]
  PROVE  ReadOrIgnored(family, v)
<1>1. CASE family = "read_pdf"
  <2>1. Variants[family] = ReadPdf /\ Reads[family] = ReadPdfReads
    BY <1>1 DEF Variants, Reads
  <2>2. CASE v = Variant("page", Path, AddOcrNamedParams \cup {"layout", "ignore_errors"})
    <3>1. v.mode = "page" /\ v.options = AddOcrNamedParams \cup {"layout", "ignore_errors"}
      BY <2>2 DEF Variant
    <3>2. Reads[family][v.mode] = ReadPages \cup {"parse_tables", "layout", "ignore_errors"}
      BY <2>1, <3>1 DEF ReadPdfReads
    <3>3. Ignored(family, v.mode) = {"ocr_endpoint"}
      BY <1>1, <3>1 DEF Ignored
    <3> QED
      BY <3>1, <3>2, <3>3, SharedParameters DEF ReadOrIgnored
  <2>3. CASE v = Variant("line", Path, AddOcrNamedParams \cup {"layout"})
    <3>1. v.mode = "line" /\ v.options = AddOcrNamedParams \cup {"layout"}
      BY <2>3 DEF Variant
    <3>2. Reads[family][v.mode] = ReadPages \cup {"layout"}
      BY <2>1, <3>1 DEF ReadPdfReads
    <3>3. Ignored(family, v.mode) = {"ocr_endpoint", "parse_tables"}
      BY <1>1, <3>1 DEF Ignored
    <3> QED
      BY <3>1, <3>2, <3>3, SharedParameters DEF ReadOrIgnored
  <2>4. CASE v = Variant("element", Path, AddOcrNamedParams)
    <3>1. v.mode = "element" /\ v.options = AddOcrNamedParams
      BY <2>4 DEF Variant
    <3>2. Reads[family][v.mode] = ReadPages
      BY <2>1, <3>1 DEF ReadPdfReads
    <3>3. Ignored(family, v.mode) = {"ocr_endpoint", "parse_tables"}
      BY <1>1, <3>1 DEF Ignored
    <3> QED
      BY <3>1, <3>2, <3>3, SharedParameters DEF ReadOrIgnored
  <2>5. CASE v = Variant("chunk", Path, AddOcrNamedParams \cup {"chunk_size", "overlap"})
    <3>1. v.mode = "chunk" /\ v.options = AddOcrNamedParams \cup {"chunk_size", "overlap"}
      BY <2>5 DEF Variant
    <3>2. Reads[family][v.mode] = ReadPages \cup {"chunk_size", "overlap"}
      BY <2>1, <3>1 DEF ReadPdfReads
    <3>3. Ignored(family, v.mode) = {"ocr_endpoint", "parse_tables"}
      BY <1>1, <3>1 DEF Ignored
    <3> QED
      BY <3>1, <3>2, <3>3, SharedParameters DEF ReadOrIgnored
  <2>6. CASE v = Variant("table", Path, AddOcrNamedParams \cup {"force"})
    <3>1. v.mode = "table" /\ v.options = AddOcrNamedParams \cup {"force"}
      BY <2>6 DEF Variant
    <3>2. Reads[family][v.mode] = ReadPages \cup {"force"}
      BY <2>1, <3>1 DEF ReadPdfReads
    <3>3. Ignored(family, v.mode) = {"ocr_endpoint", "parse_tables"}
      BY <1>1, <3>1 DEF Ignored
    <3> QED
      BY <3>1, <3>2, <3>3, SharedParameters DEF ReadOrIgnored
  <2> QED
    BY <2>1, <2>2, <2>3, <2>4, <2>5, <2>6 DEF ReadPdf
<1>2. CASE family = "pdf_info"
  <2>1. v \in PdfInfo /\ Reads[family] = PdfInfoReads
    BY <1>2 DEF Variants, Reads
  <2>2. Ignored(family, v.mode) = {}
    BY <1>2 DEF Ignored
  <2>3. v.options \subseteq PdfInfoReads[v.mode]
    BY <2>1 DEF PdfInfo, PdfInfoReads, Variant, Inspect
  <2> QED
    BY <2>1, <2>2, <2>3 DEF ReadOrIgnored
<1>3. CASE family = "pdf_objects"
  <2>1. v \in PdfObjects /\ Reads[family] = PdfObjectsReads
    BY <1>3 DEF Variants, Reads
  <2>2. CASE v = Variant("revisions", Path, Inspect)
    <3>1. v.mode = "revisions" /\ v.options = {"password"}
      BY <2>2 DEF Variant, Inspect
    <3>2. Ignored(family, v.mode) = {"password"} /\ PdfObjectsReads[v.mode] = {}
      BY <1>3, <3>1 DEF Ignored, PdfObjectsReads
    <3> QED
      BY <2>1, <3>1, <3>2 DEF ReadOrIgnored
  <2>3. CASE v # Variant("revisions", Path, Inspect)
    <3>1. v.mode # "revisions"
      BY <2>1, <2>3, VariantIs DEF PdfObjects
    <3>2. Ignored(family, v.mode) = {}
      BY <1>3, <3>1 DEF Ignored
    <3>3. v.options \subseteq PdfObjectsReads[v.mode]
      BY <2>1, <2>3 DEF PdfObjects, PdfObjectsReads, Variant, Inspect, PageRange
    <3> QED
      BY <2>1, <3>2, <3>3 DEF ReadOrIgnored
  <2> QED
    BY <2>2, <2>3
<1>4. CASE family = "pdf_render"
  <2>1. v \in PdfRender /\ Reads[family] = PdfRenderReads
    BY <1>4 DEF Variants, Reads
  <2>2. Ignored(family, v.mode) = {}
    BY <1>4 DEF Ignored
  <2>3. v.options \subseteq PdfRenderReads[v.mode]
    BY <2>1 DEF PdfRender, PdfRenderReads, Variant, ImageOptions, PageRange
  <2> QED
    BY <2>1, <2>2, <2>3 DEF ReadOrIgnored
<1>5. CASE family = "pdf_split"
  <2>1. v \in PdfSplit /\ Reads[family] = PdfSplitReads
    BY <1>5 DEF Variants, Reads
  <2>2. Ignored(family, v.mode) = {}
    BY <1>5 DEF Ignored
  <2>3. v.options \subseteq PdfSplitReads[v.mode]
    BY <2>1 DEF PdfSplit, PdfSplitReads, Variant
  <2> QED
    BY <2>1, <2>2, <2>3 DEF ReadOrIgnored
<1> QED
  BY <1>1, <1>2, <1>3, <1>4, <1>5 DEF Families

\* The variant that is bound (PdfTableFamilyBind).
LEMMA TableAsAsked ==
  ASSUME NEW call, Bindable(call)
  PROVE  VariantAsAsked(call, PdfTableFamilyBind(call))
<1> DEFINE selector == Selector[call.family]
           writes == call.family = "pdf_render" /\ "output_dir" \in DOMAIN call.given
           mode == IF selector \in DOMAIN call.given THEN call.given[selector]
                   ELSE IF writes THEN "write" ELSE Default[call.family]
           left == DOMAIN call.given \ ({selector} \cup (IF writes THEN {"output_dir"} ELSE {}))
           fit == {v \in Variants[call.family] : v.mode = mode /\ call.input \in v.inputs}
           selectors == {selector, "output_dir"}
           asked == IF selector \in DOMAIN call.given THEN call.given[selector]
                    ELSE IF "output_dir" \in DOMAIN call.given THEN "write" ELSE Default[call.family]
           usable == \E v \in Variants[call.family] :
                       v.mode = asked /\ call.input \in v.inputs /\ DOMAIN call.given \ selectors \subseteq v.options
           refused == fit = {} \/ (\E v \in fit : ~(left \subseteq v.options)) \/ HasNull(call.given)
<1>1. "output_dir" \in DOMAIN call.given <=> writes
  BY OnlyRenderWrites DEF Bindable
<1>2. asked = mode /\ left = DOMAIN call.given \ selectors
  BY <1>1
<1>3. \A v, w \in fit : v = w
  BY OneVariant DEF Bindable
<1>4. usable <=> fit # {} /\ \A v \in fit : left \subseteq v.options
  BY <1>2, <1>3
<1> DEFINE reads == left \cap Reads[call.family][mode]
<1>5. PdfTableFamilyBind(call) =
        IF refused THEN [is |-> "error", mode |-> "none", options |-> {}, reads |-> {}]
        ELSE [is |-> "bound", mode |-> mode, options |-> left, reads |-> reads]
  BY DEF PdfTableFamilyBind
<1>6. HasNull(call.given) <=> ~\A k \in DOMAIN call.given : call.given[k] # Null
  BY DEF HasNull
<1>7. ~refused => left \ reads = left \cap Ignored(call.family, mode)
  <2> SUFFICES ASSUME ~refused
               PROVE  left \ reads = left \cap Ignored(call.family, mode)
    OBVIOUS
  <2>1. PICK v \in Variants[call.family] : v.mode = mode /\ left \subseteq v.options
    OBVIOUS
  <2>2. ReadOrIgnored(call.family, v)
    BY <2>1, OptionsReadOrIgnored DEF Bindable
  <2> HIDE DEF left, mode
  <2> QED
    BY <2>1, <2>2, SMTT(60) DEF ReadOrIgnored
<1> HIDE DEF mode, left, fit, asked, usable, writes, reads
<1>8. (PdfTableFamilyBind(call).is = "bound" <=> ~refused)
      /\ (~refused => /\ PdfTableFamilyBind(call).mode = mode /\ PdfTableFamilyBind(call).options = left
                      /\ PdfTableFamilyBind(call).reads = reads)
  BY <1>5
<1> QED
  BY <1>2, <1>4, <1>6, <1>7, <1>8 DEF VariantAsAsked, asked, usable

-----------------------------------------------------------------------------
(* StructureTree.                                                          *)

\* Turns from a value of X that each stay in X are the values of a walk.
LEMMA TurnsTyped ==
  ASSUME NEW X, NEW m \in Nat, NEW base \in X, NEW next \in [X -> X], NEW f,
         f[0] = base, \A n \in 1..m : f[n - 1] \in X => f[n] = next[f[n - 1]]
  PROVE  \A n \in 0..m : f[n] \in X
<1> DEFINE T == {n \in 0..m : f[n] \in X}
<1>1. 0 \in T
  OBVIOUS
<1>2. ASSUME NEW n \in 0..(m - 1), n \in T PROVE n + 1 \in T
  <2>1. n + 1 \in 1..m /\ n + 1 \in 0..m /\ (n + 1) - 1 = n
    OBVIOUS
  <2>2. f[n + 1] = next[f[n]]
    BY <1>2, <2>1
  <2> QED
    BY <1>2, <2>1, <2>2
<1> HIDE DEF T
<1>3. \A n \in 0..m : n \in T
  BY <1>1, <1>2, Steps
<1> QED
  BY <1>3 DEF T

Turns(f, m, base, next) == \A n \in 0..m : f[n] = IF n = 0 THEN base ELSE next[f[n - 1]]

\* There is such a walk.
LEMMA TurnsDefined ==
  ASSUME NEW X, NEW m \in Nat, NEW base \in X, NEW next \in [X -> X]
  PROVE  \E f \in [0..m -> X] : Turns(f, m, base, next)
<1> DEFINE step == [x \in X \X (1..m) |-> next[x[1]]]
<1>1. step \in [X \X (1..m) -> X]
  OBVIOUS
<1>2. PICK f \in [0..m -> X] : Recurs(f, m, base, step)
  <2> HIDE DEF step
  <2> QED
    BY <1>1, Recursion
<1>3. ASSUME NEW n \in 0..m
      PROVE  f[n] = IF n = 0 THEN base ELSE next[f[n - 1]]
  <2>1. CASE n = 0
    BY <1>2, <2>1 DEF Recurs
  <2>2. CASE n # 0
    <3>1. n \in 1..m /\ n - 1 \in 0..m
      BY <2>2
    <3>2. f[n - 1] \in X
      BY <3>1
    <3>3. f[n] = step[<<f[n - 1], n>>]
      BY <1>2, <3>1 DEF Recurs
    <3>4. step[<<f[n - 1], n>>] = next[f[n - 1]]
      BY <3>1, <3>2
    <3> QED
      BY <2>2, <3>3, <3>4
  <2> QED
    BY <2>1, <2>2
<1> QED
  BY <1>3 DEF Turns

(* Roles.                                                                  *)

\* The walk of a tag through the role map (StructureRole), and where it stops.
RoleWalks(roleMap) == [role : DOMAIN roleMap \cup Standard, seen : SUBSET DOMAIN roleMap]
RoleStops(roleMap, walk) == walk.role \in Standard \cup walk.seen \/ roleMap[walk.role] = NoRole

\* A turn of that walk stays where it stops, and else goes to what the tag is mapped to.
LEMMA RoleTurnIs ==
  ASSUME NEW roleMap, Mapping(roleMap), NEW walk \in RoleWalks(roleMap)
  PROVE  /\ RoleTurn(roleMap, walk) \in RoleWalks(roleMap)
         /\ RoleStops(roleMap, walk) => RoleTurn(roleMap, walk) = walk
         /\ ~RoleStops(roleMap, walk) =>
              /\ walk.role \in DOMAIN roleMap
              /\ RoleTurn(roleMap, walk) = [role |-> roleMap[walk.role], seen |-> walk.seen \cup {walk.role}]
<1>1. walk.role \in DOMAIN roleMap \cup Standard /\ walk.seen \in SUBSET DOMAIN roleMap
  BY DEF RoleWalks
<1>2. RoleStops(roleMap, walk) => RoleTurn(roleMap, walk) = walk
  BY DEF RoleTurn, RoleStops
<1>3. ASSUME ~RoleStops(roleMap, walk)
      PROVE  /\ walk.role \in DOMAIN roleMap
             /\ RoleTurn(roleMap, walk) = [role |-> roleMap[walk.role], seen |-> walk.seen \cup {walk.role}]
             /\ RoleTurn(roleMap, walk) \in RoleWalks(roleMap)
  <2>1. walk.role \in DOMAIN roleMap
    BY <1>1, <1>3 DEF RoleStops
  <2>2. RoleTurn(roleMap, walk) = [role |-> roleMap[walk.role], seen |-> walk.seen \cup {walk.role}]
    BY <1>3 DEF RoleTurn, RoleStops
  <2>3. roleMap[walk.role] \in DOMAIN roleMap \cup Standard
    BY <1>3, <2>1 DEF RoleStops, Mapping
  <2> QED
    BY <1>1, <2>1, <2>2, <2>3 DEF RoleWalks
<1> QED
  BY <1>2, <1>3

\* The walk is made of these turns.
LEMMA RoleWalkIs ==
  ASSUME NEW roleMap, Mapping(roleMap), NEW tag \in DOMAIN roleMap \cup Standard
  PROVE  /\ RoleWalk(roleMap, tag)[0] = [role |-> tag, seen |-> {}]
         /\ Cardinality(DOMAIN roleMap) \in Nat
         /\ \A n \in 0..Cardinality(DOMAIN roleMap) : RoleWalk(roleMap, tag)[n] \in RoleWalks(roleMap)
         /\ \A n \in 1..Cardinality(DOMAIN roleMap) :
              RoleWalk(roleMap, tag)[n] = RoleTurn(roleMap, RoleWalk(roleMap, tag)[n - 1])
<1> DEFINE m == Cardinality(DOMAIN roleMap)
           X == RoleWalks(roleMap)
           base == [role |-> tag, seen |-> {}]
           turn == [x \in X |-> RoleTurn(roleMap, x)]
           Eq(f) == f = [n \in 0..m |-> IF n = 0 THEN base ELSE RoleTurn(roleMap, f[n - 1])]
           walk == CHOOSE walk : Eq(walk)
<1>1. m \in Nat /\ base \in X
  BY FS_CardinalityType DEF Mapping, RoleWalks
<1>2. turn \in [X -> X]
  <2>1. \A x \in X : RoleTurn(roleMap, x) \in X
    BY RoleTurnIs
  <2> QED
    BY <2>1
<1>3. \A x \in X : turn[x] = RoleTurn(roleMap, x)
  OBVIOUS
<1>4. RoleWalk(roleMap, tag) = walk
  BY DEF RoleWalk
<1> HIDE DEF m, X, base, turn
<1>5. PICK f \in [0..m -> X] : Turns(f, m, base, turn)
  BY <1>1, <1>2, TurnsDefined
<1>6. Eq(f)
  <2>1. f = [n \in 0..m |-> f[n]]
    OBVIOUS
  <2>2. ASSUME NEW n \in 0..m
        PROVE  f[n] = IF n = 0 THEN base ELSE RoleTurn(roleMap, f[n - 1])
    <3>1. n # 0 => n - 1 \in 0..m
      BY <1>1
    <3> QED
      BY <1>3, <1>5, <3>1 DEF Turns
  <2> QED
    BY <2>1, <2>2
<1>7. Eq(walk)
  BY <1>6
<1> HIDE DEF walk
<1>8. \A n \in 0..m : walk[n] = IF n = 0 THEN base ELSE RoleTurn(roleMap, walk[n - 1])
  BY <1>7
<1>9. walk[0] = base /\ \A n \in 1..m : walk[n] = RoleTurn(roleMap, walk[n - 1])
  BY <1>1, <1>8
<1>10. \A n \in 0..m : walk[n] \in X
  <2>1. \A n \in 1..m : walk[n - 1] \in X => walk[n] = turn[walk[n - 1]]
    BY <1>3, <1>9
  <2> QED
    BY <1>1, <1>2, <1>9, <2>1, TurnsTyped, ZenonT(60)
<1> QED
  BY <1>1, <1>4, <1>9, <1>10 DEF m, X, base


\* What a tag is mapped to so far: what the map leads to from it, and nothing else.
Leads(roleMap, tag, S) == tag \in S /\ \A x \in (S \cap DOMAIN roleMap) \ Standard : roleMap[x] \in S
RoleTrue(roleMap, tag, walk) ==
  /\ walk \in RoleWalks(roleMap)
  /\ walk.seen \cap Standard = {}
  /\ \A S \in SUBSET (DOMAIN roleMap \cup Standard \cup {NoRole}) :
       Leads(roleMap, tag, S) => walk.seen \cup {walk.role} \subseteq S
  /\ tag \in walk.seen \cup {walk.role}
  /\ \A x \in walk.seen : roleMap[x] \in walk.seen \cup {walk.role}

\* A turn keeps that, and stops or marks one more tag as seen.
LEMMA RoleTurnTrue ==
  ASSUME NEW roleMap, Mapping(roleMap), NEW tag \in DOMAIN roleMap \cup Standard,
         NEW walk, RoleTrue(roleMap, tag, walk)
  PROVE  /\ RoleTrue(roleMap, tag, RoleTurn(roleMap, walk))
         /\ \A n \in Nat : RoleStops(roleMap, walk) \/ Cardinality(walk.seen) = n =>
              \/ RoleStops(roleMap, RoleTurn(roleMap, walk))
              \/ Cardinality(RoleTurn(roleMap, walk).seen) = n + 1
<1> DEFINE turned == RoleTurn(roleMap, walk)
<1>1. walk \in RoleWalks(roleMap) /\ turned \in RoleWalks(roleMap)
  BY RoleTurnIs DEF RoleTrue
<1>2. CASE RoleStops(roleMap, walk)
  <2>1. turned = walk
    BY <1>1, <1>2, RoleTurnIs
  <2> HIDE DEF turned
  <2>2. RoleTrue(roleMap, tag, turned) /\ RoleStops(roleMap, turned)
    BY <1>2, <2>1
  <2> QED
    BY <2>2 DEF turned
<1>3. CASE ~RoleStops(roleMap, walk)
  <2>1. /\ walk.role \in DOMAIN roleMap
        /\ turned = [role |-> roleMap[walk.role], seen |-> walk.seen \cup {walk.role}]
    BY <1>1, <1>3, RoleTurnIs
  <2> HIDE DEF turned
  <2>2. turned.role = roleMap[walk.role] /\ turned.seen = walk.seen \cup {walk.role}
    BY <2>1
  <2>3. walk.role \notin Standard /\ walk.role \notin walk.seen
    BY <1>3 DEF RoleStops
  <2>4. turned.seen \cap Standard = {}
    BY <2>2, <2>3 DEF RoleTrue
  <2>5. ASSUME NEW S \in SUBSET (DOMAIN roleMap \cup Standard \cup {NoRole}), Leads(roleMap, tag, S)
        PROVE  turned.seen \cup {turned.role} \subseteq S
    <3>1. walk.seen \cup {walk.role} \subseteq S
      BY <2>5 DEF RoleTrue
    <3>2. roleMap[walk.role] \in S
      BY <2>1, <2>3, <2>5, <3>1 DEF Leads
    <3> QED
      BY <2>2, <3>1, <3>2
  <2>6. /\ tag \in turned.seen \cup {turned.role}
        /\ \A x \in turned.seen : roleMap[x] \in turned.seen \cup {turned.role}
    BY <2>2 DEF RoleTrue
  <2>7. RoleTrue(roleMap, tag, turned)
    BY <1>1, <2>4, <2>5, <2>6 DEF RoleTrue, turned
  <2>8. Cardinality(turned.seen) = Cardinality(walk.seen) + 1
    <3>1. walk.seen \subseteq DOMAIN roleMap /\ IsFiniteSet(DOMAIN roleMap)
      BY <1>1 DEF RoleWalks, Mapping
    <3>2. IsFiniteSet(walk.seen)
      BY <3>1, FS_Subset
    <3> QED
      BY <2>2, <2>3, <3>2, FS_AddElement
  <2> QED
    BY <1>3, <2>7, <2>8 DEF turned
<1> QED
  BY <1>2, <1>3

\* The walk of a tag stops before the turns run out.
LEMMA RoleWalkStops ==
  ASSUME NEW roleMap, Mapping(roleMap), NEW tag \in DOMAIN roleMap \cup Standard
  PROVE  LET walk == RoleWalk(roleMap, tag)[Cardinality(DOMAIN roleMap)]
         IN RoleTrue(roleMap, tag, walk) /\ RoleStops(roleMap, walk)
<1> DEFINE m == Cardinality(DOMAIN roleMap)
           w == RoleWalk(roleMap, tag)
           T == {n \in 0..m : /\ RoleTrue(roleMap, tag, w[n])
                              /\ RoleStops(roleMap, w[n]) \/ Cardinality(w[n].seen) = n}
<1>1. /\ m \in Nat /\ w[0] = [role |-> tag, seen |-> {}]
      /\ \A n \in 0..m : w[n] \in RoleWalks(roleMap)
      /\ \A n \in 1..m : w[n] = RoleTurn(roleMap, w[n - 1])
  BY RoleWalkIs
<1> HIDE DEF m, w
<1>2. 0 \in T
  <2>1. w[0].role = tag /\ w[0].seen = {} /\ Cardinality({}) = 0 /\ 0 \in 0..m
    BY <1>1, FS_EmptySet
  <2>2. RoleTrue(roleMap, tag, w[0])
    BY <1>1, <2>1 DEF RoleTrue, Leads
  <2> QED
    BY <2>1, <2>2
<1>3. ASSUME NEW n \in 0..(m - 1), n \in T
      PROVE  n + 1 \in T
  <2>1. n \in Nat /\ n + 1 \in 0..m /\ w[n + 1] = RoleTurn(roleMap, w[n])
    <3>1. n \in Nat /\ n + 1 \in 0..m /\ n + 1 \in 1..m /\ (n + 1) - 1 = n
      BY <1>1
    <3> QED
      BY <1>1, <3>1
  <2>2. RoleTrue(roleMap, tag, w[n + 1])
    BY <1>3, <2>1, RoleTurnTrue
  <2>3. RoleStops(roleMap, w[n + 1]) \/ Cardinality(w[n + 1].seen) = n + 1
    BY <1>3, <2>1, RoleTurnTrue
  <2> QED
    BY <2>1, <2>2, <2>3
<1>4. m \in T
  <2> HIDE DEF T
  <2>1. \A n \in 0..m : n \in T
    BY <1>1, <1>2, <1>3, Steps
  <2> QED
    BY <1>1, <2>1
<1>5. RoleTrue(roleMap, tag, w[m])
  BY <1>4
<1>6. RoleStops(roleMap, w[m])
  <2> SUFFICES ASSUME Cardinality(w[m].seen) = m
               PROVE  RoleStops(roleMap, w[m])
    BY <1>4
  <2>1. w[m].seen \subseteq DOMAIN roleMap /\ w[m].role \in DOMAIN roleMap \cup Standard
    BY <1>5 DEF RoleTrue, RoleWalks
  <2>2. w[m].seen = DOMAIN roleMap
    <3>1. IsFiniteSet(DOMAIN roleMap)
      BY DEF Mapping
    <3>2. IsFiniteSet(w[m].seen) /\ Cardinality(w[m].seen) = Cardinality(DOMAIN roleMap)
      BY <2>1, <3>1, FS_Subset DEF m
    <3> QED
      BY <2>1, <3>1, <3>2, FS_Subset
  <2> QED
    BY <2>1, <2>2 DEF RoleStops
<1> QED
  BY <1>5, <1>6 DEF m, w

\* The role of a tag: the standard one its mapping has, if it has one.
RoleRight(roleMap, tag, role) ==
  LET mapped == Mapped(roleMap, tag)
  IN IF mapped \cap Standard # {} THEN mapped \cap Standard = {role}
     ELSE role \in mapped \ {NoRole}

\* A tag gets the standard role its mapping leads to, or else a tag of the mapping.
LEMMA RoleMapped ==
  ASSUME NEW roleMap, Mapping(roleMap), NEW tag \in DOMAIN roleMap \cup Standard
  PROVE  /\ StructureRole(roleMap, tag) \in DOMAIN roleMap \cup Standard
         /\ RoleRight(roleMap, tag, StructureRole(roleMap, tag))
<1> DEFINE walk == RoleWalk(roleMap, tag)[Cardinality(DOMAIN roleMap)]
           role == StructureRole(roleMap, tag)
           mapped == Mapped(roleMap, tag)
           all == DOMAIN roleMap \cup Standard \cup {NoRole}
<1>1. RoleTrue(roleMap, tag, walk) /\ RoleStops(roleMap, walk)
  BY RoleWalkStops
<1>2. role = walk.role
  BY DEF StructureRole
<1>3. mapped = {r \in all : \A S \in SUBSET all : Leads(roleMap, tag, S) => r \in S}
  BY DEF Mapped, Leads
<1>4. NoRole \notin DOMAIN roleMap \cup Standard
  BY DEF Mapping
<1> HIDE DEF walk, role, mapped
<1>5. walk.seen \subseteq DOMAIN roleMap /\ role \in DOMAIN roleMap \cup Standard
  BY <1>1, <1>2 DEF RoleTrue, RoleWalks
<1>6. role \in mapped /\ role # NoRole
  BY <1>1, <1>2, <1>3, <1>4, <1>5 DEF RoleTrue
<1> DEFINE S == walk.seen \cup {role, NoRole}
<1>7. CASE role \in Standard
  <2>1. Leads(roleMap, tag, walk.seen \cup {role})
    BY <1>1, <1>2, <1>7 DEF Leads, RoleTrue
  <2>2. mapped \subseteq walk.seen \cup {role}
    BY <1>3, <1>5, <2>1
  <2>3. mapped \cap Standard = {role}
    BY <1>1, <1>6, <1>7, <2>2 DEF RoleTrue
  <2> QED
    BY <1>5, <2>3 DEF RoleRight, mapped, role
<1>8. CASE role \notin Standard
  <2>1. Leads(roleMap, tag, S)
    <3>1. tag \in S
      BY <1>1, <1>2 DEF RoleTrue
    <3>2. ASSUME NEW x \in (S \cap DOMAIN roleMap) \ Standard
          PROVE  roleMap[x] \in S
      <4>1. x \in walk.seen \cup {role}
        BY <1>4, <3>2
      <4>2. x \in walk.seen => roleMap[x] \in S
        BY <1>1, <1>2 DEF RoleTrue
      <4>3. role \in walk.seen \/ roleMap[role] = NoRole
        BY <1>1, <1>2, <1>8 DEF RoleStops
      <4> QED
        BY <4>1, <4>2, <4>3
    <3> QED
      BY <3>1, <3>2 DEF Leads
  <2>2. mapped \subseteq S
    BY <1>3, <1>5, <2>1
  <2>3. mapped \cap Standard = {}
    BY <1>1, <1>4, <1>8, <2>2 DEF RoleTrue
  <2> QED
    BY <1>5, <1>6, <2>3 DEF RoleRight, mapped, role
<1> QED
  BY <1>7, <1>8


(* Stacks.                                                                 *)

\* The objects on a stack, and what popping, pushing and appending make of them.
On(stack) == {stack[k].object : k \in DOMAIN stack}

LEMMA PoppedIs ==
  ASSUME NEW X, NEW s \in Seq(X), s # <<>>
  PROVE  /\ Len(s) \in Nat /\ Len(s) > 0 /\ Last(s) = s[Len(s)] /\ Last(s) \in X
         /\ Front(s) \in Seq(X) /\ Len(Front(s)) = Len(s) - 1
         /\ \A k \in 1..(Len(s) - 1) : Front(s)[k] = s[k]
         /\ On(s) = On(Front(s)) \cup {Last(s).object}
<1> DEFINE n == Len(s)
<1>1. n \in Nat /\ n > 0 /\ n - 1 \in Nat /\ n \in 1..n
  OBVIOUS
<1>2. Last(s) = s[n] /\ s[n] \in X
  BY <1>1 DEF Last
<1>3. Front(s) = SubSeq(s, 1, n - 1)
  BY DEF Front
<1>4. \A k \in 1..(n - 1) : k \in 1..n /\ s[k] \in X
  OBVIOUS
<1> HIDE DEF n
<1>5. /\ Front(s) \in Seq(X) /\ Len(Front(s)) = n - 1
      /\ \A k \in 1..(n - 1) : Front(s)[k] = s[k]
  <2>1. 1 \in 1..(n + 1) /\ n - 1 \in 0..n /\ n - 1 - 1 + 1 = n - 1 /\ \A k \in 1..(n - 1) : 1 + k - 1 = k
    BY <1>1
  <2>2. \A i \in 1..(n - 1) : s[i] \in X
    BY <1>4
  <2> QED
    BY <1>1, <1>3, <2>1, <2>2, SubSeqProperties DEF n
<1>6. DOMAIN s = 1..n /\ DOMAIN Front(s) = 1..(n - 1)
  BY <1>5 DEF n
<1>7. 1..n = 1..(n - 1) \cup {n}
  BY <1>1
<1>8. On(s) = On(Front(s)) \cup {Last(s).object}
  BY <1>2, <1>5, <1>6, <1>7 DEF On
<1> QED
  BY <1>1, <1>2, <1>5, <1>8 DEF n

LEMMA PushedIs ==
  ASSUME NEW X, NEW s \in Seq(X), NEW items \in Seq(X)
  PROVE  /\ Pushed(s, items) \in Seq(X) /\ Len(Pushed(s, items)) = Len(s) + Len(items)
         /\ \A k \in 1..Len(s) : Pushed(s, items)[k] = s[k]
         /\ \A k \in (Len(s) + 1)..(Len(s) + Len(items)) :
              Pushed(s, items)[k] = items[Len(s) + Len(items) + 1 - k]
         /\ On(Pushed(s, items)) = On(s) \cup On(items)
<1> DEFINE n == Len(s)
           m == Len(items)
           r == Reverse(items)
           t == Pushed(s, items)
<1>1. n \in Nat /\ m \in Nat /\ DOMAIN s = 1..n /\ DOMAIN items = 1..m
  OBVIOUS
<1>2. r = [i \in 1..m |-> items[m - i + 1]]
  BY DEF Reverse
<1>3. \A i \in 1..m : m - i + 1 \in 1..m /\ items[m - i + 1] \in X
  <2> SUFFICES ASSUME NEW i \in 1..m PROVE m - i + 1 \in 1..m /\ items[m - i + 1] \in X
    OBVIOUS
  <2>1. m - i + 1 \in 1..m
    BY <1>1
  <2> QED
    BY <2>1
<1>4. r \in Seq(X) /\ Len(r) = m /\ \A i \in 1..m : r[i] = items[m - i + 1]
  BY <1>1, <1>2, <1>3
<1>5. t = s \o r
  BY DEF Pushed
<1> HIDE DEF r, t
<1>6. t \in Seq(X) /\ Len(t) = n + m
  BY <1>4, <1>5, ConcatProperties
<1>7. \A k \in 1..(n + m) : t[k] = IF k <= n THEN s[k] ELSE r[k - n]
  BY <1>1, <1>4, <1>5, ConcatProperties
<1> HIDE DEF n, m
<1>8. \A k \in 1..n : t[k] = s[k]
  BY <1>1, <1>7
<1>9. \A k \in (n + 1)..(n + m) : t[k] = items[n + m + 1 - k]
  <2> SUFFICES ASSUME NEW k \in (n + 1)..(n + m) PROVE t[k] = items[n + m + 1 - k]
    OBVIOUS
  <2>1. k \in 1..(n + m) /\ ~(k <= n) /\ k - n \in 1..m /\ m - (k - n) + 1 = n + m + 1 - k
    BY <1>1
  <2>2. t[k] = r[k - n]
    BY <1>7, <2>1
  <2> QED
    BY <1>4, <2>1, <2>2
<1>10. On(t) = On(s) \cup On(items)
  <2>1. DOMAIN t = 1..(n + m)
    BY <1>1, <1>6
  <2>2. ASSUME NEW x \in On(t) PROVE x \in On(s) \cup On(items)
    <3>1. PICK k \in 1..(n + m) : x = t[k].object
      BY <2>1 DEF On
    <3>2. CASE k <= n
      BY <1>1, <1>8, <3>1, <3>2 DEF On
    <3>3. CASE ~(k <= n)
      <4>1. k \in (n + 1)..(n + m) /\ n + m + 1 - k \in 1..m
        BY <1>1, <3>3
      <4> QED
        BY <1>1, <1>9, <3>1, <4>1 DEF On
    <3> QED
      BY <3>2, <3>3
  <2>3. ASSUME NEW x \in On(s) PROVE x \in On(t)
    <3>1. PICK k \in 1..n : x = s[k].object
      BY <1>1, <2>3 DEF On
    <3>2. k \in 1..(n + m)
      BY <1>1
    <3> QED
      BY <1>8, <2>1, <3>1, <3>2 DEF On
  <2>4. ASSUME NEW x \in On(items) PROVE x \in On(t)
    <3>1. PICK i \in 1..m : x = items[i].object
      BY <1>1, <2>4 DEF On
    <3>2. n + m + 1 - i \in (n + 1)..(n + m) /\ n + m + 1 - i \in 1..(n + m) /\ n + m + 1 - (n + m + 1 - i) = i
      BY <1>1
    <3>3. t[n + m + 1 - i] = items[i]
      BY <1>9, <3>2
    <3> QED
      BY <2>1, <3>1, <3>2, <3>3 DEF On
  <2> QED
    BY <2>2, <2>3, <2>4
<1> QED
  BY <1>6, <1>8, <1>9, <1>10 DEF n, m, t

LEMMA AppendedIs ==
  ASSUME NEW X, NEW s \in Seq(X), NEW x \in X
  PROVE  /\ Append(s, x) \in Seq(X) /\ Len(Append(s, x)) = Len(s) + 1 /\ Len(s) \in Nat
         /\ \A k \in 1..Len(s) : Append(s, x)[k] = s[k]
         /\ Append(s, x)[Len(s) + 1] = x
         /\ ToSet(Append(s, x)) = ToSet(s) \cup {x}
         /\ On(Append(s, x)) = On(s) \cup {x.object}
<1> DEFINE n == Len(s)
           t == Append(s, x)
<1>1. /\ t \in Seq(X) /\ Len(t) = n + 1 /\ n \in Nat
      /\ \A k \in 1..n : t[k] = s[k]
      /\ t[n + 1] = x
  BY AppendProperties
<1>2. DOMAIN t = 1..(n + 1) /\ DOMAIN s = 1..n /\ 1..(n + 1) = 1..n \cup {n + 1}
  BY <1>1
<1> HIDE DEF n, t
<1>3. ToSet(t) = ToSet(s) \cup {x}
  BY <1>1, <1>2 DEF ToSet
<1>4. On(t) = On(s) \cup {x.object}
  BY <1>1, <1>2 DEF On
<1> QED
  BY <1>1, <1>3, <1>4 DEF n, t


(* CollectStructureChildren.                                               *)

\* What CollectStructureChildren has pending, and what a walk of it is.
FlatItems(doc) == [object : DOMAIN doc.objects, depth : Nat]
FlatWalks(doc) ==
  [pending : Seq(FlatItems(doc)), seen : SUBSET DOMAIN doc.objects,
   children : Seq(DOMAIN doc.objects), mcids : Seq(DOMAIN doc.objects)]

\* What a turn does to an object.
Drops(doc, walk, item) ==
  \/ item.depth > DepthCap
  \/ doc.objects[item.object].is \in {"null", "objr"}
  \/ doc.objects[item.object].is = "array" /\ item.object \in walk.seen
Inner(doc, item) ==
  [i \in DOMAIN doc.objects[item.object].kids |->
     [object |-> doc.objects[item.object].kids[i], depth |-> item.depth + 1]]
FlatTurned(doc, walk, turned) ==
  LET item == Last(walk.pending)
      rest == Front(walk.pending)
      is == doc.objects[item.object].is
  IN \/ /\ Drops(doc, walk, item)
        /\ turned.pending = rest /\ turned.seen = walk.seen
        /\ turned.children = walk.children /\ turned.mcids = walk.mcids
     \/ /\ ~Drops(doc, walk, item) /\ is = "array"
        /\ turned.pending = Pushed(rest, Inner(doc, item)) /\ turned.seen = walk.seen \cup {item.object}
        /\ turned.children = walk.children /\ turned.mcids = walk.mcids
     \/ /\ ~Drops(doc, walk, item) /\ is = "content"
        /\ turned.pending = rest /\ turned.seen = walk.seen
        /\ turned.children = walk.children /\ turned.mcids = Append(walk.mcids, item.object)
     \/ /\ ~Drops(doc, walk, item) /\ is = "element"
        /\ turned.pending = rest /\ turned.seen = walk.seen
        /\ turned.children = Append(walk.children, item.object) /\ turned.mcids = walk.mcids

\* What an object of a tagged document is.
LEMMA ObjectIs ==
  ASSUME NEW doc, Treed(doc), NEW o \in DOMAIN doc.objects
  PROVE  /\ doc.objects[o] \in Nodes(doc)
         /\ doc.objects[o].is \in {"array", "element", "content", "objr", "null"}
         /\ doc.objects[o].kids \in Seq(DOMAIN doc.objects) /\ doc.objects[o].page \in Nat
         /\ doc.objects[o].tag \in DOMAIN doc.roleMap \cup Standard
<1>1. doc.objects[o] \in Nodes(doc)
  <2> DEFINE N == Nodes(doc)
  <2>1. doc.objects \in Seq(N)
    BY DEF Treed
  <2> HIDE DEF N
  <2> QED
    BY <2>1 DEF N
<1> QED
  BY <1>1 DEF Nodes

\* The items of an array, one deeper than it.
LEMMA InnerIs ==
  ASSUME NEW doc, Treed(doc), NEW item \in FlatItems(doc)
  PROVE  /\ Inner(doc, item) \in Seq(FlatItems(doc))
         /\ Len(Inner(doc, item)) = Len(doc.objects[item.object].kids)
         /\ On(Inner(doc, item)) = ToSet(doc.objects[item.object].kids)
         /\ \A i \in DOMAIN Inner(doc, item) : Inner(doc, item)[i].depth = item.depth + 1
<1> DEFINE kids == doc.objects[item.object].kids
           inner == Inner(doc, item)
<1>1. item.object \in DOMAIN doc.objects /\ item.depth \in Nat
  BY DEF FlatItems
<1>2. kids \in Seq(DOMAIN doc.objects)
  BY <1>1, ObjectIs
<1>3. inner = [i \in DOMAIN kids |-> [object |-> kids[i], depth |-> item.depth + 1]]
  BY DEF Inner
<1> HIDE DEF kids, inner
<1>4. DOMAIN kids = 1..Len(kids) /\ Len(kids) \in Nat /\ \A i \in 1..Len(kids) : kids[i] \in DOMAIN doc.objects
  BY <1>2
<1>5. \A i \in 1..Len(kids) : [object |-> kids[i], depth |-> item.depth + 1] \in FlatItems(doc)
  BY <1>1, <1>4 DEF FlatItems
<1>6. inner \in Seq(FlatItems(doc)) /\ Len(inner) = Len(kids)
  BY <1>3, <1>4, <1>5
<1>7. DOMAIN inner = DOMAIN kids
      /\ \A i \in DOMAIN kids : inner[i].object = kids[i] /\ inner[i].depth = item.depth + 1
  BY <1>3
<1>8. On(inner) = ToSet(kids)
  BY <1>7 DEF On, ToSet
<1> QED
  BY <1>6, <1>7, <1>8 DEF kids, inner

\* A turn of CollectStructureChildren does one of these.
LEMMA FlattenTurnIs ==
  ASSUME NEW doc, Treed(doc), NEW walk \in FlatWalks(doc)
  PROVE  /\ FlattenTurn(doc, walk) \in FlatWalks(doc)
         /\ walk.pending = <<>> => FlattenTurn(doc, walk) = walk
         /\ walk.pending # <<>> => FlatTurned(doc, walk, FlattenTurn(doc, walk))
<1> DEFINE item == Last(walk.pending)
           rest == Front(walk.pending)
           is == doc.objects[item.object].is
           turned == FlattenTurn(doc, walk)
           inner == Inner(doc, item)
<1>1. walk.pending = <<>> => turned = walk
  BY DEF FlattenTurn
<1>2. ASSUME walk.pending # <<>>
      PROVE  FlatTurned(doc, walk, turned) /\ turned \in FlatWalks(doc)
  <2>1. walk.pending \in Seq(FlatItems(doc))
    BY DEF FlatWalks
  <2>2. item \in FlatItems(doc) /\ rest \in Seq(FlatItems(doc))
    BY <1>2, <2>1, PoppedIs
  <2>3. item.object \in DOMAIN doc.objects
    BY <2>2 DEF FlatItems
  <2>4. is \in {"array", "element", "content", "objr", "null"}
    BY <2>3, ObjectIs
  <2>5. inner \in Seq(FlatItems(doc))
    BY <2>2, InnerIs
  <2>6. Pushed(rest, inner) \in Seq(FlatItems(doc))
    BY <2>2, <2>5, PushedIs
  <2>7. /\ Append(walk.mcids, item.object) \in Seq(DOMAIN doc.objects)
        /\ Append(walk.children, item.object) \in Seq(DOMAIN doc.objects)
    <3>1. walk.mcids \in Seq(DOMAIN doc.objects) /\ walk.children \in Seq(DOMAIN doc.objects)
      BY DEF FlatWalks
    <3> QED
      BY <2>3, <3>1, AppendedIs
  <2> DEFINE popped == [walk EXCEPT !.pending = rest]
             drops == Drops(doc, walk, item)
  <2>8. popped \in FlatWalks(doc)
    BY <2>2 DEF FlatWalks
  <2>9. /\ drops => turned = popped
        /\ ~drops /\ is = "array" =>
             turned = [popped EXCEPT !.seen = @ \cup {item.object}, !.pending = Pushed(@, inner)]
        /\ ~drops /\ is = "content" => turned = [popped EXCEPT !.mcids = Append(@, item.object)]
        /\ ~drops /\ is = "element" => turned = [popped EXCEPT !.children = Append(@, item.object)]
    <3>1. drops => turned = popped
      BY <1>2 DEF FlattenTurn, Drops
    <3>2. ~drops /\ is = "array" =>
            turned = [popped EXCEPT !.seen = @ \cup {item.object}, !.pending = Pushed(@, inner)]
      BY <1>2 DEF FlattenTurn, Drops, Inner
    <3>3. ~drops /\ is = "content" => turned = [popped EXCEPT !.mcids = Append(@, item.object)]
      BY <1>2 DEF FlattenTurn, Drops
    <3>4. ~drops /\ is = "element" => turned = [popped EXCEPT !.children = Append(@, item.object)]
      BY <1>2 DEF FlattenTurn, Drops
    <3> QED
      BY <3>1, <3>2, <3>3, <3>4
  <2>10. drops \/ is \in {"array", "content", "element"}
    BY <2>4 DEF Drops
  <2>11. /\ popped.pending = rest /\ popped.seen = walk.seen /\ popped.children = walk.children
         /\ popped.mcids = walk.mcids
    BY DEF FlatWalks
  <2> HIDE DEF drops, is, item, rest, inner, turned
  <2>12. CASE drops
    <3>1. turned = popped
      BY <2>9, <2>12
    <3> HIDE DEF popped
    <3> QED
      BY <2>8, <2>11, <2>12, <3>1 DEF FlatTurned, drops, item, rest
  <2>13. CASE ~drops /\ is = "array"
    <3>1. turned = [popped EXCEPT !.seen = @ \cup {item.object}, !.pending = Pushed(@, inner)]
      BY <2>9, <2>13
    <3> HIDE DEF popped
    <3>2. /\ turned.pending = Pushed(rest, inner) /\ turned.seen = walk.seen \cup {item.object}
          /\ turned.children = walk.children /\ turned.mcids = walk.mcids
      BY <2>8, <2>11, <3>1 DEF FlatWalks
    <3>3. turned \in FlatWalks(doc)
      BY <2>3, <2>6, <2>8, <2>11, <3>1 DEF FlatWalks
    <3> QED
      BY <2>13, <3>2, <3>3 DEF FlatTurned, drops, item, rest, is, inner
  <2>14. CASE ~drops /\ is = "content"
    <3>1. turned = [popped EXCEPT !.mcids = Append(@, item.object)]
      BY <2>9, <2>14
    <3> HIDE DEF popped
    <3>2. /\ turned.pending = rest /\ turned.seen = walk.seen
          /\ turned.children = walk.children /\ turned.mcids = Append(walk.mcids, item.object)
      BY <2>8, <2>11, <3>1 DEF FlatWalks
    <3>3. turned \in FlatWalks(doc)
      BY <2>7, <2>8, <2>11, <3>1 DEF FlatWalks
    <3> QED
      BY <2>14, <3>2, <3>3 DEF FlatTurned, drops, item, rest, is
  <2>15. CASE ~drops /\ is = "element"
    <3>1. turned = [popped EXCEPT !.children = Append(@, item.object)]
      BY <2>9, <2>15
    <3> HIDE DEF popped
    <3>2. /\ turned.pending = rest /\ turned.seen = walk.seen
          /\ turned.children = Append(walk.children, item.object) /\ turned.mcids = walk.mcids
      BY <2>8, <2>11, <3>1 DEF FlatWalks
    <3>3. turned \in FlatWalks(doc)
      BY <2>7, <2>8, <2>11, <3>1 DEF FlatWalks
    <3> QED
      BY <2>15, <3>2, <3>3 DEF FlatTurned, drops, item, rest, is
  <2> QED
    BY <2>10, <2>12, <2>13, <2>14, <2>15
<1> QED
  BY <1>1, <1>2

\* Its walk starts with the keys, the first on top.
LEMMA FlattenStartIs ==
  ASSUME NEW doc, NEW keys \in Seq(DOMAIN doc.objects)
  PROVE  /\ FlattenStart(keys) \in FlatWalks(doc)
         /\ FlattenStart(keys).seen = {} /\ FlattenStart(keys).children = <<>> /\ FlattenStart(keys).mcids = <<>>
         /\ On(FlattenStart(keys).pending) = ToSet(keys)
         /\ Len(FlattenStart(keys).pending) = Len(keys)
         /\ \A k \in 1..Len(keys) :
              /\ FlattenStart(keys).pending[k].object = keys[Len(keys) + 1 - k]
              /\ FlattenStart(keys).pending[k].depth \in {0, 1}
<1> DEFINE level == IF Len(keys) = 1 THEN 0 ELSE 1
           items == [i \in DOMAIN keys |-> [object |-> keys[i], depth |-> level]]
           start == FlattenStart(keys)
           none == <<>>
           stack == Pushed(none, items)
<1>1. start = [pending |-> stack, seen |-> {}, children |-> <<>>, mcids |-> <<>>]
  BY DEF FlattenStart
<1>2. level \in {0, 1}
  OBVIOUS
<1> HIDE DEF level, start
<1>3. DOMAIN keys = 1..Len(keys) /\ Len(keys) \in Nat /\ \A i \in 1..Len(keys) : keys[i] \in DOMAIN doc.objects
  OBVIOUS
<1>4. \A i \in 1..Len(keys) : [object |-> keys[i], depth |-> level] \in FlatItems(doc)
  BY <1>2, <1>3 DEF FlatItems
<1>5. items \in Seq(FlatItems(doc)) /\ Len(items) = Len(keys)
  BY <1>3, <1>4
<1>6. DOMAIN items = DOMAIN keys /\ \A i \in DOMAIN keys : items[i].object = keys[i] /\ items[i].depth = level
  OBVIOUS
<1> HIDE DEF items
<1>7. On(items) = ToSet(keys)
  BY <1>6 DEF On, ToSet
<1>8. none \in Seq(FlatItems(doc)) /\ Len(none) = 0 /\ On(none) = {}
  BY DEF On
<1> HIDE DEF none
<1>9. /\ stack \in Seq(FlatItems(doc)) /\ Len(stack) = Len(none) + Len(items)
      /\ \A k \in (Len(none) + 1)..(Len(none) + Len(items)) : stack[k] = items[Len(none) + Len(items) + 1 - k]
      /\ On(stack) = On(none) \cup On(items)
  <2> DEFINE F == FlatItems(doc)
  <2>1. items \in Seq(F) /\ none \in Seq(F)
    BY <1>5, <1>8
  <2> HIDE DEF F
  <2>2. Pushed(none, items) \in Seq(F)
    BY <2>1, PushedIs
  <2>3. Len(Pushed(none, items)) = Len(none) + Len(items)
    BY <2>1, PushedIs
  <2>4. \A k \in (Len(none) + 1)..(Len(none) + Len(items)) :
             Pushed(none, items)[k] = items[Len(none) + Len(items) + 1 - k]
    BY <2>1, PushedIs
  <2>5. On(Pushed(none, items)) = On(none) \cup On(items)
    BY <2>1, PushedIs
  <2> QED
    BY <2>2, <2>3, <2>4, <2>5 DEF F
<1> HIDE DEF stack
<1>10. \A k \in 1..Len(keys) : Len(keys) + 1 - k \in 1..Len(keys) /\ stack[k] = items[Len(keys) + 1 - k]
  BY <1>3, <1>5, <1>8, <1>9
<1>11. \A k \in 1..Len(keys) : stack[k].object = keys[Len(keys) + 1 - k] /\ stack[k].depth \in {0, 1}
  BY <1>2, <1>3, <1>6, <1>10
<1>12. start \in FlatWalks(doc)
  BY <1>1, <1>9 DEF FlatWalks
<1> QED
  BY <1>1, <1>3, <1>5, <1>7, <1>8, <1>9, <1>11, <1>12 DEF start


LEMMA StepCapIs == DepthCap \in Nat /\ DepthCap >= 1 /\ StepCap \in Nat
<1>1. DepthCap \in Nat /\ DepthCap >= 1 /\ StepsPerLevel \in Nat
  BY StructureAssumption
<1> QED
  BY <1>1 DEF StepCap

\* The walk is made of these turns.
LEMMA FlattensIs ==
  ASSUME NEW doc, Treed(doc), NEW keys \in Seq(DOMAIN doc.objects)
  PROVE  /\ Flatten(doc, keys)[0] = FlattenStart(keys)
         /\ \A n \in 0..StepCap : Flatten(doc, keys)[n] \in FlatWalks(doc)
         /\ \A n \in 1..StepCap : Flatten(doc, keys)[n] = FlattenTurn(doc, Flatten(doc, keys)[n - 1])
<1> DEFINE m == StepCap
           X == FlatWalks(doc)
           base == FlattenStart(keys)
           turn == [x \in X |-> FlattenTurn(doc, x)]
           Eq(f) == f = [n \in 0..m |-> IF n = 0 THEN base ELSE FlattenTurn(doc, f[n - 1])]
           walk == CHOOSE walk : Eq(walk)
<1>1. m \in Nat /\ base \in X
  BY StepCapIs, FlattenStartIs
<1>2. turn \in [X -> X]
  <2>1. \A x \in X : FlattenTurn(doc, x) \in X
    BY FlattenTurnIs
  <2> QED
    BY <2>1
<1>3. \A x \in X : turn[x] = FlattenTurn(doc, x)
  OBVIOUS
<1>4. Flatten(doc, keys) = walk
  BY DEF Flatten
<1> HIDE DEF m, X, base, turn
<1>5. PICK f \in [0..m -> X] : Turns(f, m, base, turn)
  BY <1>1, <1>2, TurnsDefined
<1>6. Eq(f)
  <2>1. f = [n \in 0..m |-> f[n]]
    OBVIOUS
  <2>2. ASSUME NEW n \in 0..m
        PROVE  f[n] = IF n = 0 THEN base ELSE FlattenTurn(doc, f[n - 1])
    <3>1. n # 0 => n - 1 \in 0..m
      BY <1>1
    <3> QED
      BY <1>3, <1>5, <3>1 DEF Turns
  <2> QED
    BY <2>1, <2>2
<1>7. Eq(walk)
  BY <1>6
<1> HIDE DEF walk
<1>8. \A n \in 0..m : walk[n] = IF n = 0 THEN base ELSE FlattenTurn(doc, walk[n - 1])
  BY <1>7
<1>9. walk[0] = base /\ \A n \in 1..m : walk[n] = FlattenTurn(doc, walk[n - 1])
  BY <1>1, <1>8
<1>10. \A n \in 0..m : walk[n] \in X
  <2>1. \A n \in 1..m : walk[n - 1] \in X => walk[n] = turn[walk[n - 1]]
    BY <1>3, <1>9
  <2> QED
    BY <1>1, <1>2, <1>9, <2>1, TurnsTyped, ZenonT(60)
<1> QED
  BY <1>4, <1>9, <1>10 DEF m, X, base

\* What has been met so far is contained in the keys; it is not nested deeper than
\* there are arrays in it; and what is contained in them has been met or is in
\* something that is pending.
Within(doc, keys, S) == ToSet(keys) \subseteq S /\ Inside(doc, S) \subseteq S
Empty(doc) == {o \in DOMAIN doc.objects : doc.objects[o].is \in {"null", "objr"}}
Met(doc, walk) == On(walk.pending) \cup walk.seen \cup ToSet(walk.children) \cup ToSet(walk.mcids) \cup Empty(doc)
Sound(doc, keys, walk) ==
  /\ walk.seen \subseteq Arrays(doc)
  /\ \A e \in ToSet(walk.children) : e \in DOMAIN doc.objects /\ doc.objects[e].is = "element"
  /\ \A c \in ToSet(walk.mcids) : c \in DOMAIN doc.objects /\ doc.objects[c].is = "content"
  /\ \A S \in SUBSET DOMAIN doc.objects :
       Within(doc, keys, S) => On(walk.pending) \cup ToSet(walk.children) \cup ToSet(walk.mcids) \subseteq S
  /\ \A k \in 1..Len(walk.pending) : walk.pending[k].depth <= 1 + Cardinality(walk.seen)
Gathered(doc, keys, walk) ==
  /\ ToSet(keys) \subseteq Met(doc, walk)
  /\ \A a \in walk.seen : ToSet(doc.objects[a].kids) \subseteq Met(doc, walk)

\* A document has finitely many arrays.
LEMMA ArraysFinite ==
  ASSUME NEW doc, Treed(doc)
  PROVE  /\ Arrays(doc) \subseteq DOMAIN doc.objects /\ IsFiniteSet(Arrays(doc))
         /\ \A S \in SUBSET Arrays(doc) : /\ IsFiniteSet(S) /\ Cardinality(S) \in Nat
                                          /\ Cardinality(S) <= Cardinality(Arrays(doc))
         /\ Cardinality(Arrays(doc)) \in Nat
<1> DEFINE n == Len(doc.objects)
<1>1. n \in Nat /\ DOMAIN doc.objects = 1..n
  <2> DEFINE N == Nodes(doc)
  <2>1. doc.objects \in Seq(N)
    BY DEF Treed
  <2> HIDE DEF N
  <2> QED
    BY <2>1
<1>2. Arrays(doc) \subseteq DOMAIN doc.objects
  BY DEF Arrays
<1> HIDE DEF n
<1>3. IsFiniteSet(1..n)
  BY <1>1, FS_Interval
<1>4. IsFiniteSet(Arrays(doc))
  BY <1>1, <1>2, <1>3, FS_Subset
<1>5. \A S \in SUBSET Arrays(doc) : IsFiniteSet(S) /\ Cardinality(S) <= Cardinality(Arrays(doc))
  BY <1>4, FS_Subset
<1> QED
  BY <1>2, <1>4, <1>5, FS_CardinalityType

\* Nothing is met that the keys do not contain, and an array is opened only once.
LEMMA SoundTurn ==
  ASSUME NEW doc, Treed(doc), NEW keys \in Seq(DOMAIN doc.objects),
         NEW walk \in FlatWalks(doc), Sound(doc, keys, walk)
  PROVE  Sound(doc, keys, FlattenTurn(doc, walk))
<1> DEFINE turned == FlattenTurn(doc, walk)
           item == Last(walk.pending)
           rest == Front(walk.pending)
           is == doc.objects[item.object].is
           inner == Inner(doc, item)
<1>1. walk.pending = <<>> => turned = walk
  BY FlattenTurnIs
<1> SUFFICES ASSUME walk.pending # <<>> PROVE Sound(doc, keys, turned)
  BY <1>1
<1>2. FlatTurned(doc, walk, turned)
  BY FlattenTurnIs
<1>3. walk.pending \in Seq(FlatItems(doc)) /\ walk.seen \subseteq DOMAIN doc.objects
      /\ walk.children \in Seq(DOMAIN doc.objects) /\ walk.mcids \in Seq(DOMAIN doc.objects)
  BY DEF FlatWalks
<1>4. /\ item \in FlatItems(doc) /\ rest \in Seq(FlatItems(doc))
      /\ Len(walk.pending) \in Nat /\ Len(walk.pending) > 0 /\ item = walk.pending[Len(walk.pending)]
      /\ Len(rest) = Len(walk.pending) - 1
      /\ \A k \in 1..Len(rest) : rest[k] = walk.pending[k]
      /\ On(walk.pending) = On(rest) \cup {item.object}
  BY <1>3, PoppedIs
<1>5. item.object \in DOMAIN doc.objects /\ item.depth \in Nat
  BY <1>4 DEF FlatItems
<1> HIDE DEF turned, item, rest, is, inner
<1>6. \A k \in 1..Len(rest) : rest[k].depth <= 1 + Cardinality(walk.seen)
  <2>1. \A k \in 1..Len(rest) : k \in 1..Len(walk.pending)
    BY <1>4
  <2> QED
    BY <1>4, <2>1 DEF Sound
<1>7. item.depth <= 1 + Cardinality(walk.seen)
  <2>1. Len(walk.pending) \in 1..Len(walk.pending)
    BY <1>4
  <2> QED
    BY <1>4, <2>1 DEF Sound
<1>8. \A S \in SUBSET DOMAIN doc.objects :
        Within(doc, keys, S) => /\ item.object \in S /\ On(rest) \subseteq S
                                /\ ToSet(walk.children) \subseteq S /\ ToSet(walk.mcids) \subseteq S
  BY <1>4 DEF Sound
<1>9. CASE /\ turned.pending = rest /\ turned.seen = walk.seen
           /\ turned.children = walk.children /\ turned.mcids = walk.mcids
  BY <1>6, <1>8, <1>9 DEF Sound
<1>10. CASE /\ is = "content" /\ turned.pending = rest /\ turned.seen = walk.seen
            /\ turned.children = walk.children /\ turned.mcids = Append(walk.mcids, item.object)
  <2>1. ToSet(turned.mcids) = ToSet(walk.mcids) \cup {item.object}
    BY <1>3, <1>5, <1>10, AppendedIs
  <2>2. \A c \in ToSet(turned.mcids) : c \in DOMAIN doc.objects /\ doc.objects[c].is = "content"
    BY <1>5, <1>10, <2>1 DEF Sound, is
  <2>3. \A S \in SUBSET DOMAIN doc.objects :
          Within(doc, keys, S) => On(turned.pending) \cup ToSet(turned.children) \cup ToSet(turned.mcids) \subseteq S
    BY <1>8, <1>10, <2>1
  <2> QED
    BY <1>6, <1>10, <2>2, <2>3 DEF Sound
<1>11. CASE /\ is = "element" /\ turned.pending = rest /\ turned.seen = walk.seen
            /\ turned.children = Append(walk.children, item.object) /\ turned.mcids = walk.mcids
  <2>1. ToSet(turned.children) = ToSet(walk.children) \cup {item.object}
    BY <1>3, <1>5, <1>11, AppendedIs
  <2>2. \A e \in ToSet(turned.children) : e \in DOMAIN doc.objects /\ doc.objects[e].is = "element"
    BY <1>5, <1>11, <2>1 DEF Sound, is
  <2>3. \A S \in SUBSET DOMAIN doc.objects :
          Within(doc, keys, S) => On(turned.pending) \cup ToSet(turned.children) \cup ToSet(turned.mcids) \subseteq S
    BY <1>8, <1>11, <2>1
  <2> QED
    BY <1>6, <1>11, <2>2, <2>3 DEF Sound
<1>12. CASE /\ ~Drops(doc, walk, item) /\ is = "array"
            /\ turned.pending = Pushed(rest, inner) /\ turned.seen = walk.seen \cup {item.object}
            /\ turned.children = walk.children /\ turned.mcids = walk.mcids
  <2>1. item.object \in Arrays(doc) /\ item.object \notin walk.seen
    BY <1>5, <1>12 DEF Arrays, is, Drops
  <2>2. walk.seen \subseteq Arrays(doc) /\ turned.seen \subseteq Arrays(doc)
    BY <1>12, <2>1 DEF Sound
  <2>3. Cardinality(walk.seen) \in Nat /\ Cardinality(turned.seen) = Cardinality(walk.seen) + 1
    BY <1>12, <2>1, <2>2, ArraysFinite, FS_AddElement
  <2>4. /\ inner \in Seq(FlatItems(doc)) /\ On(inner) = ToSet(doc.objects[item.object].kids)
        /\ \A i \in DOMAIN inner : inner[i].depth = item.depth + 1
    BY <1>4, InnerIs DEF inner
  <2>5. Len(inner) \in Nat /\ DOMAIN inner = 1..Len(inner) /\ Len(rest) \in Nat
    BY <1>4, <2>4
  <2> DEFINE stack == Pushed(rest, inner)
  <2> HIDE DEF stack
  <2>6. Len(turned.pending) = Len(rest) + Len(inner)
    <3>1. Len(stack) = Len(rest) + Len(inner)
      BY <1>4, <2>4, PushedIs DEF stack
    <3> QED
      BY <1>12, <3>1 DEF stack
  <2>7. \A k \in 1..Len(rest) : turned.pending[k] = rest[k]
    <3>1. \A k \in 1..Len(rest) : stack[k] = rest[k]
      BY <1>4, <2>4, PushedIs DEF stack
    <3> QED
      BY <1>12, <3>1 DEF stack
  <2>8. \A k \in (Len(rest) + 1)..(Len(rest) + Len(inner)) :
          turned.pending[k] = inner[Len(rest) + Len(inner) + 1 - k]
    <3>1. \A k \in (Len(rest) + 1)..(Len(rest) + Len(inner)) : stack[k] = inner[Len(rest) + Len(inner) + 1 - k]
      <4>1. rest \in Seq(FlatItems(doc)) /\ inner \in Seq(FlatItems(doc))
        BY <1>4, <2>4
      <4> QED
        BY <4>1, PushedIs DEF stack
    <3> QED
      BY <1>12, <3>1 DEF stack
  <2>9. On(turned.pending) = On(rest) \cup On(inner)
    <3>1. On(stack) = On(rest) \cup On(inner)
      BY <1>4, <2>4, PushedIs DEF stack
    <3> QED
      BY <1>12, <3>1 DEF stack
  <2>10. ASSUME NEW k \in 1..Len(turned.pending)
         PROVE  turned.pending[k].depth <= 1 + Cardinality(turned.seen)
    <3>1. CASE k \in 1..Len(rest)
      <4>1. rest[k].depth <= 1 + Cardinality(walk.seen) /\ rest[k] \in FlatItems(doc)
        BY <1>4, <1>6, <3>1, ElementOfSeq
      <4>2. rest[k].depth \in Nat
        BY <4>1 DEF FlatItems
      <4> QED
        BY <2>3, <2>7, <3>1, <4>1, <4>2
    <3>2. CASE ~(k \in 1..Len(rest))
      <4>1. k \in (Len(rest) + 1)..(Len(rest) + Len(inner)) /\ Len(rest) + Len(inner) + 1 - k \in 1..Len(inner)
        BY <2>5, <2>6, <3>2
      <4>2. turned.pending[k].depth = item.depth + 1
        BY <2>4, <2>5, <2>8, <4>1
      <4> QED
        BY <1>5, <1>7, <2>3, <4>2
    <3> QED
      BY <3>1, <3>2
  <2>11. ASSUME NEW S \in SUBSET DOMAIN doc.objects, Within(doc, keys, S)
         PROVE  On(turned.pending) \cup ToSet(turned.children) \cup ToSet(turned.mcids) \subseteq S
    <3>1. item.object \in S /\ Inside(doc, S) \subseteq S
      BY <1>8, <2>11 DEF Within
    <3>2. ToSet(doc.objects[item.object].kids) \subseteq S
      BY <2>1, <3>1 DEF Inside
    <3> QED
      BY <1>8, <1>12, <2>4, <2>9, <2>11, <3>2
  <2> QED
    BY <1>12, <2>2, <2>10, <2>11 DEF Sound
<1> QED
  BY <1>2, <1>9, <1>10, <1>11, <1>12 DEF FlatTurned, item, rest, is, inner


\* In a document with fewer arrays than the cap on depth, no turn loses what the keys contain.
LEMMA CompleteTurn ==
  ASSUME NEW doc, Treed(doc), Shallow(doc), NEW keys \in Seq(DOMAIN doc.objects),
         NEW walk \in FlatWalks(doc), Sound(doc, keys, walk), Gathered(doc, keys, walk)
  PROVE  Gathered(doc, keys, FlattenTurn(doc, walk))
<1> DEFINE turned == FlattenTurn(doc, walk)
           item == Last(walk.pending)
           rest == Front(walk.pending)
           is == doc.objects[item.object].is
           inner == Inner(doc, item)
<1>1. walk.pending = <<>> => turned = walk
  BY FlattenTurnIs
<1> SUFFICES ASSUME walk.pending # <<>> PROVE Gathered(doc, keys, turned)
  BY <1>1
<1>2. FlatTurned(doc, walk, turned)
  BY FlattenTurnIs
<1>3. walk.pending \in Seq(FlatItems(doc)) /\ walk.seen \subseteq DOMAIN doc.objects
      /\ walk.children \in Seq(DOMAIN doc.objects) /\ walk.mcids \in Seq(DOMAIN doc.objects)
  BY DEF FlatWalks
<1>4. /\ item \in FlatItems(doc) /\ rest \in Seq(FlatItems(doc))
      /\ Len(walk.pending) \in Nat /\ Len(walk.pending) > 0 /\ item = walk.pending[Len(walk.pending)]
      /\ On(walk.pending) = On(rest) \cup {item.object}
  BY <1>3, PoppedIs
<1>5. item.object \in DOMAIN doc.objects /\ item.depth \in Nat
  BY <1>4 DEF FlatItems
<1> HIDE DEF turned, item, rest, is, inner
<1>6. ~(item.depth > DepthCap)
  <2>1. item.depth <= 1 + Cardinality(walk.seen)
    <3>1. Len(walk.pending) \in 1..Len(walk.pending)
      BY <1>4
    <3> QED
      BY <1>4, <3>1 DEF Sound
  <2>2. walk.seen \in SUBSET Arrays(doc)
    BY DEF Sound
  <2>3. Cardinality(walk.seen) \in Nat /\ Cardinality(walk.seen) <= Cardinality(Arrays(doc))
    BY <2>2, ArraysFinite
  <2>4. Cardinality(Arrays(doc)) < DepthCap /\ Cardinality(Arrays(doc)) \in Nat
    BY ArraysFinite DEF Shallow
  <2> QED
    BY <1>5, <2>1, <2>3, <2>4, StepCapIs
<1>7. Met(doc, walk) \subseteq Met(doc, turned)
      /\ \A a \in turned.seen \ walk.seen : ToSet(doc.objects[a].kids) \subseteq Met(doc, turned)
  <2>1. CASE /\ Drops(doc, walk, item)
             /\ turned.pending = rest /\ turned.seen = walk.seen
             /\ turned.children = walk.children /\ turned.mcids = walk.mcids
    <3>1. item.object \in Empty(doc) \cup walk.seen
      BY <1>5, <1>6, <2>1 DEF Drops, Empty
    <3> QED
      BY <1>4, <2>1, <3>1 DEF Met
  <2>2. CASE /\ is = "content" /\ turned.pending = rest /\ turned.seen = walk.seen
             /\ turned.children = walk.children /\ turned.mcids = Append(walk.mcids, item.object)
    <3>1. ToSet(turned.mcids) = ToSet(walk.mcids) \cup {item.object}
      BY <1>3, <1>5, <2>2, AppendedIs
    <3> QED
      BY <1>4, <2>2, <3>1 DEF Met
  <2>3. CASE /\ is = "element" /\ turned.pending = rest /\ turned.seen = walk.seen
             /\ turned.children = Append(walk.children, item.object) /\ turned.mcids = walk.mcids
    <3>1. ToSet(turned.children) = ToSet(walk.children) \cup {item.object}
      BY <1>3, <1>5, <2>3, AppendedIs, SMTT(60)
    <3> QED
      BY <1>4, <2>3, <3>1 DEF Met
  <2>4. CASE /\ ~Drops(doc, walk, item) /\ is = "array"
             /\ turned.pending = Pushed(rest, inner) /\ turned.seen = walk.seen \cup {item.object}
             /\ turned.children = walk.children /\ turned.mcids = walk.mcids
    <3>1. inner \in Seq(FlatItems(doc)) /\ On(inner) = ToSet(doc.objects[item.object].kids)
      BY <1>4, InnerIs DEF inner
    <3>2. On(Pushed(rest, inner)) = On(rest) \cup On(inner)
      BY <1>4, <3>1, PushedIs
    <3> QED
      BY <1>4, <2>4, <3>1, <3>2 DEF Met
  <2> QED
    BY <1>2, <2>1, <2>2, <2>3, <2>4 DEF FlatTurned, item, rest, is, inner
<1> QED
  BY <1>7 DEF Gathered

\* Unless an array is nested in the keys, what is pending is the rest of the keys, and
\* a child comes after the elements before it.
Follows(doc, keys, children, c) ==
  \A q \in 1..Len(keys) :
    q < KeyIndex(doc, keys, children[c]) /\ doc.objects[keys[q]].is = "element" =>
      \E b \in 1..(c - 1) : children[b] = keys[q]
Ordered(doc, keys, walk) ==
  /\ Len(walk.pending) <= Len(keys)
  /\ \A k \in 1..Len(walk.pending) :
       walk.pending[k].object = keys[Len(keys) + 1 - k] /\ walk.pending[k].depth \in {0, 1}
  /\ \A q \in 1..(Len(keys) - Len(walk.pending)) :
       doc.objects[keys[q]].is = "element" => keys[q] \in ToSet(walk.children)
  /\ \A c \in 1..Len(walk.children) : Follows(doc, keys, walk.children, c)

\* The place of an object among keys in which no array is nested.
LEMMA KeyIndexIs ==
  ASSUME NEW doc, NEW keys \in Seq(DOMAIN doc.objects), NEW o
  PROVE  /\ KeyIndex(doc, keys, o) \in 0..Len(keys)
         /\ KeyIndex(doc, keys, o) # 0 => keys[KeyIndex(doc, keys, o)] = o /\ ToSet(keys) \cap Arrays(doc) = {}
         /\ \A q \in 1..Len(keys) : keys[q] = o => KeyIndex(doc, keys, o) <= q
         /\ ToSet(keys) \cap Arrays(doc) = {} /\ o \in ToSet(keys) => KeyIndex(doc, keys, o) # 0
<1> DEFINE I == {i \in 1..Len(keys) : keys[i] = o}
           index == KeyIndex(doc, keys, o)
<1>1. Len(keys) \in Nat /\ DOMAIN keys = 1..Len(keys) /\ I \in SUBSET Nat
  OBVIOUS
<1>2. index = IF ToSet(keys) \cap Arrays(doc) = {} THEN (IF I # {} THEN Min(I) ELSE 0) ELSE 0
  BY DEF KeyIndex, SelectInSeq
<1>3. I # {} => Min(I) \in I /\ \A q \in I : Min(I) <= q
  <2> SUFFICES ASSUME I # {} PROVE Min(I) \in I /\ \A q \in I : Min(I) <= q
    OBVIOUS
  <2>1. PICK x \in I : \A y \in I : x <= y
    BY <1>1, LeastOf
  <2> QED
    BY <2>1 DEF Min
<1>4. o \in ToSet(keys) => I # {}
  BY <1>1 DEF ToSet
<1>5. \A q \in 1..Len(keys) : keys[q] = o => q \in I
  OBVIOUS
<1> HIDE DEF index
<1>6. I # {} => Min(I) \in 1..Len(keys) /\ keys[Min(I)] = o
  BY <1>3
<1> HIDE DEF I
<1>7. index \in 0..Len(keys)
  BY <1>1, <1>2, <1>6
<1>8. \A q \in 1..Len(keys) : keys[q] = o => index <= q
  BY <1>1, <1>2, <1>3, <1>5
<1> QED
  BY <1>2, <1>4, <1>6, <1>7, <1>8 DEF index

\* A turn keeps that order.
LEMMA OrderedTurn ==
  ASSUME NEW doc, Treed(doc), NEW keys \in Seq(DOMAIN doc.objects), ToSet(keys) \cap Arrays(doc) = {},
         NEW walk \in FlatWalks(doc), Ordered(doc, keys, walk)
  PROVE  Ordered(doc, keys, FlattenTurn(doc, walk))
<1> DEFINE turned == FlattenTurn(doc, walk)
           item == Last(walk.pending)
           rest == Front(walk.pending)
           is == doc.objects[item.object].is
           n == Len(walk.pending)
           at == Len(keys) + 1 - n
<1>1. walk.pending = <<>> => turned = walk
  BY FlattenTurnIs
<1> SUFFICES ASSUME walk.pending # <<>> PROVE Ordered(doc, keys, turned)
  BY <1>1
<1>2. FlatTurned(doc, walk, turned)
  BY FlattenTurnIs
<1>3. walk.pending \in Seq(FlatItems(doc)) /\ walk.children \in Seq(DOMAIN doc.objects)
  BY DEF FlatWalks
<1>4. /\ item \in FlatItems(doc) /\ n \in Nat /\ n > 0 /\ item = walk.pending[n]
      /\ Len(rest) = n - 1
      /\ \A k \in 1..(n - 1) : rest[k] = walk.pending[k]
  BY <1>3, PoppedIs, ZenonT(60)
<1>5. item.object \in DOMAIN doc.objects /\ item.depth \in Nat
  BY <1>4 DEF FlatItems
<1> HIDE DEF turned, item, rest, is, n
<1>6. Len(keys) \in Nat /\ n <= Len(keys) /\ at \in 1..Len(keys)
  BY <1>4 DEF Ordered, n
<1>7. item.object = keys[at] /\ item.depth \in {0, 1}
  <2>1. n \in 1..n
    BY <1>4
  <2> QED
    BY <1>4, <2>1 DEF Ordered, n
<1>8. ~(item.depth > DepthCap) /\ is # "array"
  <2>1. item.object \in ToSet(keys)
    BY <1>6, <1>7 DEF ToSet
  <2>2. item.object \notin Arrays(doc)
    BY <2>1
  <2> QED
    BY <1>5, <1>7, <2>2, StepCapIs DEF Arrays, is
<1>9. /\ Len(rest) <= Len(keys)
      /\ \A k \in 1..Len(rest) : rest[k].object = keys[Len(keys) + 1 - k] /\ rest[k].depth \in {0, 1}
  <2>1. \A k \in 1..Len(rest) : k \in 1..(n - 1) /\ k \in 1..n
    BY <1>4
  <2>2. \A k \in 1..n :
          walk.pending[k].object = keys[Len(keys) + 1 - k] /\ walk.pending[k].depth \in {0, 1}
    BY DEF Ordered, n
  <2>3. Len(rest) <= Len(keys)
    BY <1>4, <1>6
  <2>4. ASSUME NEW k \in 1..Len(rest)
        PROVE  rest[k].object = keys[Len(keys) + 1 - k] /\ rest[k].depth \in {0, 1}
    <3>1. rest[k] = walk.pending[k] /\ k \in 1..n
      BY <1>4, <2>1
    <3> QED
      BY <2>2, <3>1
  <2> QED
    BY <2>3, <2>4
<1>10. 1..(Len(keys) - Len(rest)) = 1..(Len(keys) - n) \cup {at}
  BY <1>4, <1>6
<1>11. /\ \A q \in 1..(Len(keys) - n) : doc.objects[keys[q]].is = "element" => keys[q] \in ToSet(walk.children)
       /\ \A c \in 1..Len(walk.children) : Follows(doc, keys, walk.children, c)
  BY DEF Ordered, n
<1>12. CASE turned.pending = rest /\ turned.children = walk.children /\ is # "element"
  <2>1. \A q \in 1..(Len(keys) - Len(rest)) :
          doc.objects[keys[q]].is = "element" => keys[q] \in ToSet(walk.children)
    BY <1>7, <1>10, <1>11, <1>12 DEF is
  <2> QED
    BY <1>9, <1>11, <1>12, <2>1 DEF Ordered
<1>13. CASE turned.pending = rest /\ turned.children = Append(walk.children, item.object)
  <2> DEFINE l == Len(walk.children)
             more == Append(walk.children, item.object)
  <2>1. /\ Len(more) = l + 1 /\ l \in Nat /\ more[l + 1] = item.object
        /\ \A k \in 1..l : more[k] = walk.children[k]
        /\ ToSet(more) = ToSet(walk.children) \cup {item.object}
    BY <1>3, <1>5, AppendedIs
  <2>2. DOMAIN walk.children = 1..l
    BY <1>3
  <2> HIDE DEF l, more
  <2>3. \A q \in 1..(Len(keys) - Len(rest)) : doc.objects[keys[q]].is = "element" => keys[q] \in ToSet(more)
    BY <1>7, <1>10, <1>11, <2>1
  <2>4. ASSUME NEW c \in 1..l
        PROVE  Follows(doc, keys, more, c)
    <3>1. Follows(doc, keys, walk.children, c) /\ more[c] = walk.children[c]
      BY <1>11, <2>1 DEF l
    <3>2. \A b \in 1..(c - 1) : more[b] = walk.children[b]
      BY <2>1
    <3> QED
      BY <3>1, <3>2 DEF Follows
  <2>5. Follows(doc, keys, more, l + 1)
    <3> SUFFICES ASSUME NEW q \in 1..Len(keys), q < KeyIndex(doc, keys, item.object),
                        doc.objects[keys[q]].is = "element"
                 PROVE  \E b \in 1..l : more[b] = keys[q]
      BY <2>1 DEF Follows
    <3>1. KeyIndex(doc, keys, item.object) <= at /\ KeyIndex(doc, keys, item.object) \in 0..Len(keys)
      BY <1>6, <1>7, KeyIndexIs
    <3>2. q \in 1..(Len(keys) - n)
      BY <1>4, <1>6, <3>1
    <3>3. keys[q] \in ToSet(walk.children)
      BY <1>11, <3>2
    <3>4. PICK b \in 1..l : walk.children[b] = keys[q]
      BY <2>2, <3>3 DEF ToSet
    <3> QED
      BY <2>1, <3>4
  <2>6. \A c \in 1..Len(more) : Follows(doc, keys, more, c)
    <3>1. \A c \in 1..Len(more) : c \in 1..l \/ c = l + 1
      BY <2>1
    <3> QED
      BY <2>4, <2>5, <3>1
  <2> QED
    BY <1>9, <1>13, <2>3, <2>6 DEF Ordered, more
<1>14. is # "element" \/ ~Drops(doc, walk, item)
  BY <1>8 DEF Drops, is
<1> QED
  BY <1>2, <1>8, <1>12, <1>13, <1>14 DEF FlatTurned, item, rest, is


\* What CollectStructureChildren returns: elements and content that the keys contain,
\* in the order of the keys, and all of them unless a cap was reached.
Collected(doc, keys, walk) ==
  /\ walk \in FlatWalks(doc)
  /\ \A c \in 1..Len(walk.children) : walk.children[c] \in ElementsIn(doc, keys) /\ Follows(doc, keys, walk.children, c)
  /\ ToSet(walk.mcids) \subseteq ContentIn(doc, keys)
  /\ Shallow(doc) /\ walk.pending = <<>> =>
       ElementsIn(doc, keys) \subseteq ToSet(walk.children) /\ ContentIn(doc, keys) \subseteq ToSet(walk.mcids)

\* The walk of CollectStructureChildren ends in what these say.
LEMMA ChildrenCollected ==
  ASSUME NEW doc, Treed(doc), NEW keys \in Seq(DOMAIN doc.objects)
  PROVE  Collected(doc, keys, CollectStructureChildren(doc, keys))
<1> DEFINE w == Flatten(doc, keys)
           plain == ToSet(keys) \cap Arrays(doc) = {}
           Good(walk) == /\ Sound(doc, keys, walk)
                         /\ Shallow(doc) => Gathered(doc, keys, walk)
                         /\ plain => Ordered(doc, keys, walk)
           T == {n \in 0..StepCap : Good(w[n])}
           walk == CollectStructureChildren(doc, keys)
<1>1. /\ w[0] = FlattenStart(keys)
      /\ \A n \in 0..StepCap : w[n] \in FlatWalks(doc)
      /\ \A n \in 1..StepCap : w[n] = FlattenTurn(doc, w[n - 1])
  BY FlattensIs
<1> HIDE DEF w
<1>2. StepCap \in Nat
  BY StepCapIs
<1>3. 0 \in T
  <2> DEFINE start == FlattenStart(keys)
  <2>1. /\ start \in FlatWalks(doc)
        /\ start.seen = {} /\ start.children = <<>> /\ start.mcids = <<>>
        /\ On(start.pending) = ToSet(keys)
        /\ Len(start.pending) = Len(keys)
        /\ \A k \in 1..Len(keys) :
             start.pending[k].object = keys[Len(keys) + 1 - k] /\ start.pending[k].depth \in {0, 1}
    BY FlattenStartIs
  <2> HIDE DEF start
  <2>2. ToSet(start.children) = {} /\ ToSet(start.mcids) = {} /\ Len(start.children) = 0 /\ Len(keys) \in Nat
    BY <2>1 DEF ToSet
  <2>3. Sound(doc, keys, start)
    <3>1. Cardinality(start.seen) = 0
      BY <2>1, FS_EmptySet
    <3>2. \A k \in 1..Len(start.pending) : start.pending[k].depth <= 1 + Cardinality(start.seen)
      BY <2>1, <3>1, SMTT(60)
    <3> QED
      BY <2>1, <2>2, <3>2 DEF Sound, Within
  <2>4. Gathered(doc, keys, start)
    BY <2>1 DEF Gathered, Met
  <2>5. Ordered(doc, keys, start)
    <3>1. 1..(Len(keys) - Len(start.pending)) = {} /\ 1..Len(start.children) = {}
      BY <2>1, <2>2
    <3> QED
      BY <2>1, <2>2, <3>1 DEF Ordered
  <2>6. w[0] = start
    BY <1>1 DEF start
  <2> QED
    BY <1>2, <2>3, <2>4, <2>5, <2>6
<1>4. ASSUME NEW n \in 0..(StepCap - 1), n \in T
      PROVE  n + 1 \in T
  <2>1. n \in 0..StepCap /\ n + 1 \in 0..StepCap /\ n + 1 \in 1..StepCap /\ (n + 1) - 1 = n
    BY <1>2
  <2>2. w[n] \in FlatWalks(doc) /\ w[n + 1] = FlattenTurn(doc, w[n])
    BY <1>1, <2>1
  <2>3. Sound(doc, keys, w[n]) /\ Sound(doc, keys, w[n + 1])
    BY <1>4, <2>2, SoundTurn
  <2>4. Shallow(doc) => Gathered(doc, keys, w[n + 1])
    BY <1>4, <2>2, <2>3, CompleteTurn
  <2>5. plain => Ordered(doc, keys, w[n + 1])
    BY <1>4, <2>2, OrderedTurn
  <2> QED
    BY <2>1, <2>3, <2>4, <2>5
<1>5. StepCap \in T
  <2> HIDE DEF T
  <2>1. \A n \in 0..StepCap : n \in T
    BY <1>2, <1>3, <1>4, Steps
  <2>2. StepCap \in 0..StepCap
    BY <1>2
  <2> QED
    BY <2>1, <2>2
<1>6. walk = w[StepCap]
  BY DEF CollectStructureChildren, w
<1> HIDE DEF walk
<1>7. walk \in FlatWalks(doc)
  <2>1. StepCap \in 0..StepCap
    BY <1>2
  <2> QED
    BY <1>1, <1>6, <2>1
<1>8. /\ Sound(doc, keys, walk)
      /\ Shallow(doc) => Gathered(doc, keys, walk)
      /\ plain => Ordered(doc, keys, walk)
  BY <1>5, <1>6
<1>9. \A S \in SUBSET DOMAIN doc.objects :
        Within(doc, keys, S) => ToSet(walk.children) \subseteq S /\ ToSet(walk.mcids) \subseteq S
  BY <1>8 DEF Sound
<1>10. ToSet(walk.children) \subseteq ElementsIn(doc, keys) /\ ToSet(walk.mcids) \subseteq ContentIn(doc, keys)
  BY <1>8, <1>9 DEF Sound, ElementsIn, ContentIn, Contained, Within
<1>11. walk.children \in Seq(DOMAIN doc.objects)
  BY <1>7 DEF FlatWalks
<1>12. \A c \in 1..Len(walk.children) : walk.children[c] \in ElementsIn(doc, keys)
  BY <1>10, <1>11 DEF ToSet
<1>13. ASSUME NEW c \in 1..Len(walk.children)
       PROVE  Follows(doc, keys, walk.children, c)
  <2>1. CASE plain
    BY <1>8, <2>1 DEF Ordered
  <2>2. CASE ~plain
    <3>1. KeyIndex(doc, keys, walk.children[c]) = 0
      BY <2>2, KeyIndexIs
    <3> QED
      BY <3>1 DEF Follows
  <2> QED
    BY <2>1, <2>2
<1>14. ASSUME Shallow(doc), walk.pending = <<>>
       PROVE  /\ ElementsIn(doc, keys) \subseteq ToSet(walk.children)
              /\ ContentIn(doc, keys) \subseteq ToSet(walk.mcids)
  <2> DEFINE S == walk.seen \cup ToSet(walk.children) \cup ToSet(walk.mcids) \cup Empty(doc)
  <2>1. On(walk.pending) = {}
    BY <1>14 DEF On
  <2>2. Met(doc, walk) = S
    BY <2>1 DEF Met
  <2>3. ToSet(keys) \subseteq S /\ \A a \in walk.seen : ToSet(doc.objects[a].kids) \subseteq S
    BY <1>8, <1>14, <2>2 DEF Gathered
  <2>4. S \in SUBSET DOMAIN doc.objects
    BY <1>8 DEF Sound, Arrays, Empty
  <2>5. \A o \in S : o \in walk.seen \/ (o \notin Arrays(doc) /\
          (doc.objects[o].is = "element" => o \in ToSet(walk.children)) /\
          (doc.objects[o].is = "content" => o \in ToSet(walk.mcids)))
    BY <1>8 DEF Sound, Empty, Arrays
  <2>6. \A o \in walk.seen : doc.objects[o].is = "array"
    BY <1>8 DEF Sound, Arrays
  <2> HIDE DEF S
  <2>7. S \cap Arrays(doc) \subseteq walk.seen
    BY <2>5
  <2>8. Inside(doc, S) \subseteq S
    BY <2>3, <2>7 DEF Inside
  <2>9. Contained(doc, keys) \subseteq S
    BY <2>3, <2>4, <2>8 DEF Contained
  <2> QED
    BY <2>5, <2>6, <2>9 DEF ElementsIn, ContentIn
<1> QED
  BY <1>7, <1>10, <1>12, <1>13, <1>14 DEF Collected, walk


(* ReadStructure.                                                          *)

\* What ReadStructure has pending, its rows, and what a walk of it is.
Elements(doc) == [object : DOMAIN doc.objects, depth : 0..DepthCap, parent : Nat, page : Nat]
ElementRows(doc) ==
  [object : DOMAIN doc.objects, depth : 0..DepthCap, parent : Nat, page : Nat,
   role : DOMAIN doc.roleMap \cup Standard, mcids : Seq(DOMAIN doc.objects)]
ElementWalks(doc) == [pending : Seq(Elements(doc)), visited : SUBSET DOMAIN doc.objects, rows : Seq(ElementRows(doc))]

PageOf(doc, item) == IF doc.objects[item.object].page > 0 THEN doc.objects[item.object].page ELSE item.page
ChildrenOf(doc, object) == CollectStructureChildren(doc, doc.objects[object].kids)
RowOf(doc, item) ==
  [object |-> item.object, depth |-> item.depth, parent |-> item.parent, page |-> PageOf(doc, item),
   role |-> StructureRole(doc.roleMap, doc.objects[item.object].tag), mcids |-> ChildrenOf(doc, item.object).mcids]
Below(doc, item, parent) ==
  [i \in DOMAIN ChildrenOf(doc, item.object).children |->
     [object |-> ChildrenOf(doc, item.object).children[i], depth |-> item.depth + 1,
      parent |-> parent, page |-> PageOf(doc, item)]]
\* What a turn makes of an element.
ElementTurned(doc, walk, turned) ==
  LET item == Last(walk.pending)
      rest == Front(walk.pending)
  IN IF item.object \in walk.visited
     THEN turned.pending = rest /\ turned.visited = walk.visited /\ turned.rows = walk.rows
     ELSE /\ turned.pending = IF item.depth >= DepthCap THEN rest
                              ELSE Pushed(rest, Below(doc, item, Len(walk.rows) + 1))
          /\ turned.visited = walk.visited \cup {item.object}
          /\ turned.rows = Append(walk.rows, RowOf(doc, item))

\* The children and the content of an element.
LEMMA ChildrenTyped ==
  ASSUME NEW doc, Treed(doc), NEW object \in DOMAIN doc.objects
  PROVE  /\ ChildrenOf(doc, object).children \in Seq(DOMAIN doc.objects)
         /\ ChildrenOf(doc, object).mcids \in Seq(DOMAIN doc.objects)
         /\ Collected(doc, doc.objects[object].kids, ChildrenOf(doc, object))
<1>1. doc.objects[object].kids \in Seq(DOMAIN doc.objects)
  BY ObjectIs
<1>2. Collected(doc, doc.objects[object].kids, ChildrenOf(doc, object))
  BY <1>1, ChildrenCollected DEF ChildrenOf
<1> QED
  BY <1>2 DEF Collected, FlatWalks

\* The row of an element is one.
LEMMA RowTyped ==
  ASSUME NEW doc, Treed(doc), NEW item \in Elements(doc)
  PROVE  RowOf(doc, item) \in ElementRows(doc) /\ PageOf(doc, item) \in Nat
<1>1. /\ item.object \in DOMAIN doc.objects /\ item.depth \in 0..DepthCap /\ item.parent \in Nat /\ item.page \in Nat
  BY DEF Elements
<1>2. doc.objects[item.object].page \in Nat /\ doc.objects[item.object].tag \in DOMAIN doc.roleMap \cup Standard
  BY <1>1, ObjectIs
<1>3. PageOf(doc, item) \in Nat
  BY <1>1, <1>2 DEF PageOf
<1>4. StructureRole(doc.roleMap, doc.objects[item.object].tag) \in DOMAIN doc.roleMap \cup Standard
  BY <1>2, RoleMapped DEF Treed
<1>5. ChildrenOf(doc, item.object).mcids \in Seq(DOMAIN doc.objects)
  BY <1>1, ChildrenTyped
<1> QED
  BY <1>1, <1>3, <1>4, <1>5 DEF RowOf, ElementRows

\* The children of an element, as they are pushed.
LEMMA BelowIs ==
  ASSUME NEW doc, Treed(doc), NEW item \in Elements(doc), item.depth < DepthCap, NEW parent \in Nat
  PROVE  LET below == Below(doc, item, parent)
             children == ChildrenOf(doc, item.object).children
         IN /\ below \in Seq(Elements(doc)) /\ Len(below) = Len(children) /\ Len(below) \in Nat
            /\ On(below) = ToSet(children)
            /\ \A i \in 1..Len(below) :
                 /\ below[i].object = children[i] /\ below[i].depth = item.depth + 1
                 /\ below[i].parent = parent /\ below[i].page = PageOf(doc, item)
<1> DEFINE below == Below(doc, item, parent)
           children == ChildrenOf(doc, item.object).children
           page == PageOf(doc, item)
<1>1. item.object \in DOMAIN doc.objects /\ item.depth \in 0..DepthCap
  BY DEF Elements
<1>2. children \in Seq(DOMAIN doc.objects)
  BY <1>1, ChildrenTyped
<1>3. page \in Nat
  BY RowTyped
<1>4. below = [i \in DOMAIN children |->
                 [object |-> children[i], depth |-> item.depth + 1, parent |-> parent, page |-> page]]
  BY DEF Below
<1> HIDE DEF children, below, page
<1>5. DOMAIN children = 1..Len(children) /\ Len(children) \in Nat
      /\ \A i \in 1..Len(children) : children[i] \in DOMAIN doc.objects
  BY <1>2
<1>6. item.depth + 1 \in 0..DepthCap
  BY <1>1, StepCapIs
<1>7. \A i \in 1..Len(children) :
        [object |-> children[i], depth |-> item.depth + 1, parent |-> parent, page |-> page] \in Elements(doc)
  BY <1>3, <1>5, <1>6 DEF Elements
<1>8. below \in Seq(Elements(doc)) /\ Len(below) = Len(children)
  BY <1>4, <1>5, <1>7
<1>9. DOMAIN below = DOMAIN children
      /\ \A i \in DOMAIN children :
           /\ below[i].object = children[i] /\ below[i].depth = item.depth + 1
           /\ below[i].parent = parent /\ below[i].page = page
  BY <1>4
<1>10. On(below) = ToSet(children)
  BY <1>9 DEF On, ToSet
<1> QED
  BY <1>5, <1>8, <1>9, <1>10 DEF below, children, page

\* A turn of ReadStructure does one of these.
LEMMA ElementTurnIs ==
  ASSUME NEW doc, Treed(doc), NEW walk \in ElementWalks(doc)
  PROVE  /\ ElementTurn(doc, walk) \in ElementWalks(doc)
         /\ walk.pending = <<>> => ElementTurn(doc, walk) = walk
         /\ walk.pending # <<>> => ElementTurned(doc, walk, ElementTurn(doc, walk))
<1> DEFINE item == Last(walk.pending)
           rest == Front(walk.pending)
           turned == ElementTurn(doc, walk)
           below == Below(doc, item, Len(walk.rows) + 1)
           row == RowOf(doc, item)
<1>1. walk.pending = <<>> => turned = walk
  BY DEF ElementTurn
<1>2. ASSUME walk.pending # <<>>
      PROVE  ElementTurned(doc, walk, turned) /\ turned \in ElementWalks(doc)
  <2>1. walk.pending \in Seq(Elements(doc)) /\ walk.rows \in Seq(ElementRows(doc))
        /\ walk.visited \in SUBSET DOMAIN doc.objects
    BY DEF ElementWalks
  <2>2. item \in Elements(doc) /\ rest \in Seq(Elements(doc))
    BY <1>2, <2>1, PoppedIs
  <2>3. item.object \in DOMAIN doc.objects /\ item.depth \in 0..DepthCap
    BY <2>2 DEF Elements
  <2>4. ~(item.depth > DepthCap)
    BY <2>3, StepCapIs
  <2>5. item.object \in walk.visited => turned = [walk EXCEPT !.pending = rest]
    BY <1>2, SMTT(60) DEF ElementTurn
  <2>6. item.object \notin walk.visited =>
          turned = [pending |-> IF item.depth >= DepthCap THEN rest ELSE Pushed(rest, below),
                    visited |-> walk.visited \cup {item.object},
                    rows |-> Append(walk.rows, row)]
    BY <1>2, <2>4 DEF ElementTurn, Below, RowOf, ChildrenOf, PageOf
  <2>7. row \in ElementRows(doc)
    BY <2>2, RowTyped
  <2>8. Append(walk.rows, row) \in Seq(ElementRows(doc)) /\ Len(walk.rows) + 1 \in Nat
    <3> HIDE DEF row
    <3> QED
      BY <2>1, <2>7, AppendedIs
  <2>9. ~(item.depth >= DepthCap) => Pushed(rest, below) \in Seq(Elements(doc))
    <3> SUFFICES ASSUME ~(item.depth >= DepthCap)
                 PROVE  Pushed(rest, below) \in Seq(Elements(doc))
      OBVIOUS
    <3>1. item.depth < DepthCap
      BY <2>3, StepCapIs
    <3>2. below \in Seq(Elements(doc))
      BY <2>2, <2>8, <3>1, BelowIs
    <3> HIDE DEF below, rest
    <3> QED
      BY <2>2, <3>2, PushedIs
  <2> HIDE DEF item, rest, turned, below, row
  <2>10. CASE item.object \in walk.visited
    <3>1. turned = [walk EXCEPT !.pending = rest]
      BY <2>5, <2>10
    <3>2. turned \in ElementWalks(doc)
      BY <2>2, <3>1 DEF ElementWalks
    <3>3. turned.pending = rest /\ turned.visited = walk.visited /\ turned.rows = walk.rows
      BY <3>1 DEF ElementWalks
    <3> QED
      BY <2>10, <3>2, <3>3 DEF ElementTurned, item, rest
  <2>11. CASE item.object \notin walk.visited
    <3> DEFINE stack == IF item.depth >= DepthCap THEN rest ELSE Pushed(rest, below)
    <3>1. turned = [pending |-> stack, visited |-> walk.visited \cup {item.object}, rows |-> Append(walk.rows, row)]
      BY <2>6, <2>11
    <3>2. stack \in Seq(Elements(doc))
      BY <2>2, <2>9
    <3> HIDE DEF stack
    <3>3. turned \in ElementWalks(doc)
      BY <2>1, <2>3, <2>8, <3>1, <3>2 DEF ElementWalks
    <3>4. /\ turned.pending = stack /\ turned.visited = walk.visited \cup {item.object}
          /\ turned.rows = Append(walk.rows, row)
      BY <3>1
    <3> QED
      BY <2>11, <3>3, <3>4 DEF ElementTurned, item, rest, below, row, stack
  <2> QED
    BY <2>10, <2>11
<1> QED
  BY <1>1, <1>2


\* The walk is made of these turns.
LEMMA ElementsWalked ==
  ASSUME NEW doc, Treed(doc), NEW stack \in Seq(Elements(doc))
  PROVE  /\ WalkElements(doc, stack)[0] = [pending |-> stack, visited |-> {}, rows |-> <<>>]
         /\ \A n \in 0..StepCap : WalkElements(doc, stack)[n] \in ElementWalks(doc)
         /\ \A n \in 1..StepCap : WalkElements(doc, stack)[n] = ElementTurn(doc, WalkElements(doc, stack)[n - 1])
<1> DEFINE m == StepCap
           X == ElementWalks(doc)
           base == [pending |-> stack, visited |-> {}, rows |-> <<>>]
           turn == [x \in X |-> ElementTurn(doc, x)]
           Eq(f) == f = [n \in 0..m |-> IF n = 0 THEN base ELSE ElementTurn(doc, f[n - 1])]
           walk == CHOOSE walk : Eq(walk)
<1>1. m \in Nat /\ base \in X
  BY StepCapIs DEF ElementWalks
<1>2. turn \in [X -> X]
  <2>1. \A x \in X : ElementTurn(doc, x) \in X
    BY ElementTurnIs
  <2> QED
    BY <2>1
<1>3. \A x \in X : turn[x] = ElementTurn(doc, x)
  OBVIOUS
<1>4. WalkElements(doc, stack) = walk
  BY DEF WalkElements
<1> HIDE DEF m, X, base, turn
<1>5. PICK f \in [0..m -> X] : Turns(f, m, base, turn)
  BY <1>1, <1>2, TurnsDefined
<1>6. Eq(f)
  <2>1. f = [n \in 0..m |-> f[n]]
    OBVIOUS
  <2>2. ASSUME NEW n \in 0..m
        PROVE  f[n] = IF n = 0 THEN base ELSE ElementTurn(doc, f[n - 1])
    <3>1. n # 0 => n - 1 \in 0..m
      BY <1>1
    <3> QED
      BY <1>3, <1>5, <3>1 DEF Turns
  <2> QED
    BY <2>1, <2>2
<1>7. Eq(walk)
  BY <1>6
<1> HIDE DEF walk
<1>8. \A n \in 0..m : walk[n] = IF n = 0 THEN base ELSE ElementTurn(doc, walk[n - 1])
  BY <1>7
<1>9. walk[0] = base /\ \A n \in 1..m : walk[n] = ElementTurn(doc, walk[n - 1])
  BY <1>1, <1>8
<1>10. \A n \in 0..m : walk[n] \in X
  <2>1. \A n \in 1..m : walk[n - 1] \in X => walk[n] = turn[walk[n - 1]]
    BY <1>3, <1>9
  <2> QED
    BY <1>1, <1>2, <1>9, <2>1, TurnsTyped, ZenonT(60)
<1> QED
  BY <1>4, <1>9, <1>10 DEF m, X, base

\* An ancestor of a row, or the row itself; 0 stands for the document.
Upward(rows, S) == \A k \in S \ {0} : rows[k].parent \in S
Under(rows, a, b) == a = 0 \/ \A S \in SUBSET (0..Len(rows)) : b \in S /\ Upward(rows, S) => a \in S
Climbing(rows) == \A j \in 1..Len(rows) : rows[j].parent \in 0..(j - 1)

\* Ancestors are the same after another row.
LEMMA UpwardBefore ==
  ASSUME NEW X, NEW rows \in Seq(X), Climbing(rows), NEW row \in X,
         NEW S \in SUBSET (0..Len(Append(rows, row))), Upward(Append(rows, row), S)
  PROVE  Upward(rows, S \cap 0..Len(rows))
<1> DEFINE l == Len(rows)
           more == Append(rows, row)
<1>1. l \in Nat /\ Len(more) = l + 1 /\ \A k \in 1..l : more[k] = rows[k]
  BY AppendedIs
<1> HIDE DEF l, more
<1> SUFFICES ASSUME NEW k \in (S \cap 0..l) \ {0} PROVE rows[k].parent \in S \cap 0..l
  BY DEF Upward, l
<1>2. k \in 1..l /\ more[k] = rows[k]
  BY <1>1
<1>3. more[k].parent \in S
  BY DEF Upward, more
<1>4. rows[k].parent \in 0..(k - 1)
  BY <1>2 DEF Climbing, l
<1> QED
  BY <1>1, <1>2, <1>3, <1>4

\* Another row leaves a row under what it was under,
LEMMA UnderKept ==
  ASSUME NEW X, NEW rows \in Seq(X), Climbing(rows), NEW row \in X,
         NEW a, NEW b \in 0..Len(rows), Under(rows, a, b)
  PROVE  Under(Append(rows, row), a, b)
<1> DEFINE more == Append(rows, row)
<1> SUFFICES ASSUME a # 0, NEW S \in SUBSET (0..Len(more)), b \in S, Upward(more, S) PROVE a \in S
  BY DEF Under
<1>1. Upward(rows, S \cap 0..Len(rows))
  BY UpwardBefore
<1> QED
  BY <1>1 DEF Under

\* and is itself under what its parent is under;
LEMMA UnderNew ==
  ASSUME NEW X, NEW rows \in Seq(X), Climbing(rows), NEW row \in X,
         row.parent \in 0..Len(rows), NEW a, Under(rows, a, row.parent)
  PROVE  Under(Append(rows, row), a, Len(rows) + 1)
<1> DEFINE more == Append(rows, row)
<1> SUFFICES ASSUME a # 0, NEW S \in SUBSET (0..Len(more)), Len(rows) + 1 \in S, Upward(more, S) PROVE a \in S
  BY DEF Under
<1>1. Upward(rows, S \cap 0..Len(rows))
  BY UpwardBefore
<1>2. more[Len(rows) + 1] = row /\ Len(rows) + 1 # 0
  BY AppendedIs
<1>3. row.parent \in S
  BY <1>2 DEF Upward
<1> QED
  BY <1>1, <1>3 DEF Under

\* and what the last row is under, if it is not that row, its parent is under.
LEMMA UnderParent ==
  ASSUME NEW rows, Climbing(rows), Len(rows) \in Nat, Len(rows) > 0,
         NEW a, a # Len(rows), Under(rows, a, Len(rows))
  PROVE  Under(rows, a, rows[Len(rows)].parent)
<1> DEFINE l == Len(rows)
<1> SUFFICES ASSUME a # 0, NEW S \in SUBSET (0..l), rows[l].parent \in S, Upward(rows, S) PROVE a \in S
  BY DEF Under
<1>1. S \cup {l} \in SUBSET (0..l)
  <2>1. l \in 0..l
    OBVIOUS
  <2> QED
    BY <2>1
<1>2. Upward(rows, S \cup {l})
  BY DEF Upward
<1>3. a \in S \cup {l}
  BY <1>1, <1>2 DEF Under
<1> QED
  BY <1>3

\* The rows so far, and what is pending.
KeysOf(doc, rows, parent) == IF parent = 0 THEN doc.key ELSE doc.objects[rows[parent].object].kids
TreeLinked(doc, rows, x) ==
  /\ x.parent \in 0..Len(rows)
  /\ x.depth = IF x.parent = 0 THEN 0 ELSE rows[x.parent].depth + 1
  /\ x.object \in ElementsIn(doc, KeysOf(doc, rows, x.parent))
Preceded(doc, rows, x, before) ==
  \A q \in 1..Len(KeysOf(doc, rows, x.parent)) :
    /\ q < KeyIndex(doc, KeysOf(doc, rows, x.parent), x.object)
    /\ doc.objects[KeysOf(doc, rows, x.parent)[q]].is = "element"
    => KeysOf(doc, rows, x.parent)[q] \in before
ObjectsBefore(rows, i) == {rows[j].object : j \in 1..(i - 1)}
ObjectsAfter(stack, k) == {stack[b].object : b \in (k + 1)..Len(stack)}
RowTrue(doc, rows, i) ==
  /\ rows[i].parent \in 0..(i - 1)
  /\ TreeLinked(doc, rows, rows[i])
  /\ rows[i].page = IF doc.objects[rows[i].object].page > 0 \/ rows[i].parent = 0
                    THEN doc.objects[rows[i].object].page ELSE rows[rows[i].parent].page
  /\ rows[i].mcids = ChildrenOf(doc, rows[i].object).mcids
  /\ rows[i].role = StructureRole(doc.roleMap, doc.objects[rows[i].object].tag)
  /\ Preceded(doc, rows, rows[i], ObjectsBefore(rows, i))
  /\ i > 1 /\ rows[i].parent # i - 1 => Under(rows, rows[i].parent, rows[i - 1].parent)
PendingTrue(doc, rows, stack, k) ==
  /\ TreeLinked(doc, rows, stack[k])
  /\ stack[k].page = IF stack[k].parent = 0 THEN 0 ELSE rows[stack[k].parent].page
  /\ Preceded(doc, rows, stack[k], On(rows) \cup ObjectsAfter(stack, k))
  /\ \A b \in k..Len(stack) : Under(rows, stack[k].parent, stack[b].parent)
  /\ Len(rows) > 0 => Under(rows, stack[k].parent, Len(rows))
Reached(doc, rows, stack) ==
  /\ ToSet(CollectStructureChildren(doc, doc.key).children) \subseteq On(rows) \cup On(stack)
  /\ \A i \in 1..Len(rows) :
       rows[i].depth < DepthCap => ToSet(ChildrenOf(doc, rows[i].object).children) \subseteq On(rows) \cup On(stack)
ListTrue(doc, walk) ==
  /\ walk.visited = On(walk.rows)
  /\ \A i, j \in 1..Len(walk.rows) : walk.rows[i].object = walk.rows[j].object => i = j
  /\ \A i \in 1..Len(walk.rows) : RowTrue(doc, walk.rows, i)
  /\ \A k \in 1..Len(walk.pending) : PendingTrue(doc, walk.rows, walk.pending, k)
  /\ Reached(doc, walk.rows, walk.pending)

\* Another row leaves what is true of the others.
LEMMA LinkKept ==
  ASSUME NEW doc, NEW X, NEW rows \in Seq(X), NEW row \in X, NEW x, NEW before, NEW more,
         x.parent \in 0..Len(rows), before \subseteq more
  PROVE  /\ KeysOf(doc, Append(rows, row), x.parent) = KeysOf(doc, rows, x.parent)
         /\ TreeLinked(doc, rows, x) => TreeLinked(doc, Append(rows, row), x)
         /\ Preceded(doc, rows, x, before) => Preceded(doc, Append(rows, row), x, more)
<1> DEFINE longer == Append(rows, row)
<1>1. Len(rows) \in Nat /\ Len(longer) = Len(rows) + 1 /\ \A k \in 1..Len(rows) : longer[k] = rows[k]
  BY AppendedIs
<1> HIDE DEF longer
<1>2. x.parent # 0 => x.parent \in 1..Len(rows) /\ longer[x.parent] = rows[x.parent]
  BY <1>1
<1>3. KeysOf(doc, longer, x.parent) = KeysOf(doc, rows, x.parent)
  BY <1>2 DEF KeysOf
<1>4. TreeLinked(doc, rows, x) => TreeLinked(doc, longer, x)
  BY <1>1, <1>2, <1>3 DEF TreeLinked
<1>5. Preceded(doc, rows, x, before) => Preceded(doc, longer, x, more)
  BY <1>3 DEF Preceded
<1> QED
  BY <1>3, <1>4, <1>5 DEF longer

\* So a row stays true.
LEMMA RowKept ==
  ASSUME NEW doc, NEW X, NEW rows \in Seq(X), Climbing(rows), NEW row \in X,
         NEW i \in 1..Len(rows), RowTrue(doc, rows, i)
  PROVE  RowTrue(doc, Append(rows, row), i)
<1> DEFINE longer == Append(rows, row)
<1>1. Len(rows) \in Nat /\ Len(longer) = Len(rows) + 1 /\ \A k \in 1..Len(rows) : longer[k] = rows[k]
  BY AppendedIs
<1>2. rows[i].parent \in 0..(i - 1) /\ rows[i].parent \in 0..Len(rows)
  BY <1>1 DEF RowTrue
<1>3. ObjectsBefore(rows, i) \subseteq ObjectsBefore(longer, i)
  <2> HIDE DEF longer
  <2>1. \A j \in 1..(i - 1) : longer[j] = rows[j]
    BY <1>1
  <2> QED
    BY <2>1 DEF ObjectsBefore
<1>4. TreeLinked(doc, longer, rows[i]) /\ Preceded(doc, longer, rows[i], ObjectsBefore(longer, i))
  BY <1>2, <1>3, LinkKept DEF RowTrue
<1>5. i > 1 /\ rows[i].parent # i - 1 => Under(longer, rows[i].parent, rows[i - 1].parent)
  <2> SUFFICES ASSUME i > 1, rows[i].parent # i - 1
               PROVE  Under(longer, rows[i].parent, rows[i - 1].parent)
    OBVIOUS
  <2>1. i - 1 \in 1..Len(rows)
    BY <1>1
  <2>2. rows[i - 1].parent \in 0..(i - 1 - 1)
    BY <2>1 DEF Climbing
  <2>3. rows[i - 1].parent \in 0..Len(rows)
    BY <1>1, <2>1, <2>2
  <2> QED
    BY <2>3, UnderKept DEF RowTrue
<1> HIDE DEF longer
<1>6. longer[i] = rows[i] /\ (i > 1 => longer[i - 1] = rows[i - 1])
      /\ (rows[i].parent # 0 => longer[rows[i].parent] = rows[rows[i].parent])
  BY <1>1, <1>2
<1> QED
  BY <1>2, <1>4, <1>5, <1>6 DEF RowTrue, longer


\* A turn that drops an element, which was listed before.
LEMMA PoppedTrue ==
  ASSUME NEW doc, NEW X, NEW stack \in Seq(X), stack # <<>>, NEW rows, Last(stack).object \in On(rows),
         NEW k \in 1..(Len(stack) - 1), PendingTrue(doc, rows, stack, k)
  PROVE  PendingTrue(doc, rows, Front(stack), k)
<1> DEFINE rest == Front(stack)
           n == Len(stack)
<1>1. /\ n \in Nat /\ n > 0 /\ Last(stack) = stack[n] /\ Len(rest) = n - 1
      /\ \A b \in 1..(n - 1) : rest[b] = stack[b]
  BY PoppedIs
<1> HIDE DEF rest, n
<1>2. rest[k] = stack[k]
  BY <1>1 DEF n
<1>3. On(rows) \cup ObjectsAfter(stack, k) \subseteq On(rows) \cup ObjectsAfter(rest, k)
  <2> SUFFICES ASSUME NEW b \in (k + 1)..n
               PROVE  stack[b].object \in On(rows) \cup ObjectsAfter(rest, k)
    BY DEF ObjectsAfter, n
  <2>1. CASE b = n
    BY <1>1, <2>1
  <2>2. CASE b # n
    <3>1. b \in (k + 1)..(n - 1) /\ b \in 1..(n - 1)
      BY <1>1, <2>2
    <3>2. rest[b] = stack[b]
      BY <1>1, <3>1
    <3> QED
      BY <1>1, <3>1, <3>2 DEF ObjectsAfter
  <2> QED
    BY <2>1, <2>2
<1>4. Preceded(doc, rows, rest[k], On(rows) \cup ObjectsAfter(rest, k))
  BY <1>2, <1>3 DEF Preceded, PendingTrue
<1>5. \A b \in k..Len(rest) : Under(rows, rest[k].parent, rest[b].parent)
  <2>1. \A b \in k..Len(rest) : b \in k..n /\ rest[b] = stack[b]
    BY <1>1
  <2> QED
    BY <1>2, <2>1 DEF PendingTrue, n
<1> QED
  BY <1>2, <1>4, <1>5 DEF PendingTrue, rest

\* A turn that lists an element leaves what is true of the others that are pending.
LEMMA RestTrue ==
  ASSUME NEW doc, NEW X, NEW stack \in Seq(X), stack # <<>>,
         NEW Y, NEW rows \in Seq(Y), Climbing(rows), NEW row \in Y,
         row.object = Last(stack).object, row.parent = Last(stack).parent, row.parent \in 0..Len(rows),
         NEW k \in 1..(Len(stack) - 1), PendingTrue(doc, rows, stack, k),
         \A b \in 1..Len(stack) : stack[b].parent \in 0..Len(rows)
  PROVE  PendingTrue(doc, Append(rows, row), Front(stack), k)
<1> DEFINE rest == Front(stack)
           n == Len(stack)
           more == Append(rows, row)
<1>1. /\ n \in Nat /\ n > 0 /\ Last(stack) = stack[n] /\ Len(rest) = n - 1
      /\ \A b \in 1..(n - 1) : rest[b] = stack[b]
  BY PoppedIs
<1>2. /\ Len(rows) \in Nat /\ Len(more) = Len(rows) + 1 /\ \A b \in 1..Len(rows) : more[b] = rows[b]
      /\ On(more) = On(rows) \cup {row.object}
  BY AppendedIs
<1> HIDE DEF rest, n, more
<1>3. rest[k] = stack[k] /\ stack[k].parent \in 0..Len(rows) /\ k \in 1..n
  BY <1>1 DEF n
<1>4. On(rows) \cup ObjectsAfter(stack, k) \subseteq On(more) \cup ObjectsAfter(rest, k)
  <2>1. ASSUME NEW b \in (k + 1)..n
        PROVE  stack[b].object \in On(more) \cup ObjectsAfter(rest, k)
    <3>1. CASE b = n
      BY <1>1, <1>2, <3>1
    <3>2. CASE b # n
      <4>1. b \in (k + 1)..(n - 1) /\ b \in 1..(n - 1)
        BY <1>1, <3>2
      <4>2. rest[b] = stack[b]
        BY <1>1, <4>1
      <4> QED
        BY <1>1, <4>1, <4>2 DEF ObjectsAfter
    <3> QED
      BY <3>1, <3>2
  <2> QED
    BY <1>2, <2>1 DEF ObjectsAfter, n
<1>5. /\ TreeLinked(doc, more, stack[k])
      /\ Preceded(doc, more, stack[k], On(more) \cup ObjectsAfter(rest, k))
  <2> DEFINE before == On(rows) \cup ObjectsAfter(stack, k)
             after == On(more) \cup ObjectsAfter(rest, k)
  <2>1. TreeLinked(doc, rows, stack[k]) /\ Preceded(doc, rows, stack[k], before) /\ before \subseteq after
    BY <1>4 DEF PendingTrue
  <2> HIDE DEF before, after
  <2> QED
    BY <1>3, <2>1, LinkKept DEF more, after
<1>6. stack[k].page = IF stack[k].parent = 0 THEN 0 ELSE more[stack[k].parent].page
  <2>1. stack[k].parent # 0 => stack[k].parent \in 1..Len(rows)
    BY <1>2, <1>3
  <2> QED
    BY <1>2, <2>1 DEF PendingTrue
<1>7. \A b \in k..Len(rest) : Under(more, rest[k].parent, rest[b].parent)
  <2> SUFFICES ASSUME NEW b \in k..Len(rest) PROVE Under(more, stack[k].parent, rest[b].parent)
    BY <1>3
  <2>1. b \in k..n /\ b \in 1..n /\ rest[b] = stack[b]
    BY <1>1, <1>3
  <2>2. Under(rows, stack[k].parent, stack[b].parent) /\ stack[b].parent \in 0..Len(rows)
    BY <2>1 DEF PendingTrue, n
  <2> QED
    BY <2>1, <2>2, UnderKept DEF more
<1>8. Under(more, rest[k].parent, Len(more))
  <2>1. n \in k..n
    BY <1>1, <1>3
  <2>2. Under(rows, stack[k].parent, row.parent)
    BY <1>1, <2>1 DEF PendingTrue, n
  <2>3. Under(more, stack[k].parent, Len(rows) + 1)
    BY <2>2, UnderNew DEF more
  <2> QED
    BY <1>2, <1>3, <2>3
<1> QED
  BY <1>3, <1>5, <1>6, <1>7, <1>8 DEF PendingTrue, rest, more

\* The row that a turn adds.
LEMMA AddedTrue ==
  ASSUME NEW doc, Treed(doc), NEW stack \in Seq(Elements(doc)), stack # <<>>,
         NEW rows \in Seq(ElementRows(doc)), Climbing(rows),
         PendingTrue(doc, rows, stack, Len(stack))
  PROVE  RowTrue(doc, Append(rows, RowOf(doc, Last(stack))), Len(rows) + 1)
<1> DEFINE n == Len(stack)
           item == Last(stack)
           row == RowOf(doc, item)
           l == Len(rows)
           more == Append(rows, row)
<1>1. n \in Nat /\ n > 0 /\ item = stack[n] /\ item \in Elements(doc)
  BY PoppedIs
<1>2. row \in ElementRows(doc)
  BY <1>1, RowTyped
<1>3. /\ row.object = item.object /\ row.depth = item.depth /\ row.parent = item.parent
      /\ row.page = PageOf(doc, item) /\ row.mcids = ChildrenOf(doc, item.object).mcids
      /\ row.role = StructureRole(doc.roleMap, doc.objects[item.object].tag)
  BY DEF RowOf
<1> HIDE DEF item, row
<1>4. l \in Nat /\ Len(more) = l + 1 /\ (\A b \in 1..l : more[b] = rows[b]) /\ more[l + 1] = row
  BY <1>2, AppendedIs
<1>5. /\ TreeLinked(doc, rows, item)
      /\ item.page = IF item.parent = 0 THEN 0 ELSE rows[item.parent].page
      /\ Preceded(doc, rows, item, On(rows) \cup ObjectsAfter(stack, n))
      /\ l > 0 => Under(rows, item.parent, l)
  BY <1>1 DEF PendingTrue
<1>6. item.parent \in 0..l
  BY <1>5 DEF TreeLinked
<1> HIDE DEF l, more
<1>7. TreeLinked(doc, rows, row)
  BY <1>3, <1>5 DEF TreeLinked
<1>8. Preceded(doc, rows, row, ObjectsBefore(more, l + 1))
  <2>1. ObjectsAfter(stack, n) = {}
    <3>1. \A b \in (n + 1)..Len(stack) : FALSE
      BY <1>1
    <3> QED
      BY <3>1 DEF ObjectsAfter
  <2>2. On(rows) \subseteq ObjectsBefore(more, l + 1)
    <3>1. DOMAIN rows = 1..l /\ (l + 1) - 1 = l
      BY <1>4 DEF l
    <3> QED
      BY <1>4, <3>1 DEF On, ObjectsBefore
  <2> QED
    BY <1>3, <1>5, <2>1, <2>2 DEF Preceded
<1>9. TreeLinked(doc, more, row) /\ Preceded(doc, more, row, ObjectsBefore(more, l + 1))
  BY <1>2, <1>3, <1>6, <1>7, <1>8, LinkKept DEF more, l
<1>10. row.page = IF doc.objects[row.object].page > 0 \/ row.parent = 0
                  THEN doc.objects[row.object].page ELSE more[row.parent].page
  <2>1. doc.objects[item.object].page \in Nat
    BY <1>1, ObjectIs DEF Elements
  <2>2. item.parent # 0 => item.parent \in 1..l
    BY <1>4, <1>6
  <2> QED
    BY <1>3, <1>4, <1>5, <2>1, <2>2 DEF PageOf
<1>11. l + 1 > 1 /\ row.parent # (l + 1) - 1 => Under(more, row.parent, more[(l + 1) - 1].parent)
  <2> SUFFICES ASSUME l > 0, item.parent # l PROVE Under(more, item.parent, rows[l].parent)
    <3>1. (l + 1) - 1 = l /\ (l > 0 => more[l] = rows[l]) /\ (l + 1 > 1 => l > 0)
      BY <1>4
    <3> QED
      BY <1>3, <3>1
  <2>1. Under(rows, item.parent, rows[l].parent)
    BY <1>4, <1>5, UnderParent DEF l
  <2>2. rows[l].parent \in 0..l
    <3>1. l \in 1..l
      BY <1>4
    <3>2. rows[l].parent \in 0..(l - 1)
      BY <3>1 DEF Climbing, l
    <3> QED
      BY <1>4, <3>2
  <2> QED
    BY <1>2, <2>1, <2>2, UnderKept DEF more, l
<1>12. row.parent \in 0..((l + 1) - 1)
  BY <1>3, <1>4, <1>6
<1> QED
  BY <1>3, <1>4, <1>9, <1>10, <1>11, <1>12 DEF RowTrue, more, l, row, item

\* The elements that a turn pushes.
LEMMA BelowTrue ==
  ASSUME NEW doc, Treed(doc), NEW item \in Elements(doc), item.depth < DepthCap,
         NEW rest \in Seq(Elements(doc)), NEW rows \in Seq(ElementRows(doc)), NEW l \in Nat, Len(rows) = l + 1,
         rows[l + 1] = RowOf(doc, item),
         \A k \in 1..Len(rest) : PendingTrue(doc, rows, rest, k),
         NEW k \in 1..Len(Pushed(rest, Below(doc, item, l + 1)))
  PROVE  PendingTrue(doc, rows, Pushed(rest, Below(doc, item, l + 1)), k)
<1> DEFINE below == Below(doc, item, l + 1)
           stack == Pushed(rest, below)
           n == Len(rest)
           m == Len(below)
           children == ChildrenOf(doc, item.object).children
           keys == doc.objects[item.object].kids
<1>1. /\ below \in Seq(Elements(doc)) /\ m = Len(children) /\ m \in Nat
      /\ \A i \in 1..m : /\ below[i].object = children[i] /\ below[i].depth = item.depth + 1
                         /\ below[i].parent = l + 1 /\ below[i].page = PageOf(doc, item)
  BY BelowIs
<1>2. n \in Nat
  OBVIOUS
<1>3. rows[l + 1].object = item.object /\ rows[l + 1].depth = item.depth /\ rows[l + 1].page = PageOf(doc, item)
  BY DEF RowOf
<1>4. item.object \in DOMAIN doc.objects
  BY DEF Elements
<1>5. \A c \in 1..m : children[c] \in ElementsIn(doc, keys) /\ Follows(doc, keys, children, c)
  <2>1. Collected(doc, keys, ChildrenOf(doc, item.object))
    BY <1>4, ChildrenTyped
  <2> QED
    BY <1>1, <2>1 DEF Collected
<1>6. KeysOf(doc, rows, l + 1) = keys
  <2>1. l + 1 # 0
    OBVIOUS
  <2> QED
    BY <1>3, <2>1 DEF KeysOf
<1> HIDE DEF below, stack, children, keys
<1>7. stack \in Seq(Elements(doc)) /\ Len(stack) = n + m
  <2>1. Len(stack) = n + m
    BY <1>1, PushedIs DEF stack
  <2>2. stack \in Seq(Elements(doc))
    BY <1>1, PushedIs DEF stack
  <2> QED
    BY <2>1, <2>2
<1>8. \A b \in 1..n : stack[b] = rest[b]
  BY <1>1, PushedIs DEF stack
<1>9. \A b \in (n + 1)..(n + m) : stack[b] = below[n + m + 1 - b]
  <2>1. rest \in Seq(Elements(doc)) /\ below \in Seq(Elements(doc))
    BY <1>1
  <2> QED
    BY <2>1, PushedIs DEF stack
<1> HIDE DEF n, m
<1>10. \A b \in (n + 1)..(n + m) :
         n + m + 1 - b \in 1..m /\ stack[b].parent = l + 1 /\ stack[b].object = children[n + m + 1 - b]
         /\ stack[b].depth = item.depth + 1 /\ stack[b].page = PageOf(doc, item)
  <2> SUFFICES ASSUME NEW b \in (n + 1)..(n + m)
               PROVE  /\ n + m + 1 - b \in 1..m /\ stack[b].parent = l + 1 /\ stack[b].object = children[n + m + 1 - b]
                      /\ stack[b].depth = item.depth + 1 /\ stack[b].page = PageOf(doc, item)
    OBVIOUS
  <2>1. n + m + 1 - b \in 1..m
    BY <1>1, <1>2
  <2> QED
    BY <1>1, <1>9, <2>1
<1>11. CASE k <= n
  <2>1. k \in 1..n /\ stack[k] = rest[k]
    BY <1>2, <1>8, <1>11, <1>7 DEF stack, below
  <2>2. PendingTrue(doc, rows, rest, k)
    BY <2>1 DEF n
  <2>3. ObjectsAfter(rest, k) \subseteq ObjectsAfter(stack, k)
    <3>1. \A b \in (k + 1)..n : b \in (k + 1)..(n + m) /\ stack[b] = rest[b]
      BY <1>1, <1>2, <1>8, <2>1
    <3> QED
      BY <1>7, <3>1 DEF ObjectsAfter, n
  <2>4. Preceded(doc, rows, stack[k], On(rows) \cup ObjectsAfter(stack, k))
    BY <2>1, <2>2, <2>3 DEF PendingTrue, Preceded
  <2>5. Len(rows) > 0 /\ Under(rows, stack[k].parent, l + 1)
    <3>1. Len(rows) > 0
      OBVIOUS
    <3> QED
      BY <2>1, <2>2, <3>1 DEF PendingTrue
  <2>6. ASSUME NEW b \in k..Len(stack)
        PROVE  Under(rows, stack[k].parent, stack[b].parent)
    <3>1. CASE b <= n
      <4>1. b \in k..n /\ b \in 1..n
        BY <1>2, <1>7, <2>1, <3>1
      <4> QED
        BY <1>8, <2>1, <2>2, <4>1 DEF PendingTrue, n
    <3>2. CASE ~(b <= n)
      <4>1. b \in (n + 1)..(n + m)
        BY <1>1, <1>2, <1>7, <2>1, <3>2
      <4> QED
        BY <1>10, <2>5, <4>1
    <3> QED
      BY <3>1, <3>2
  <2> QED
    BY <2>1, <2>2, <2>4, <2>5, <2>6 DEF PendingTrue, stack, below
<1>12. CASE ~(k <= n)
  <2>1. k \in (n + 1)..(n + m)
    BY <1>1, <1>2, <1>7, <1>12 DEF stack, below
  <2> DEFINE c == n + m + 1 - k
  <2>2. /\ c \in 1..m /\ stack[k].parent = l + 1 /\ stack[k].object = children[c]
        /\ stack[k].depth = item.depth + 1 /\ stack[k].page = PageOf(doc, item)
    BY <1>10, <2>1
  <2> HIDE DEF c
  <2>3. children[c] \in ElementsIn(doc, keys) /\ Follows(doc, keys, children, c)
    BY <1>5, <2>2
  <2>4. TreeLinked(doc, rows, stack[k])
    <3>1. l + 1 \in 0..Len(rows) /\ l + 1 # 0
      OBVIOUS
    <3> QED
      BY <1>3, <1>6, <2>2, <2>3, <3>1 DEF TreeLinked
  <2>5. stack[k].page = IF stack[k].parent = 0 THEN 0 ELSE rows[stack[k].parent].page
    <3>1. l + 1 # 0
      OBVIOUS
    <3> QED
      BY <1>3, <2>2, <3>1
  <2>6. Preceded(doc, rows, stack[k], On(rows) \cup ObjectsAfter(stack, k))
    <3> SUFFICES ASSUME NEW q \in 1..Len(keys), q < KeyIndex(doc, keys, children[c]),
                        doc.objects[keys[q]].is = "element"
                 PROVE  keys[q] \in ObjectsAfter(stack, k)
      BY <1>6, <2>2 DEF Preceded
    <3>1. PICK d \in 1..(c - 1) : children[d] = keys[q]
      BY <2>3 DEF Follows
    <3> DEFINE b == n + m + 1 - d
    <3>2. b \in (k + 1)..(n + m) /\ b \in (n + 1)..(n + m) /\ n + m + 1 - b = d
      BY <1>1, <1>2, <2>1, <2>2, <3>1 DEF c
    <3> HIDE DEF b
    <3>3. stack[b].object = keys[q]
      BY <1>10, <3>1, <3>2
    <3> QED
      BY <1>7, <3>2, <3>3 DEF ObjectsAfter
  <2>7. \A b \in k..Len(stack) : Under(rows, stack[k].parent, stack[b].parent)
    <3>1. \A b \in k..Len(stack) : b \in (n + 1)..(n + m)
      BY <1>1, <1>2, <1>7, <2>1
    <3>2. \A b \in k..Len(stack) : stack[b].parent = l + 1
      BY <1>10, <3>1
    <3> QED
      BY <2>2, <3>2 DEF Under
  <2>8. Under(rows, stack[k].parent, Len(rows))
    BY <2>2 DEF Under
  <2> QED
    BY <2>4, <2>5, <2>6, <2>7, <2>8 DEF PendingTrue, stack, below
<1> QED
  BY <1>11, <1>12 DEF stack, below


\* Every turn of ReadStructure keeps what is true of its rows and of what is pending.
LEMMA TurnTrue ==
  ASSUME NEW doc, Treed(doc), NEW walk \in ElementWalks(doc), ListTrue(doc, walk)
  PROVE  ListTrue(doc, ElementTurn(doc, walk))
<1> DEFINE turned == ElementTurn(doc, walk)
           stack == walk.pending
           rows == walk.rows
           item == Last(stack)
           rest == Front(stack)
           row == RowOf(doc, item)
           more == Append(rows, row)
           n == Len(stack)
           l == Len(rows)
           below == Below(doc, item, l + 1)
           shown == On(rows) \cup On(stack)
<1>1. stack = <<>> => turned = walk
  BY ElementTurnIs
<1> SUFFICES ASSUME stack # <<>> PROVE ListTrue(doc, turned)
  BY <1>1
<1>2. ElementTurned(doc, walk, turned)
  BY ElementTurnIs
<1>3. stack \in Seq(Elements(doc)) /\ rows \in Seq(ElementRows(doc)) /\ walk.visited \in SUBSET DOMAIN doc.objects
  BY DEF ElementWalks
<1>4. /\ item \in Elements(doc) /\ rest \in Seq(Elements(doc)) /\ n \in Nat /\ n > 0 /\ item = stack[n]
      /\ Len(rest) = n - 1
      /\ \A b \in 1..(n - 1) : rest[b] = stack[b]
      /\ On(stack) = On(rest) \cup {item.object}
  BY <1>3, PoppedIs
<1>5. /\ walk.visited = On(rows)
      /\ \A i, j \in 1..l : rows[i].object = rows[j].object => i = j
      /\ \A i \in 1..l : RowTrue(doc, rows, i)
      /\ \A k \in 1..n : PendingTrue(doc, rows, stack, k)
      /\ Reached(doc, rows, stack)
  BY DEF ListTrue
<1>6. Climbing(rows)
  BY <1>5 DEF Climbing, RowTrue
<1>7. item.object \in DOMAIN doc.objects /\ item.depth \in 0..DepthCap
  BY <1>4 DEF Elements
<1>8. \A k \in 1..n : stack[k].parent \in 0..l
  BY <1>5 DEF PendingTrue, TreeLinked
<1>9. l \in Nat
  BY <1>3
<1>10. \A k \in 1..(n - 1) : k \in 1..n
  BY <1>4
<1>11. CASE item.object \in walk.visited
  <2>1. turned.pending = rest /\ turned.visited = walk.visited /\ turned.rows = rows
    BY <1>2, <1>11 DEF ElementTurned
  <2> HIDE DEF turned
  <2>2. \A k \in 1..Len(rest) : PendingTrue(doc, rows, rest, k)
    <3> SUFFICES ASSUME NEW k \in 1..(n - 1) PROVE PendingTrue(doc, rows, rest, k)
      BY <1>4
    <3>1. PendingTrue(doc, rows, stack, k) /\ item.object \in On(rows)
      BY <1>5, <1>10, <1>11
    <3> HIDE DEF stack, rows
    <3> QED
      BY <1>3, <3>1, PoppedTrue
  <2>3. On(rows) \cup On(rest) = shown
    BY <1>4, <1>5, <1>11
  <2>4. Reached(doc, rows, rest)
    BY <1>5, <2>3 DEF Reached
  <2> QED
    BY <1>5, <2>1, <2>2, <2>4 DEF ListTrue, turned
<1>12. CASE item.object \notin walk.visited
  <2>1. /\ turned.pending = IF item.depth >= DepthCap THEN rest ELSE Pushed(rest, below)
        /\ turned.visited = walk.visited \cup {item.object}
        /\ turned.rows = more
    BY <1>2, <1>12 DEF ElementTurned
  <2>2. row \in ElementRows(doc)
    BY <1>4, RowTyped
  <2>3. /\ row.object = item.object /\ row.depth = item.depth /\ row.parent = item.parent
    BY DEF RowOf
  <2> HIDE DEF turned, row
  <2>4. /\ Len(more) = l + 1 /\ (\A b \in 1..l : more[b] = rows[b]) /\ more[l + 1] = row
        /\ On(more) = On(rows) \cup {row.object} /\ more \in Seq(ElementRows(doc))
    BY <1>3, <2>2, AppendedIs
  <2>5. turned.visited = On(turned.rows)
    BY <1>5, <2>1, <2>3, <2>4
  <2>6. \A i \in 1..(l + 1) : i \in 1..l \/ i = l + 1
    BY <1>9
  <2>7. ASSUME NEW i \in 1..(l + 1), NEW j \in 1..(l + 1), more[i].object = more[j].object
        PROVE  i = j
    <3>1. \A k \in 1..l : rows[k].object # item.object
      <4>1. \A k \in 1..l : rows[k].object \in On(rows)
        BY <1>3 DEF On
      <4> QED
        BY <1>5, <1>12, <4>1
    <3> QED
      BY <1>5, <2>3, <2>4, <2>6, <2>7, <3>1
  <2>8. \A i \in 1..(l + 1) : RowTrue(doc, more, i)
    <3>1. RowTrue(doc, more, l + 1)
      <4>1. PendingTrue(doc, rows, stack, n)
        <5>1. n \in 1..n
          BY <1>4
        <5> QED
          BY <1>5, <5>1
      <4> HIDE DEF stack, rows
      <4> QED
        BY <1>3, <1>6, <4>1, AddedTrue DEF row
    <3>2. \A i \in 1..l : RowTrue(doc, more, i)
      BY <1>3, <1>5, <1>6, <2>2, RowKept
    <3> QED
      BY <2>6, <3>1, <3>2
  <2>9. ASSUME NEW k \in 1..Len(rest)
        PROVE  PendingTrue(doc, more, rest, k)
    <3>1. PendingTrue(doc, rows, stack, k) /\ k \in 1..(n - 1)
      BY <1>4, <1>5, <1>10
    <3>2. n \in 1..n
      BY <1>4
    <3>3. row.parent \in 0..l
      BY <1>4, <1>8, <2>3, <3>2
    <3>4. row.object = Last(stack).object /\ row.parent = Last(stack).parent
      BY <2>3
    <3> HIDE DEF stack, rows
    <3> QED
      BY <1>3, <1>6, <1>8, <2>2, <3>1, <3>3, <3>4, RestTrue
  <2>10. shown = On(more) \cup On(rest)
    BY <1>4, <2>3, <2>4
  <2>11. \A i \in 1..l : more[i].depth < DepthCap =>
           ToSet(ChildrenOf(doc, more[i].object).children) \subseteq On(more) \cup On(rest)
    BY <1>5, <2>4, <2>10 DEF Reached
  <2>12. ToSet(CollectStructureChildren(doc, doc.key).children) \subseteq On(more) \cup On(rest)
    BY <1>5, <2>10 DEF Reached
  <2>13. CASE item.depth >= DepthCap
    <3>1. turned.pending = rest
      BY <2>1, <2>13
    <3>2. ~(more[l + 1].depth < DepthCap)
      BY <1>7, <2>3, <2>4, <2>13, StepCapIs
    <3>3. Reached(doc, more, rest)
      BY <2>4, <2>6, <2>11, <2>12, <3>2 DEF Reached
    <3> QED
      BY <2>1, <2>4, <2>5, <2>7, <2>8, <2>9, <3>1, <3>3 DEF ListTrue, turned
  <2>14. CASE ~(item.depth >= DepthCap)
    <3> DEFINE pushed == Pushed(rest, below)
    <3>1. turned.pending = pushed
      BY <2>1, <2>14
    <3>2. item.depth < DepthCap
      BY <1>7, <2>14, StepCapIs
    <3>3. below \in Seq(Elements(doc)) /\ On(below) = ToSet(ChildrenOf(doc, item.object).children)
      BY <1>4, <1>9, <3>2, BelowIs
    <3>4. \A k \in 1..Len(pushed) : PendingTrue(doc, more, pushed, k)
      <4> HIDE DEF rows, item, rest, l, more
      <4> QED
        BY <1>4, <1>9, <2>4, <2>9, <3>2, BelowTrue DEF row
    <3>5. On(pushed) = On(rest) \cup On(below)
      <4> HIDE DEF below, rest
      <4> QED
        BY <1>4, <3>3, PushedIs
    <3>6. Reached(doc, more, pushed)
      <4> HIDE DEF more, pushed, rest, l, item
      <4>1. On(more) \cup On(rest) \subseteq On(more) \cup On(pushed)
        BY <3>5
      <4>2. ToSet(ChildrenOf(doc, more[l + 1].object).children) \subseteq On(pushed)
        BY <2>3, <2>4, <3>3, <3>5
      <4>3. ASSUME NEW i \in 1..Len(more), more[i].depth < DepthCap
            PROVE  ToSet(ChildrenOf(doc, more[i].object).children) \subseteq On(more) \cup On(pushed)
        <5>1. i \in 1..l \/ i = l + 1
          BY <2>4, <2>6
        <5> QED
          BY <2>11, <4>1, <4>2, <4>3, <5>1
      <4> QED
        BY <2>12, <4>1, <4>3 DEF Reached
    <3> HIDE DEF pushed
    <3> QED
      BY <2>1, <2>4, <2>5, <2>7, <2>8, <3>1, <3>4, <3>6 DEF ListTrue, turned
  <2> QED
    BY <2>13, <2>14
<1> QED
  BY <1>11, <1>12

\* It is true of the roots, before the first turn.
LEMMA RootsTrue ==
  ASSUME NEW doc, Treed(doc)
  PROVE  /\ Pushed(<<>>, Roots(doc)) \in Seq(Elements(doc))
         /\ ListTrue(doc, [pending |-> Pushed(<<>>, Roots(doc)), visited |-> {}, rows |-> <<>>])
<1> DEFINE roots == CollectStructureChildren(doc, doc.key).children
           items == Roots(doc)
           none == <<>>
           stack == Pushed(none, items)
           m == Len(roots)
           E == Elements(doc)
<1>1. doc.key \in Seq(DOMAIN doc.objects)
  BY DEF Treed
<1>2. Collected(doc, doc.key, CollectStructureChildren(doc, doc.key))
  BY <1>1, ChildrenCollected
<1>3. roots \in Seq(DOMAIN doc.objects)
  BY <1>2 DEF Collected, FlatWalks
<1>4. \A c \in 1..m : roots[c] \in ElementsIn(doc, doc.key) /\ Follows(doc, doc.key, roots, c)
  BY <1>2 DEF Collected
<1>5. items = [i \in DOMAIN roots |-> [object |-> roots[i], depth |-> 0, parent |-> 0, page |-> 0]]
  BY DEF Roots
<1> HIDE DEF roots, items
<1>6. m \in Nat /\ DOMAIN roots = 1..m /\ \A i \in 1..m : roots[i] \in DOMAIN doc.objects
  BY <1>3
<1>7. \A i \in 1..m : [object |-> roots[i], depth |-> 0, parent |-> 0, page |-> 0] \in E
  BY <1>6, StepCapIs DEF Elements
<1> HIDE DEF E
<1>8. items \in Seq(E) /\ Len(items) = m
  BY <1>5, <1>6, <1>7
<1>9. DOMAIN items = DOMAIN roots
      /\ \A i \in DOMAIN roots :
           items[i].object = roots[i] /\ items[i].depth = 0 /\ items[i].parent = 0 /\ items[i].page = 0
  BY <1>5
<1>10. On(items) = ToSet(roots)
  BY <1>9 DEF On, ToSet
<1>11. none \in Seq(E) /\ Len(none) = 0 /\ On(none) = {}
  BY DEF On
<1> HIDE DEF none
<1>12. Len(stack) = Len(none) + Len(items)
  BY <1>8, <1>11, PushedIs
<1>13. \A k \in (Len(none) + 1)..(Len(none) + Len(items)) : stack[k] = items[Len(none) + Len(items) + 1 - k]
  <2>1. none \in Seq(E) /\ items \in Seq(E)
    BY <1>8, <1>11
  <2> QED
    BY <2>1, PushedIs
<1>14. On(stack) = On(none) \cup On(items)
  <2>1. none \in Seq(E) /\ items \in Seq(E)
    BY <1>8, <1>11
  <2> QED
    BY <2>1, PushedIs
<1>15. stack \in Seq(E)
  BY <1>8, <1>11, PushedIs
<1> HIDE DEF stack, m
<1>16. Len(stack) = m /\ \A k \in 1..m :
         m + 1 - k \in 1..m /\ stack[k].object = roots[m + 1 - k]
         /\ stack[k].depth = 0 /\ stack[k].parent = 0 /\ stack[k].page = 0
  <2>1. Len(stack) = m
    BY <1>6, <1>8, <1>11, <1>12
  <2>2. ASSUME NEW k \in 1..m
        PROVE  /\ m + 1 - k \in 1..m /\ stack[k].object = roots[m + 1 - k]
               /\ stack[k].depth = 0 /\ stack[k].parent = 0 /\ stack[k].page = 0
    <3>1. m + 1 - k \in 1..m /\ k \in (Len(none) + 1)..(Len(none) + Len(items)) /\ Len(none) + Len(items) + 1 - k = m + 1 - k
      BY <1>6, <1>8, <1>11
    <3>2. stack[k] = items[m + 1 - k]
      BY <1>13, <3>1
    <3> QED
      BY <1>6, <1>9, <3>1, <3>2
  <2> QED
    BY <2>1, <2>2
<1> DEFINE rows == <<>>
<1>17. Len(rows) = 0 /\ On(rows) = {}
  BY DEF On
<1> HIDE DEF rows
<1>18. ASSUME NEW k \in 1..Len(stack)
       PROVE  PendingTrue(doc, rows, stack, k)
  <2> DEFINE c == m + 1 - k
  <2>1. c \in 1..m /\ stack[k].object = roots[c] /\ stack[k].depth = 0 /\ stack[k].parent = 0 /\ stack[k].page = 0
    BY <1>16
  <2> HIDE DEF c
  <2>2. KeysOf(doc, rows, 0) = doc.key
    BY DEF KeysOf
  <2>3. TreeLinked(doc, rows, stack[k])
    BY <1>4, <1>17, <2>1, <2>2 DEF TreeLinked
  <2>4. Preceded(doc, rows, stack[k], On(rows) \cup ObjectsAfter(stack, k))
    <3> SUFFICES ASSUME NEW q \in 1..Len(doc.key), q < KeyIndex(doc, doc.key, roots[c]),
                        doc.objects[doc.key[q]].is = "element"
                 PROVE  doc.key[q] \in ObjectsAfter(stack, k)
      BY <2>1, <2>2 DEF Preceded
    <3>1. PICK d \in 1..(c - 1) : roots[d] = doc.key[q]
      BY <1>4, <2>1 DEF Follows
    <3> DEFINE b == m + 1 - d
    <3>2. b \in (k + 1)..m /\ b \in 1..m /\ m + 1 - b = d
      BY <1>6, <1>16, <2>1, <3>1 DEF c
    <3> HIDE DEF b
    <3>3. stack[b].object = doc.key[q]
      BY <1>16, <3>1, <3>2
    <3> QED
      BY <1>16, <3>2, <3>3 DEF ObjectsAfter
  <2>5. \A b \in k..Len(stack) : Under(rows, stack[k].parent, stack[b].parent)
    BY <2>1 DEF Under
  <2> QED
    BY <1>17, <2>1, <2>3, <2>4, <2>5 DEF PendingTrue
<1>19. Reached(doc, rows, stack)
  <2>1. 1..Len(rows) = {}
    BY <1>17
  <2> QED
    BY <1>10, <1>14, <2>1 DEF Reached, roots
<1>20. ListTrue(doc, [pending |-> stack, visited |-> {}, rows |-> rows])
  <2> DEFINE walk == [pending |-> stack, visited |-> {}, rows |-> rows]
  <2>1. walk.pending = stack /\ walk.visited = {} /\ walk.rows = rows
    OBVIOUS
  <2> HIDE DEF walk
  <2>2. 1..Len(rows) = {}
    BY <1>17
  <2>3. ListTrue(doc, walk)
    BY <1>17, <1>18, <1>19, <2>1, <2>2 DEF ListTrue
  <2> QED
    BY <2>3 DEF walk
<1> QED
  BY <1>15, <1>20 DEF stack, none, items, rows, E


\* Siblings come in the order of keys in which no array is nested.
LEMMA SiblingsOrdered ==
  ASSUME NEW doc, Treed(doc), NEW rows \in Seq(ElementRows(doc)),
         \A i, j \in 1..Len(rows) : rows[i].object = rows[j].object => i = j,
         \A i \in 1..Len(rows) : RowTrue(doc, rows, i),
         NEW i \in 1..Len(rows), NEW j \in 1..(i - 1), rows[j].parent = rows[i].parent,
         KeysOf(doc, rows, rows[i].parent) \in Seq(DOMAIN doc.objects)
  PROVE  KeyIndex(doc, KeysOf(doc, rows, rows[i].parent), rows[j].object)
           <= KeyIndex(doc, KeysOf(doc, rows, rows[i].parent), rows[i].object)
<1> DEFINE keys == KeysOf(doc, rows, rows[i].parent)
           q == KeyIndex(doc, keys, rows[i].object)
           p == KeyIndex(doc, keys, rows[j].object)
<1>1. j \in 1..Len(rows)
  OBVIOUS
<1>2. rows[i].object \in ElementsIn(doc, keys) /\ keys = KeysOf(doc, rows, rows[j].parent)
  BY DEF RowTrue, TreeLinked
<1>3. Preceded(doc, rows, rows[j], ObjectsBefore(rows, j))
  BY <1>1 DEF RowTrue
<1> HIDE DEF keys
<1>4. keys \in Seq(DOMAIN doc.objects)
  BY DEF keys
<1>5. /\ q \in 0..Len(keys) /\ (q # 0 => keys[q] = rows[i].object)
      /\ (ToSet(keys) \cap Arrays(doc) = {} /\ rows[i].object \in ToSet(keys) => q # 0)
  BY <1>4, KeyIndexIs
<1>6. p \in 0..Len(keys) /\ (p # 0 => ToSet(keys) \cap Arrays(doc) = {})
  BY <1>4, KeyIndexIs
<1> SUFFICES ASSUME ~(p <= q) PROVE FALSE
  BY DEF keys
<1> HIDE DEF p, q
<1>7. q < p /\ p # 0
  BY <1>5, <1>6
<1>8. rows[i].object \in ToSet(keys)
  <2>1. ToSet(keys) \cap Arrays(doc) = {}
    BY <1>6, <1>7
  <2>2. Inside(doc, ToSet(keys)) \subseteq ToSet(keys)
    BY <2>1 DEF Inside
  <2>3. ToSet(keys) \in SUBSET DOMAIN doc.objects
    BY <1>4 DEF ToSet
  <2> QED
    BY <1>2, <2>2, <2>3 DEF ElementsIn, Contained
<1>9. q \in 1..Len(keys) /\ keys[q] = rows[i].object
  BY <1>4, <1>5, <1>6, <1>7, <1>8
<1>10. doc.objects[keys[q]].is = "element"
  BY <1>2, <1>9 DEF ElementsIn
<1>11. keys[q] \in ObjectsBefore(rows, j)
  BY <1>2, <1>3, <1>7, <1>9, <1>10 DEF Preceded, p
<1>12. PICK k \in 1..(j - 1) : rows[k].object = rows[i].object
  BY <1>9, <1>11 DEF ObjectsBefore
<1>13. k \in 1..Len(rows) /\ k # i
  OBVIOUS
<1> QED
  BY <1>12, <1>13

\* What pdf_structure lists of a document is its tree.
LEMMA TreeIsListed ==
  ASSUME NEW doc, Treed(doc)
  PROVE  ListsTree(doc, ReadStructure(doc)) /\ MapsRoles(doc, ReadStructure(doc))
<1> DEFINE stack == Pushed(<<>>, Roots(doc))
           w == WalkElements(doc, stack)
           T == {n \in 0..StepCap : ListTrue(doc, w[n])}
           walk == w[StepCap]
           rows == walk.rows
<1>1. stack \in Seq(Elements(doc)) /\ ListTrue(doc, [pending |-> stack, visited |-> {}, rows |-> <<>>])
  BY RootsTrue
<1>2. /\ w[0] = [pending |-> stack, visited |-> {}, rows |-> <<>>]
      /\ \A n \in 0..StepCap : w[n] \in ElementWalks(doc)
      /\ \A n \in 1..StepCap : w[n] = ElementTurn(doc, w[n - 1])
  <2> HIDE DEF stack
  <2> QED
    BY <1>1, ElementsWalked
<1>3. ReadStructure(doc) = rows
  BY DEF ReadStructure
<1>4. Uncut(doc) => walk.pending = <<>>
  BY DEF Uncut
<1>5. StepCap \in Nat
  BY StepCapIs
<1> HIDE DEF stack, w
<1>6. 0 \in T
  BY <1>1, <1>2, <1>5
<1>7. ASSUME NEW n \in 0..(StepCap - 1), n \in T
      PROVE  n + 1 \in T
  <2>1. n \in 0..StepCap /\ n + 1 \in 0..StepCap /\ n + 1 \in 1..StepCap /\ (n + 1) - 1 = n
    BY <1>5
  <2>2. w[n] \in ElementWalks(doc) /\ w[n + 1] = ElementTurn(doc, w[n])
    BY <1>2, <2>1
  <2>3. ListTrue(doc, w[n + 1])
    BY <1>7, <2>2, TurnTrue
  <2> QED
    BY <2>1, <2>3
<1>8. ListTrue(doc, walk)
  <2> HIDE DEF T
  <2>1. \A n \in 0..StepCap : n \in T
    BY <1>5, <1>6, <1>7, Steps
  <2>2. StepCap \in T
    BY <1>5, <2>1
  <2> QED
    BY <2>2 DEF T
<1>9. walk \in ElementWalks(doc)
  BY <1>2, <1>5
<1> HIDE DEF walk
<1>10. rows \in Seq(ElementRows(doc)) /\ DOMAIN rows = 1..Len(rows) /\ Len(rows) \in Nat
  BY <1>9 DEF ElementWalks
<1>11. /\ \A i, j \in 1..Len(rows) : rows[i].object = rows[j].object => i = j
       /\ \A i \in 1..Len(rows) : RowTrue(doc, rows, i)
       /\ Reached(doc, rows, walk.pending)
  BY <1>8 DEF ListTrue
<1>12. Uncut(doc) => On(walk.pending) = {}
  BY <1>4 DEF On
<1> HIDE DEF rows
<1>13. \A i \in 1..Len(rows) : rows[i].object \in DOMAIN doc.objects
  <2>1. \A i \in 1..Len(rows) : rows[i] \in ElementRows(doc)
    BY <1>10, ElementOfSeq
  <2> QED
    BY <2>1 DEF ElementRows
<1>14. doc.key \in Seq(DOMAIN doc.objects)
  BY DEF Treed
<1>15. \A i \in 1..Len(rows) : KeysOf(doc, rows, rows[i].parent) \in Seq(DOMAIN doc.objects)
  <2> SUFFICES ASSUME NEW i \in 1..Len(rows) PROVE KeysOf(doc, rows, rows[i].parent) \in Seq(DOMAIN doc.objects)
    OBVIOUS
  <2>1. rows[i].parent \in 0..(i - 1)
    BY <1>11 DEF RowTrue
  <2>2. CASE rows[i].parent = 0
    BY <1>14, <2>2 DEF KeysOf
  <2>3. CASE rows[i].parent # 0
    <3>1. rows[i].parent \in 1..Len(rows)
      BY <1>10, <2>1, <2>3
    <3> QED
      BY <1>13, <2>3, <3>1, ObjectIs DEF KeysOf
  <2> QED
    BY <2>2, <2>3
<1>16. ASSUME Whole(doc)
       PROVE  /\ \A e \in ElementsIn(doc, doc.key) : \E j \in 1..Len(rows) : rows[j].object = e
              /\ \A i \in 1..Len(rows) :
                   /\ ToSet(rows[i].mcids) = ContentIn(doc, doc.objects[rows[i].object].kids)
                   /\ rows[i].depth < DepthCap =>
                        \A e \in ElementsIn(doc, doc.objects[rows[i].object].kids) :
                          \E j \in 1..Len(rows) : rows[j].object = e
  <2>1. Shallow(doc) /\ Uncut(doc)
    BY <1>16 DEF Whole
  <2>2. /\ CollectStructureChildren(doc, doc.key).pending = <<>>
        /\ \A o \in DOMAIN doc.objects : ChildrenOf(doc, o).pending = <<>>
    BY <2>1 DEF Uncut, ChildrenOf
  <2>3. \A e \in On(rows) : \E j \in 1..Len(rows) : rows[j].object = e
    BY <1>10 DEF On
  <2>4. Collected(doc, doc.key, CollectStructureChildren(doc, doc.key))
    BY <1>14, ChildrenCollected
  <2>5. ElementsIn(doc, doc.key) \subseteq On(rows)
    BY <1>11, <1>12, <2>1, <2>2, <2>4 DEF Collected, Reached
  <2>6. ASSUME NEW i \in 1..Len(rows)
        PROVE  /\ ToSet(rows[i].mcids) = ContentIn(doc, doc.objects[rows[i].object].kids)
               /\ rows[i].depth < DepthCap => ElementsIn(doc, doc.objects[rows[i].object].kids) \subseteq On(rows)
    <3>1. rows[i].object \in DOMAIN doc.objects
      BY <1>13
    <3>2. Collected(doc, doc.objects[rows[i].object].kids, ChildrenOf(doc, rows[i].object))
      BY <3>1, ChildrenTyped
    <3>3. ChildrenOf(doc, rows[i].object).pending = <<>>
      BY <2>2, <3>1
    <3>4. rows[i].mcids = ChildrenOf(doc, rows[i].object).mcids
      BY <1>11 DEF RowTrue
    <3>5. rows[i].depth < DepthCap => ToSet(ChildrenOf(doc, rows[i].object).children) \subseteq On(rows)
      BY <1>11, <1>12, <2>1, SMTT(60) DEF Reached
    <3> QED
      BY <2>1, <3>2, <3>3, <3>4, <3>5 DEF Collected
  <2> QED
    BY <2>3, <2>5, <2>6
<1>17. ASSUME NEW i \in 1..Len(rows)
       PROVE  LET row == rows[i]
                  o == doc.objects[row.object]
                  root == row.parent = 0
                  keys == IF root THEN doc.key ELSE doc.objects[rows[row.parent].object].kids
              IN /\ row.parent < i
                 /\ row.depth = IF root THEN 0 ELSE rows[row.parent].depth + 1
                 /\ row.object \in ElementsIn(doc, keys)
                 /\ \A j \in 1..(i - 1) :
                      rows[j].parent = row.parent =>
                        KeyIndex(doc, keys, rows[j].object) <= KeyIndex(doc, keys, row.object)
                 /\ row.page = IF o.page > 0 \/ root THEN o.page ELSE rows[row.parent].page
                 /\ i > 1 /\ row.parent # i - 1 => root \/ Above(rows, row.parent, i - 1)
  <2>1. RowTrue(doc, rows, i)
    BY <1>11
  <2>2. rows[i].parent < i
    BY <2>1 DEF RowTrue
  <2>3. \A j \in 1..(i - 1) :
          rows[j].parent = rows[i].parent =>
            KeyIndex(doc, KeysOf(doc, rows, rows[i].parent), rows[j].object)
              <= KeyIndex(doc, KeysOf(doc, rows, rows[i].parent), rows[i].object)
    BY <1>10, <1>11, <1>15, SiblingsOrdered
  <2>4. i > 1 /\ rows[i].parent # i - 1 => rows[i].parent = 0 \/ Above(rows, rows[i].parent, i - 1)
    BY <2>1, SMTT(60) DEF RowTrue, Under, Upward, Above
  <2> QED
    BY <2>1, <2>2, <2>3, <2>4 DEF RowTrue, TreeLinked, KeysOf
<1>18. ListsTree(doc, rows)
  BY <1>10, <1>11, <1>16, <1>17 DEF ListsTree
<1>19. MapsRoles(doc, rows)
  <2> SUFFICES ASSUME NEW i \in 1..Len(rows)
               PROVE  RoleRight(doc.roleMap, doc.objects[rows[i].object].tag, rows[i].role)
    BY <1>10 DEF MapsRoles, RoleRight
  <2>1. rows[i].role = StructureRole(doc.roleMap, doc.objects[rows[i].object].tag)
    BY <1>11 DEF RowTrue
  <2>2. doc.objects[rows[i].object].tag \in DOMAIN doc.roleMap \cup Standard
    BY <1>13, ObjectIs
  <2>3. Mapping(doc.roleMap)
    BY DEF Treed
  <2> QED
    BY <2>1, <2>2, <2>3, RoleMapped
<1> QED
  BY <1>3, <1>18, <1>19

-----------------------------------------------------------------------------
(* Calls.                                                                  *)

\* A call keeps its question, and its answer is what the code makes of it.
CallInv ==
  /\ topic = "ocr page" => question \in OcrPages
  /\ topic = "ocr layer" => question \in LayerCalls
  /\ topic = "redact" => question \in Redactions
  /\ topic = "split" => question \in Scans
  /\ topic = "stamp" => question \in Stampings
  /\ topic = "sign" => question \in Signings
  /\ topic = "revisions" => question \in Files
  /\ topic = "structure" => question \in Trees
  /\ topic = "scalar" => question \in ScalarCalls
  /\ topic = "table" => question \in TableCalls
  /\ Answered("ocr page") => answer.is = LoadWordsForPage(question)
  /\ Answered("ocr layer") => answer.is = PdfOcrExecute(question)
  /\ Answered("redact") => answer.is = PdfRedactExecuteFile(question)
  /\ Answered("split") => answer.is = PdfSplitBlankExecute(question)
  /\ Answered("stamp") => answer.is = Stamp(question)
  /\ Answered("sign") => answer.is = SignAndRead(question)
  /\ Answered("revisions") => answer.is = EnumeratePdfRevisions(question)
  /\ Answered("structure") => answer.is = ReadStructure(question)
  /\ Answered("scalar") => answer.is = ScalarCall(question)
  /\ Answered("table") => answer.is = PdfTableFamilyBind(question)

LEMMA CallsInvariant == PageSpec => []CallInv
<1>1. ASSUME PageInit
      PROVE  CallInv
  <2>1. ~answer.done
    BY <1>1 DEF PageInit, NoAnswer
  <2> QED
    BY <1>1, <2>1 DEF PageInit, CallInv, Answered
<1>2. ASSUME CallInv, [PageNext]_pageVars
      PROVE  CallInv'
  <2> DEFINE given(t, value) == topic = t /\ answer'.done /\ answer'.is = value
  <2>1. ASSUME NEW t, NEW value, Answer(t, value)
        PROVE  given(t, value) /\ UNCHANGED <<topic, question>>
    BY <2>1 DEF Answer
  <2>2. CASE Answer("ocr page", LoadWordsForPage(question))
    <3>1. given("ocr page", LoadWordsForPage(question)) /\ UNCHANGED <<topic, question>>
      BY <2>1, <2>2
    <3> QED
      BY <1>2, <3>1 DEF CallInv, Answered
  <2>3. CASE Answer("ocr layer", PdfOcrExecute(question))
    <3>1. given("ocr layer", PdfOcrExecute(question)) /\ UNCHANGED <<topic, question>>
      BY <2>1, <2>3
    <3> QED
      BY <1>2, <3>1 DEF CallInv, Answered
  <2>4. CASE Answer("redact", PdfRedactExecuteFile(question))
    <3>1. given("redact", PdfRedactExecuteFile(question)) /\ UNCHANGED <<topic, question>>
      BY <2>1, <2>4
    <3> QED
      BY <1>2, <3>1 DEF CallInv, Answered
  <2>5. CASE Answer("split", PdfSplitBlankExecute(question))
    <3>1. given("split", PdfSplitBlankExecute(question)) /\ UNCHANGED <<topic, question>>
      BY <2>1, <2>5
    <3> QED
      BY <1>2, <3>1 DEF CallInv, Answered
  <2>6. CASE Answer("stamp", Stamp(question))
    <3>1. given("stamp", Stamp(question)) /\ UNCHANGED <<topic, question>>
      BY <2>1, <2>6
    <3> QED
      BY <1>2, <3>1 DEF CallInv, Answered
  <2>7. CASE Answer("sign", SignAndRead(question))
    <3>1. given("sign", SignAndRead(question)) /\ UNCHANGED <<topic, question>>
      BY <2>1, <2>7
    <3> QED
      BY <1>2, <3>1 DEF CallInv, Answered
  <2>8. CASE Answer("revisions", EnumeratePdfRevisions(question))
    <3>1. given("revisions", EnumeratePdfRevisions(question)) /\ UNCHANGED <<topic, question>>
      BY <2>1, <2>8
    <3> QED
      BY <1>2, <3>1 DEF CallInv, Answered
  <2>9. CASE Answer("scalar", ScalarCall(question))
    <3>1. given("scalar", ScalarCall(question)) /\ UNCHANGED <<topic, question>>
      BY <2>1, <2>9
    <3> QED
      BY <1>2, <3>1 DEF CallInv, Answered
  <2>10. CASE Answer("table", PdfTableFamilyBind(question))
    <3>1. given("table", PdfTableFamilyBind(question)) /\ UNCHANGED <<topic, question>>
      BY <2>1, <2>10
    <3> QED
      BY <1>2, <3>1 DEF CallInv, Answered
  <2>11. CASE UNCHANGED pageVars
    <3>1. topic' = topic /\ question' = question /\ answer' = answer
      BY <2>11 DEF pageVars
    <3>2. CallInv
      BY <1>2
    <3>3. (Answered("ocr page") => answer.is = LoadWordsForPage(question))'
      BY <3>1, <3>2 DEF CallInv, Answered
    <3>4. (Answered("ocr layer") => answer.is = PdfOcrExecute(question))'
      BY <3>1, <3>2 DEF CallInv, Answered
    <3>5. (Answered("redact") => answer.is = PdfRedactExecuteFile(question))'
      BY <3>1, <3>2 DEF CallInv, Answered
    <3>6. (Answered("split") => answer.is = PdfSplitBlankExecute(question))'
      BY <3>1, <3>2 DEF CallInv, Answered
    <3>7. (Answered("stamp") => answer.is = Stamp(question))'
      BY <3>1, <3>2 DEF CallInv, Answered
    <3>8. (Answered("sign") => answer.is = SignAndRead(question))'
      BY <3>1, <3>2 DEF CallInv, Answered
    <3>9. (Answered("revisions") => answer.is = EnumeratePdfRevisions(question))'
      BY <3>1, <3>2 DEF CallInv, Answered
    <3>10. (Answered("scalar") => answer.is = ScalarCall(question))'
      BY <3>1, <3>2 DEF CallInv, Answered
    <3>11. (Answered("table") => answer.is = PdfTableFamilyBind(question))'
      BY <3>1, <3>2 DEF CallInv, Answered
    <3>12. (Answered("structure") => answer.is = ReadStructure(question))'
      BY <3>1, <3>2 DEF CallInv, Answered
    <3> QED
      BY <3>1, <3>2, <3>3, <3>4, <3>5, <3>6, <3>7, <3>8, <3>9, <3>10, <3>11, <3>12 DEF CallInv
  <2>12. CASE Answer("structure", ReadStructure(question))
    <3>1. given("structure", ReadStructure(question)) /\ UNCHANGED <<topic, question>>
      BY <2>1, <2>12
    <3> QED
      BY <1>2, <3>1 DEF CallInv, Answered
  <2> QED
    BY <1>2, <2>2, <2>3, <2>4, <2>5, <2>6, <2>7, <2>8, <2>9, <2>10, <2>11, <2>12 DEF PageNext
<1> QED
  BY <1>1, <1>2, PTL DEF PageSpec

\* On any page, the words of the more confident of two passes are kept where they
\* were read, and never instead of more than nothing; and every page of every call
\* that pdf_ocr writes has its row and, if asked for, one layer of the better pass
\* over what it drew (LoadWordsForPage, PdfOcrExecute, AddTextLayers).
THEOREM BestWordsKept == PageSpec => []KeepsBestWords
<1>1. ASSUME CallInv, Answered("ocr page")
      PROVE  BestWords(question, answer.is)
  BY <1>1, BestPassKept, PageAssumption DEF CallInv, Answered
<1>2. ASSUME CallInv, Answered("ocr layer")
      PROVE  SearchableAsAsked(question, answer.is)
  BY <1>2, LaidAsAsked, PageAssumption DEF CallInv, Answered
<1>3. CallInv => KeepsBestWords
  BY <1>1, <1>2 DEF KeepsBestWords
<1> QED
  BY <1>3, CallsInvariant, PTL

\* What pdf_redact turns black is what its boxes cover, on every page of every call
\* that writes: no pixel more and no pixel less, whatever the CropBox, the rotation
\* and the raster, and every box has one (RenderRedactedPage, PdfRedactExecuteFile).
THEOREM BoxesAreCovered == PageSpec => []CoversBoxes
<1>1. ASSUME CallInv, Answered("redact")
      PROVE  BlackAsBoxed(question, answer.is)
  BY <1>1, BlackWhereBoxed, PageAssumption DEF CallInv, Answered
<1>2. CallInv => CoversBoxes
  BY <1>1 DEF CoversBoxes
<1> QED
  BY <1>2, CallsInvariant, PTL

\* In the output of a call that redacts there is no object, nor any group of objects
\* that refer to each other, that only redacted pages, the catalog and the annotations,
\* actions and private data of other pages lead to, for documents of any shape; what
\* another page names as its content, its whole resources included, is there with all
\* it refers to (RebuildPagesAsImages).
THEOREM OnlyOthersAreKept == PageSpec => []OnlyOthersRemain
<1>1. ASSUME CallInv, Answered("redact")
      PROVE  LeavesNothing(question, answer.is) /\ KeepsOtherPages(question, answer.is)
  BY <1>1, OthersRemain, PageAssumption DEF CallInv, Answered
<1>2. CallInv => OnlyOthersRemain
  BY <1>1 DEF OnlyOthersRemain
<1> QED
  BY <1>2, CallsInvariant, PTL

\* Every page with content is in exactly one document of pdf_split, no separator is in
\* any, and documents are in page order and as long as they can be, for pages of any
\* number and look and any threshold (PdfSplitBlankExecute).
THEOREM PagesAreInRuns == PageSpec => []RunsOfContent
<1>1. ASSUME CallInv, Answered("split")
      PROVE  ContentInRuns(question, answer.is)
  BY <1>1, ContentIsInRuns, PageAssumption DEF CallInv, Answered
<1>2. CallInv => RunsOfContent
  BY <1>1 DEF RunsOfContent
<1> QED
  BY <1>2, CallsInvariant, PTL

\* Every page is drawn on in a font that was added for it under a key that was free,
\* whichever pages share a dictionary, and Bates numbers count up from any start that
\* leaves room for them (Watermark, Bates, NewKey).
THEOREM PagesAreStamped == PageSpec => []StampsEveryPage
<1>1. ASSUME CallInv, Answered("stamp")
      PROVE  OwnStamps(question, answer.is)
  BY <1>1, EveryPageStamped, PageAssumption DEF CallInv, Answered
<1>2. CallInv => StampsEveryPage
  BY <1>1 DEF StampsEveryPage
<1> QED
  BY <1>2, CallsInvariant, PTL

\* A document that pdf_sign writes is signed as a whole, whatever other ranges and holes
\* it has; a later reading tells growth from change (SignDetached, ReadSignatures).
THEOREM FileIsSigned == PageSpec => []SignsWholeFile
<1>1. ASSUME CallInv, Answered("sign")
      PROVE  SignedWhole(question, answer.is)
  BY <1>1, WholeFileSigned, PageAssumption DEF CallInv, Answered
<1>2. CallInv => SignsWholeFile
  BY <1>1 DEF SignsWholeFile
<1> QED
  BY <1>2, CallsInvariant, PTL

\* The rows of pdf_revisions are the links of one /Prev chain, each offset once, from
\* the section the file names last to where /Prev ends, whatever circles, repeated and
\* dangling offsets the file has; in a file that only grew every update is a row
\* (EnumeratePdfRevisions).
THEOREM RevisionsAreFollowed == PageSpec => []RevisionsFollowPrev
<1>1. ASSUME CallInv, Answered("revisions")
      PROVE  FollowsPrev(question, answer.is) /\ CountsUpdates(question, answer.is)
  BY <1>1, PrevIsFollowed, UpdatesCounted, PageAssumption DEF CallInv, Answered
<1>2. CallInv => RevisionsFollowPrev
  BY <1>1 DEF RevisionsFollowPrev
<1> QED
  BY <1>2, CallsInvariant, PTL

\* pdf_structure lists every element of the tree once, after its parent and as deep as
\* its links go, in document order, whatever circles and shared elements the tree has,
\* and turns every tag into the standard one its role map leads to, circles included
\* (CollectStructureChildren, StructureRole, ReadStructure).
THEOREM TreesAreListed == PageSpec => []StructureListsTree
<1>1. ASSUME CallInv, Answered("structure")
      PROVE  ListsTree(question, answer.is) /\ MapsRoles(question, answer.is)
  BY <1>1, TreeIsListed, PageAssumption DEF CallInv, Answered
<1>2. CallInv => StructureListsTree
  BY <1>1 DEF StructureListsTree
<1> QED
  BY <1>2, CallsInvariant, PTL

\* For chunks of any number of rows and options of any value, what takes effect is an
\* operation to which each of the row's options is passed, and nothing does after an
\* error or, where files are written, with a denied path in the chunk; a table function
\* binds the variant that was asked for, and the scan of it looks at each option that
\* was given except parse_tables outside the page grain, ocr_endpoint, and the password
\* of pdf_revisions, which are accepted (ScalarCall, PdfTableFamilyBind).
THEOREM EveryOptionIsRead == PageSpec => []OptionsAreRead
<1>1. ASSUME CallInv, Answered("scalar")
      PROVE  OptionsTakeEffect(question, answer.is)
  BY <1>1, ChunkTakesEffect, PageAssumption DEF CallInv, Answered
<1>2. ASSUME CallInv, Answered("table")
      PROVE  VariantAsAsked(question, answer.is)
  BY <1>2, TableAsAsked, PageAssumption DEF CallInv, Answered
<1>3. CallInv => OptionsAreRead
  BY <1>1, <1>2 DEF OptionsAreRead
<1> QED
  BY <1>3, CallsInvariant, PTL
=============================================================================
