------------------------------ MODULE Redaction ------------------------------
(***************************************************************************)
(* pdf_redact: which boxes are accepted, which pixels of a drawn page they *)
(* turn black, and what of the original document is left in the output.    *)
(*                                                                         *)
(* Lengths are integers and quotients exact: the rounding of doubles at    *)
(* the border of a pixel is not modelled. A page has a CropBox, a rotation *)
(* and a raster of W by H pixels, drawn upright.                           *)
(*                                                                         *)
(* A document is a graph. An entry [from, key, to] is a reference that     *)
(* stands under a key of a dictionary. Node 0 is the trailer, with the     *)
(* catalog and the page tree; 1 to n are the pages; other nodes are        *)
(* objects. What a page inherits is an entry of its own, and what the      *)
(* content of a page draws, by names in its resources, is job.draws.       *)
(***************************************************************************)
EXTENDS Integers, Sequences, FiniteSets

\* max and min of two numbers (std::max, std::min).
Larger(a, b) == IF a > b THEN a ELSE b
Smaller(a, b) == IF a < b THEN a ELSE b

\* A fraction num / den of den > 0, clamped to 0..hi and rounded.
Clamp(v, hi) == Larger(0, Smaller(hi, v))
Floor(q, hi) == Clamp(q.num \div q.den, hi)
Ceil(q, hi) == Clamp(-((-q.num) \div q.den), hi)
Lower(p, q) == IF q.num * p.den < p.num * q.den THEN q ELSE p
Upper(p, q) == IF q.num * p.den > p.num * q.den THEN q ELSE p

ParseRedactBoxes(boxes) == \A i \in DOMAIN boxes : boxes[i].page >= 1 /\ boxes[i].w > 0 /\ boxes[i].h > 0

\* Mutant: the two quarter turns are taken for each other.
ProjectTurned(page, x, y) ==
  LET cw == page.x1 - page.x0
      ch == page.y1 - page.y0
      dx == x - page.x0
      dy == y - page.y0
      at(px, w, py, h) == [x |-> [num |-> px * page.W, den |-> w], y |-> [num |-> py * page.H, den |-> h]]
  IN CASE page.rotation = 270 -> at(dy, ch, dx, cw)
       [] page.rotation = 180 -> at(cw - dx, cw, dy, ch)
       [] page.rotation = 90 -> at(ch - dy, ch, cw - dx, cw)
       [] page.rotation = 0 -> at(dx, cw, ch - dy, ch)

\* A corner in user space, through CropBox and rotation, in pixels.
Project(page, x, y) ==
  LET cw == page.x1 - page.x0
      ch == page.y1 - page.y0
      dx == x - page.x0
      dy == y - page.y0
      at(px, w, py, h) == [x |-> [num |-> px * page.W, den |-> w], y |-> [num |-> py * page.H, den |-> h]]
  IN CASE page.rotation = 90 -> at(dy, ch, dx, cw)
       [] page.rotation = 180 -> at(cw - dx, cw, dy, ch)
       [] page.rotation = 270 -> at(ch - dy, ch, cw - dx, cw)
       [] page.rotation = 0 -> at(dx, cw, ch - dy, ch)

\* The rectangle of pixels of a box: from px0 up to px1, from ry0 up to ry1.
PixelRect(page, box) ==
  LET a == Project(page, box.x, box.y)
      b == Project(page, box.x + box.w, box.y + box.h)
  IN [px0 |-> Floor(Lower(a.x, b.x), page.W), px1 |-> Ceil(Upper(a.x, b.x), page.W),
      ry0 |-> Floor(Lower(a.y, b.y), page.H), ry1 |-> Ceil(Upper(a.y, b.y), page.H)]
Outside(rect) == rect.px0 >= rect.px1 \/ rect.ry0 >= rect.ry1
Blackened(rect) == (rect.px0 .. (rect.px1 - 1)) \X (rect.ry0 .. (rect.ry1 - 1))

BoxesOf(job, p) == {i \in DOMAIN job.boxes : job.boxes[i].page = p}
RedactedPages(job) == {p \in DOMAIN job.pages : BoxesOf(job, p) # {}}

\* The pixels RenderRedactedPage turns black.
RenderRedactedPage(job, p) ==
  UNION {Blackened(PixelRect(job.pages[p], job.boxes[i])) : i \in BoxesOf(job, p)}

\* What an entry leads to besides the pages and what node 0 stands for.
ObjectsOf(job) == {e.to : e \in job.entries} \ (0 .. Len(job.pages))

\* A copy takes along what the copied objects refer to, but neither another page nor
\* the page tree: the least set that holds the roots and the references of its own.
CopyForeign(job, roots) ==
  LET closed(S) ==
        /\ roots \subseteq S
        /\ \A e \in job.entries : e.from \in S /\ e.to \in ObjectsOf(job) => e.to \in S
      whole == {S \in SUBSET ObjectsOf(job) : closed(S)}
  IN {x \in ObjectsOf(job) : \A S \in whole : x \in S}

\* Mutant: the pages without boxes keep their annotations.
DroppedButAnnots == {"AA", "Metadata", "PieceInfo", "StructParents", "Thumb", "B"}

DroppedEverywhere == {"Annots", "AA", "Metadata", "PieceInfo", "StructParents", "Thumb", "B"}

\* Mutant: the catalog of the original is kept.
RebuildInPlace(job) ==
  LET redacted == RedactedPages(job)
      kept(e) == e.from \in (0 .. Len(job.pages)) \ redacted /\ e.key \notin DroppedEverywhere
      roots == {e.to : e \in {x \in job.entries : kept(x)}}
  IN CopyForeign(job, roots \cap ObjectsOf(job))

\* The objects of the original that are in the output. A redacted page keeps its
\* place, and of its entries none; the other pages lose some of theirs and are
\* copied, resources and all, into a document with a new catalog. The document is
\* written as it is when no page is redacted.
RebuildPagesAsImages(job) ==
  LET redacted == RedactedPages(job)
      kept(e) == e.from \in DOMAIN job.pages \ redacted /\ e.key \notin DroppedEverywhere
      roots == {e.to : e \in {x \in job.entries :
                                IF redacted = {} THEN x.from \in 0 .. Len(job.pages) ELSE kept(x)}}
  IN CopyForeign(job, roots \cap ObjectsOf(job))

PdfRedactExecuteFile(job) ==
  IF \/ ~ParseRedactBoxes(job.boxes)
     \/ \E i \in DOMAIN job.boxes : job.boxes[i].page > Len(job.pages)
     \/ \E i \in DOMAIN job.boxes : Outside(PixelRect(job.pages[job.boxes[i].page], job.boxes[i]))
    THEN [outcome |-> "throws", black |-> <<>>, objects |-> {}, rows |-> <<>>]
    ELSE [outcome |-> "written",
          black |-> [p \in DOMAIN job.pages |-> RenderRedactedPage(job, p)],
          objects |-> RebuildPagesAsImages(job),
          rows |-> [p \in DOMAIN job.pages |->
                      [redacted |-> p \in RedactedPages(job), boxes |-> Cardinality(BoxesOf(job, p))]]]

-----------------------------------------------------------------------------
\* Where pixel <<px, py>> of the raster lies in user space, as an open rectangle in
\* units of 1 / (W * H): the inverse of the way a viewer turns the page upright.
PixelArea(page, px, py) ==
  LET W == page.W
      H == page.H
      cw == page.x1 - page.x0
      ch == page.y1 - page.y0
      \* fractions of the upright image: u to the right, v downwards
      area(xlo, xhi, ylo, yhi) ==
        [x0 |-> page.x0 * W * H + cw * xlo, x1 |-> page.x0 * W * H + cw * xhi,
         y0 |-> page.y0 * W * H + ch * ylo, y1 |-> page.y0 * W * H + ch * yhi]
      u0 == px * H
      u1 == (px + 1) * H
      v0 == py * W
      v1 == (py + 1) * W
      one == W * H
  IN CASE page.rotation = 0 -> area(u0, u1, one - v1, one - v0)
       [] page.rotation = 90 -> area(v0, v1, u0, u1)
       [] page.rotation = 180 -> area(one - u1, one - u0, v0, v1)
       [] page.rotation = 270 -> area(one - v1, one - v0, one - u1, one - u0)

Touches(page, box, px, py) ==
  LET a == PixelArea(page, px, py)
      one == page.W * page.H
  IN /\ box.x * one < a.x1 /\ a.x0 < (box.x + box.w) * one
     /\ box.y * one < a.y1 /\ a.y0 < (box.y + box.h) * one

\* A written output has black pixels exactly where a box of the page covers some
\* of the pixel, whatever the CropBox and the rotation; every box took effect, and
\* the row of a page counts its boxes.
BlackAsBoxed(job, answer) ==
  answer.outcome = "written" =>
    /\ \A p \in DOMAIN job.pages :
         LET page == job.pages[p]
         IN answer.black[p] =
              {c \in (0 .. (page.W - 1)) \X (0 .. (page.H - 1)) :
                 \E i \in BoxesOf(job, p) : Touches(page, job.boxes[i], c[1], c[2])}
    /\ \A i \in DOMAIN job.boxes :
         /\ job.boxes[i].page \in DOMAIN job.pages
         /\ \E c \in answer.black[job.boxes[i].page] :
              Touches(job.pages[job.boxes[i].page], job.boxes[i], c[1], c[2])
    /\ \A p \in DOMAIN job.pages :
         answer.rows[p].redacted = (answer.rows[p].boxes > 0) /\ (answer.rows[p].redacted <=> answer.black[p] # {})

\* Entries of a page that are no part of its content: annotations and actions, which
\* the document says are removed, and private data.
Interactive == {"Annots", "AA"}
PrivateData == {"Metadata", "PieceInfo", "StructParents", "Thumb", "B"}
Aside(job, e) == e.from \in DOMAIN job.pages /\ e.key \in Interactive \cup PrivateData

\* Objects that hang together on their own: only redacted pages, the catalog and what
\* stands aside from the content of the other pages leads to them.
OnlyRedacted(job, S) ==
  \A e \in job.entries :
    e.to \in S => e.from \in S \/ e.from \in RedactedPages(job) \/ e.from = 0 \/ Aside(job, e)

\* Once a page is redacted, no such object is in the output, however it is tied to
\* others of its kind.
LeavesNothing(job, answer) ==
  answer.outcome = "written" /\ RedactedPages(job) # {} =>
    \A S \in SUBSET ObjectsOf(job) : OnlyRedacted(job, S) => S \cap answer.objects = {}

\* A page without boxes keeps what it names as its content, and every object that is
\* kept is kept with all that it refers to; with no box at all nothing is lost.
KeepsOtherPages(job, answer) ==
  answer.outcome = "written" =>
    \A e \in job.entries :
      /\ e.to \in ObjectsOf(job)
      /\ \/ e.from \in answer.objects
         \/ e.from \in DOMAIN job.pages \ RedactedPages(job) /\ ~Aside(job, e)
         \/ RedactedPages(job) = {} /\ e.from \in 0 .. Len(job.pages)
      => e.to \in answer.objects

\* What only redacted pages draw is not in the output.
DestroysDrawn(job, answer) ==
  answer.outcome = "written" =>
    \A p \in RedactedPages(job) : \A x \in job.draws[p] :
      (\A q \in DOMAIN job.pages \ RedactedPages(job) : x \notin job.draws[q]) => x \notin answer.objects
=============================================================================
