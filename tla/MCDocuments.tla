----------------------------- MODULE MCDocuments -----------------------------
(***************************************************************************)
(* The algorithms on documents, checked against what they promise over     *)
(* bounded inputs: one topic per module. Two of them, Chunking and CopyTo, *)
(* take many steps; the others answer a question in one.                   *)
(***************************************************************************)
EXTENDS MCChunking, PageCalls, CopyTo, TLC

-----------------------------------------------------------------------------
(* Revisions: files of up to three sections of four tokens.                *)

Piece(kind, value) == [kind |-> kind, value |-> value, glued |-> FALSE]
Defects == {"whole", "glued", "cut"}
Section4(kind, prev, at, defect) ==
  <<Piece(kind, prev), [Piece("startxref", 0) EXCEPT !.glued = defect = "glued"], Piece("number", at),
    Piece(IF defect = "cut" THEN "other" ELSE "eof", 0)>>
Tables(offsets, defects) == {Section4("table", v, a, d) : v \in offsets \cup {-1}, a \in offsets, d \in defects}
OneSection ==
  Tables({0, 4}, Defects) \cup {Section4("object", v, a, d) : v \in {-1, 4}, a \in {0, 4}, d \in {"whole", "cut"}}
  \cup {Section4("stream", v, a, "whole") : v \in {-1, 0}, a \in {0, 4}}
Histories ==
  {<<>>} \cup OneSection \cup {s \o t : s, t \in OneSection}
  \cup {s \o t \o u : s, t, u \in Tables({0, 4, 8}, {"whole"})}
  \cup {s \o t \o u : s, u \in Tables({0, 4}, {"whole"}), t \in Tables({0}, Defects)}

(* Structure trees: three objects that refer to each other, chains of five. *)

Object(is, kids, page, tag) == [is |-> is, kids |-> kids, page |-> page, tag |-> tag]
Objects(lists, page) ==
  {Object(is, k, 0, "P") : is \in {"content", "null"}, k \in {<<>>}}
  \cup {Object("array", k, 0, "P") : k \in lists} \cup {Object("element", k, page, "P") : k \in lists}
Lists(n) == UNION {[1..m -> 1..3] : m \in 0..n}
Circle == "A" :> "B" @@ "B" :> "A"
Graphs ==
  {[objects |-> <<a, b, c>>, key |-> k, roleMap |-> Circle] :
     a \in Objects(Lists(2), 0), b \in Objects(Lists(2), 2), c \in Objects(Lists(2), 0), k \in {<<1>>, <<1, 2>>}}
Chain(i) == Objects({<<>>, <<i + 1>>}, i) \ {Object("null", <<>>, 0, "P")}
Chains ==
  {[objects |-> <<a, b, c, d, e>>, key |-> <<1>>, roleMap |-> Circle] :
     a \in Chain(1), b \in Chain(2), c \in Chain(3), d \in Chain(4), e \in Objects({<<>>}, 0)}
Tagged ==
  {[objects |-> <<Object("element", <<>>, 1, t)>>, key |-> <<1>>,
    roleMap |-> "A" :> a @@ "B" :> b @@ "C" :> c] :
     t \in {"A", "B", "P"}, a, b, c \in {"A", "B", "C", "P", "none"}}
Nested == Graphs \cup Chains \cup Tagged

(* Pages between documents.                                                *)

Leaf == [readable |-> TRUE, glyphs |-> FALSE, drawn |-> TRUE, pixels |-> 4, white |-> 4]
Faces ==
  {Leaf, [Leaf EXCEPT !.readable = FALSE], [Leaf EXCEPT !.glyphs = TRUE], [Leaf EXCEPT !.drawn = FALSE],
   [Leaf EXCEPT !.pixels = 0, !.white = 0], [Leaf EXCEPT !.white = 3], [Leaf EXCEPT !.white = 2]}
Stacks ==
  {[pages |-> p, threshold |-> h] : p \in UNION {[1..n -> Faces] : n \in 0..4}, h \in {75, 100}}

(* Two passes of recognition over one page.                                *)

Pass(height, confidence, words) ==
  [fails |-> FALSE, confidence |-> confidence, height |-> height, words |-> words]
Passes(height) ==
  {Pass(height, k, w) : k \in {50, 55, 60}, w \in {<<>>, <<[text |-> "seen", y |-> 3], [text |-> "read", y |-> 1]>>}}
  \cup {[Pass(height, 0, <<>>) EXCEPT !.fails = TRUE]}
Readings ==
  [force : BOOLEAN, auto : BOOLEAN, native : {<<>>, <<[text |-> "typed", y |-> 5]>>}, retry : BOOLEAN,
   dpi : {399, 400}, first : Passes(10), second : Passes(20)]

(* Documents to lay recognised text over: pages that draw a photo.         *)

Trial(confidence, count, sheets) ==
  [fails |-> FALSE, confidence |-> confidence, count |-> count, sheets |-> sheets]
Failed == [Trial(0, 0, 1) EXCEPT !.fails = TRUE]
Photo(names) == [k \in names |-> [photo |-> k]]
Prints(natives, readable, retries, firsts, seconds, names) ==
  {[native |-> n, readable |-> r, retry |-> t, dpi |-> 399, first |-> f, second |-> s, xobjects |-> Photo(x),
    content |-> IF 0 \in x THEN <<<<"Do", 0>>>> ELSE <<>>] :
     n \in natives, r \in readable, t \in retries, f \in firsts, s \in seconds, x \in names}
Alone == Prints({0, 2}, {TRUE}, BOOLEAN, {Trial(50, 3, 1), Trial(60, 4, 1), Failed, Trial(60, 4, 2)},
              {Trial(40, 5, 1), Trial(70, 6, 1), Failed}, {{}, {0}, {1}, {0, 1}})
Together == Prints({0, 2}, {TRUE}, {TRUE}, {Trial(50, 3, 1)}, {Trial(40, 5, 1), Trial(70, 6, 1)}, {{}, {0}})
          \cup Prints({2}, {FALSE}, {TRUE}, {Trial(50, 3, 1)}, {Failed}, {{}})
Overlays ==
  [pages : [1..1 -> Alone] \cup [1..2 -> Together] \cup [1..3 -> Prints({0, 2}, {TRUE}, {TRUE}, {Trial(50, 3, 1)}, {Failed, Trial(70, 6, 1)}, {{0}})],
   first : {0, 1, 2}, last : {-1, 1, 2, 4}, force : BOOLEAN]

(* Redaction: one box anywhere on one page, and graphs of two pages.       *)

Sheet(rotation, scale) ==
  LET upright == rotation \in {0, 180}
  IN [x0 |-> 1, x1 |-> 3, y0 |-> -1, y1 |-> 2, rotation |-> rotation,
      W |-> scale * (IF upright THEN 2 ELSE 3), H |-> IF upright THEN 4 ELSE 3]
Boxes(ps) == [page : ps, x : 0..3, y : {-2, -1, 0, 1, 2}, w : 0..2, h : 1..2]
Small == [page : 0..3, x : {1, 2}, y : {0}, w : {1}, h : {1}]
On(p) == [page |-> p, x |-> 1, y |-> 0, w |-> 1, h |-> 1]
\* Two pages: resources that both may name and a form (4) in them that page 1 draws, a
\* form field (5) with an annotation on each page, and content of page 2 (8).
Entry(from, key, to) == [from |-> from, key |-> key, to |-> to]
Entries ==
  {Entry(1, "Resources", 3), Entry(2, "Resources", 3), Entry(3, "XObject", 4),
   Entry(0, "AcroForm", 5), Entry(1, "Annots", 6), Entry(2, "Annots", 7),
   Entry(7, "Parent", 5), Entry(5, "Kids", 6), Entry(2, "Contents", 8)}
Drawing(entries) == {x \in {4} : {Entry(1, "Resources", 3), Entry(3, "XObject", 4)} \subseteq entries}
Jobs ==
  {[pages |-> <<Sheet(r, s)>>, boxes |-> <<b>>, entries |-> {}, draws |-> <<{}>>] :
     r \in {0, 90, 180, 270}, s \in {1, 2}, b \in Boxes({1})}
  \cup {[pages |-> <<Sheet(0, 1), Sheet(90, 1)>>, boxes |-> b, entries |-> {}, draws |-> <<{}, {}>>] :
          b \in UNION {[1..n -> Small] : n \in 0..2}}
  \cup {[pages |-> <<Sheet(0, 1), Sheet(0, 1)>>, boxes |-> b, entries |-> e, draws |-> <<Drawing(e), {}>>] :
          b \in {<<>>, <<On(1)>>, <<On(2)>>, <<On(1), On(2)>>}, e \in SUBSET Entries}

(* Signing: a placeholder of each kind among other tokens.                 *)

Decoys ==
  {Token("text"), Token("hole"), [Token("range") EXCEPT !.range = Placeholder],
   [Token("range") EXCEPT !.range = Placeholder, !.wide = FALSE]}
Written ==
  {f \in [1..5 -> Decoys \cup {MyRange, MyHole}] :
     \A own \in {MyRange, MyHole} : Cardinality({i \in 1..5 : f[i] = own}) = 1}
Contracts ==
  [file : Written, signedBefore : {FALSE}, fits : {TRUE}, append : 0..1, alter : 0..5]
  \cup [file : {<<MyRange, MyHole>>}, signedBefore : BOOLEAN, fits : BOOLEAN, append : {0}, alter : {0}]

(* Stamps: pages that share two font dictionaries.                         *)

Fonts == {[k \in keys |-> 0] : keys \in SUBSET {0, 1}}
Numbered ==
  {[doc |-> [pages |-> p, fonts |-> <<a, b>>, content |-> [i \in DOMAIN p |-> <<"text">>]], start |-> s, bates |-> l] :
     p \in UNION {[1..n -> 1..2] : n \in 1..3}, a, b \in Fonts, s \in {-8, -2, 0, 5, 6}, l \in BOOLEAN}

-----------------------------------------------------------------------------
(* Options of the scalar functions, and of the table functions.            *)

Maybe(key, values) == {<<>>} \cup {key :> v : v \in values \cup {Null}}
Join(A, D) == {a @@ d : a \in A, d \in D}
Given(function) ==
  CASE function = "pdf_text" ->
         Join(Maybe("format", {"text", "html", "xml", "json", "markdown", "rtf"}),
              Join(Maybe("layout", {"ok"}), Maybe("password", {"ok"})))
    [] function = "pdf_render" -> Join(Maybe("format", {"png", "svg", "gif"}), Maybe("dpi", {"ok"}))
    [] function = "pdf_pages" -> Join(Maybe("rotate", {"ok", "outside"}), Maybe("rotate_pages", {"ok"}))
    [] function = "pdf_stamp" ->
         Join(Maybe("mode", {"watermark", "bates", "seal"}),
              Join(Join(Maybe("text", {"ok"}), Maybe("opacity", {"ok"})),
                   Join(Maybe("prefix", {"ok"}), Maybe("start", {"ok"}))))
    [] function = "pdf_rewrite" ->
         Join(Maybe("mode", {"compress", "encrypt", "decrypt", "repair", "sign"}),
              Join(Maybe("password", {"ok"}), Maybe("owner_password", {"ok"})))
    [] function = "ocr_image" ->
         UNION {Join(Maybe(k, {"ok", "outside"}), Maybe(l, {"ok"})) : k \in {"psm", "format"}, l \in OcrKeys}

WithOptions == {"pdf_text", "pdf_render", "pdf_pages", "pdf_stamp", "pdf_rewrite", "ocr_image"}
Plain(function, opt) ==
  [input |-> "in", second |-> IF function \in {"pdf_text", "ocr_image"} THEN "none" ELSE "out",
   options |-> IF opt = <<>> THEN "absent" ELSE "given", opt |-> opt, blob |-> function = "ocr_image",
   denied |-> FALSE, ranges |-> TRUE]
\* Rows that differ in one thing from a plain one.
Varied(row) ==
  {row, [row EXCEPT !.input = Null], [row EXCEPT !.denied = TRUE], [row EXCEPT !.blob = TRUE],
   [row EXCEPT !.second = IF @ = "none" THEN "none" ELSE Null], [row EXCEPT !.ranges = FALSE],
   [row EXCEPT !.options = Null]}
Usual == ("mode" :> "bates" @@ "prefix" :> "ok" @@ "start" :> "ok")
Chunked ==
  UNION {{[function |-> f, rows |-> <<row>>] : row \in UNION {Varied(Plain(f, o)) : o \in Given(f)}} : f \in WithOptions}
  \cup {[function |-> f, rows |-> <<Plain(f, k :> v)>>] :
          f \in WithOptions, k \in {"pages", "dpi", "text", "password"}, v \in {"ok", "mistyped"}}
  \cup {[function |-> "pdf_stamp", rows |-> <<r, s>>] :
          r, s \in Varied(Plain("pdf_stamp", Usual)) \cup {Plain("pdf_stamp", "mode" :> "bates")}}
  \cup {[function |-> "pdf_to_text", rows |-> <<[Plain("pdf_text", <<>>) EXCEPT !.second = x, !.input = i, !.denied = d]>>] :
          x \in {"none", Null, "ok"}, i \in {"in", Null}, d \in BOOLEAN}

ModesOf(family) == {v.mode : v \in Variants[family]} \cup {"other", Null}
Bound ==
  UNION {{[family |-> f, input |-> i, given |-> m @@ o] :
            i \in {"path", "list"},
            m \in IF Selector[f] = "none" THEN Maybe("output_dir", {"dir"})
                  ELSE {<<>>} \cup {Selector[f] :> x : x \in ModesOf(f)},
            o \in UNION {Maybe(k, {"ok"}) : k \in Advertised(f) \ {Selector[f], "output_dir"}}} : f \in Families}

(* COPY: chunks of one or two rows, lines that wrap, and pages of four.    *)

Long == 10000
Rows == {<<<<Long>>, <<Long, 300>>>>, <<<<>>, <<700>>>>, <<<<19000, LineFeed, 500>>>>, <<<<LineFeed>>>>}
Queries ==
  {<<>>} \cup {<<<<r, s>>, <<t>>, <<<<<<9000>>>>>>>> : r, s, t \in Rows}
Layout == [font_size |-> 7200, page_size |-> "letter", margin |-> 21600, header |-> TRUE, footer |-> TRUE]
Layouts ==
  {Layout, [Layout EXCEPT !.page_size = "a4", !.footer = FALSE],
   [Layout EXCEPT !.margin = 2300], [Layout EXCEPT !.font_size = 7201]}

-----------------------------------------------------------------------------
QuietChunks ==
  /\ input = <<>> /\ size = 1 /\ overlap = 0
  /\ elem = 1 /\ pos = 0 /\ section = 0 /\ units = <<>>
  /\ first = 1 /\ next = 1 /\ curLen = 0 /\ tail = <<>> /\ out = <<>> /\ done = FALSE
QuietCopy ==
  /\ source = <<>> /\ options = Layout /\ copy = "refused"
  /\ taken = 0 /\ holding = [w \in Workers |-> None] /\ buffer = <<>> /\ pages = <<>>

DocumentsInit ==
  \/ topic = "chunks" /\ question = <<>> /\ answer = NoAnswer /\ Init /\ QuietCopy
  \/ topic = "copy" /\ question = <<>> /\ answer = NoAnswer /\ QuietChunks /\ CopyInit
  \/ PageInit /\ QuietChunks /\ QuietCopy

DocumentsNext ==
  \/ topic = "chunks" /\ Next /\ UNCHANGED <<pageVars, copyVars>>
  \/ topic = "copy" /\ CopyNext /\ UNCHANGED <<pageVars, vars>>
  \/ PageNext /\ UNCHANGED <<vars, copyVars>>

DocumentsSpec == DocumentsInit /\ [][DocumentsNext]_<<pageVars, vars, copyVars>>
=============================================================================
