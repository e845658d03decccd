----------------------------- MODULE TextLayers -----------------------------
(***************************************************************************)
(* pdf_ocr on one document: which pages get a layer of recognised text,    *)
(* the row each page gets, and how the layers are laid over the pages.     *)
(*                                                                         *)
(* A page has a number of words with glyphs, the two passes of OcrPage,    *)
(* and the XObjects of its resources, by name. A layer is the pass it was  *)
(* rendered from; Tesseract may return one of more than one sheet. Native  *)
(* words stand for the text of the page too: both have glyphs or neither.  *)
(***************************************************************************)
EXTENDS OcrPage, FiniteSets, FiniteSetsExt

Selected(call, i) == i >= call.first /\ (call.last < 0 \/ i <= call.last)
HadText(page) == page.native > 0
Layered(call, i) == Selected(call, i) /\ (~HadText(call.pages[i]) \/ call.force)

\* RenderOcrLayer throws on a page that cannot be drawn or recognised.
Layers(call) ==
  [i \in DOMAIN call.pages |-> IF Layered(call, i) THEN <<Kept(call.pages[i])>> ELSE <<>>]
PdfOcrRows(call) ==
  [i \in DOMAIN call.pages |->
     LET page == call.pages[i]
         plain == [page |-> i, hadText |-> HadText(page), applied |-> FALSE,
                   words |-> page.native, confidence |-> {}]
     IN IF ~Layered(call, i) THEN plain
        ELSE [plain EXCEPT !.applied = TRUE, !.words = Kept(page).count,
                           !.confidence = {Kept(page).confidence}]]

\* Mutant: every layer takes the first name.
FirstName(xobjects) == 0
\* getUniqueResourceName: /PdfOCR0, /PdfOCR1, ... are the names 0, 1, ...
UniqueName(xobjects) == Min({k \in 0..Cardinality(DOMAIN xobjects) : k \notin DOMAIN xobjects})

\* The resources are copied to the page before the layer enters them; its old
\* content is put between q and Q.
LayOver(page, layer) ==
  LET name == UniqueName(page.xobjects)
  IN [xobjects |-> [n \in DOMAIN page.xobjects \cup {name} |-> IF n = name THEN layer ELSE page.xobjects[n]],
      content |-> <<<<"q">>>> \o page.content \o <<<<"Q">>, <<"Do", name>>>>]

AddTextLayers(pages, layers) ==
  [i \in DOMAIN pages |->
     IF layers[i] = <<>> THEN [xobjects |-> pages[i].xobjects, content |-> pages[i].content]
     ELSE LayOver(pages[i], layers[i][1])]

PdfOcrExecute(call) ==
  LET layers == Layers(call)
      unreadable == \E i \in DOMAIN call.pages : ~call.pages[i].readable
      failing == \E i \in DOMAIN call.pages :
                   Layered(call, i) /\ \E pass \in Ran(call.pages[i]) : pass.fails
      torn == \E i \in DOMAIN call.pages : layers[i] # <<>> /\ layers[i][1].sheets # 1
  IN IF unreadable \/ failing \/ torn THEN [written |-> FALSE]
     ELSE [written |-> TRUE, rows |-> PdfOcrRows(call), pages |-> AddTextLayers(call.pages, layers)]

-----------------------------------------------------------------------------
Drawn(page) ==
  {page.xobjects[page.content[k][2]] : k \in {j \in DOMAIN page.content : page.content[j][1] = "Do"}}

\* Every page has its row; a page in the range without text, or with force, and no
\* other, is drawn with one layer of its own, from a pass no less confident than any
\* that ran; its row counts the words of that layer; and what the page drew before
\* is drawn as before. Nothing is written only when a page is unreadable or when one
\* that was asked for cannot be recognised.
SearchableAsAsked(call, answer) ==
  IF ~answer.written
  THEN \E i \in DOMAIN call.pages :
         LET page == call.pages[i]
         IN \/ ~page.readable
            \/ /\ i >= call.first /\ (call.last = -1 \/ i <= call.last) /\ (page.native = 0 \/ call.force)
               /\ \E pass \in {page.first, page.second} : pass.fails \/ pass.sheets > 1
  ELSE
    /\ Len(answer.rows) = Len(call.pages)
    /\ \A i \in DOMAIN call.pages :
         LET page == call.pages[i]
             new == answer.pages[i]
             row == answer.rows[i]
             asked == i >= call.first /\ (call.last = -1 \/ i <= call.last) /\ (page.native = 0 \/ call.force)
             drawn == Drawn(new)
             before == Drawn(page)
             layers == drawn \ before
         IN /\ row.page = i
            /\ \A name \in DOMAIN page.xobjects : new.xobjects[name] = page.xobjects[name]
            /\ before \subseteq drawn
            /\ row.applied = asked
            /\ ~asked => layers = {} /\ row.words = page.native /\ row.confidence = {}
            /\ asked => \E pass \in {page.first, page.second} :
                 /\ layers = {pass} /\ ~pass.fails
                 /\ pass.confidence >= page.first.confidence
                 /\ page.retry /\ page.dpi < HighDpi /\ page.first.confidence < LowConfidence
                      => pass.confidence >= page.second.confidence
                 /\ row.words = pass.count /\ row.confidence = {pass.confidence}
=============================================================================
