--------------------------- MODULE MCStagedOutput ---------------------------
(* Small instances of StagedOutput: calls that share inputs, destinations  *)
(* and a hard-linked alias.                                                *)
EXTENDS StagedOutput, TLC

CONSTANTS a, b, c, d, e, p1, p2, two, one, other_a,
  ocr, chain, author, split, blank, merge, redact, images, alias, link

\* Every path is its own spelling; other_a is another spelling of a.
Spellings == [p \in Paths |-> p] @@ other_a :> a
SuffixSymmetry == Permutations(Suffixes)
Pages == two :> 2 @@ one :> 1

\* pdf_ocr of a into b, while pdf_pages with rotate replaces a, and COPY writes b.
OcrKind == ocr :> "ocr" @@ chain :> "chain" @@ author :> "author"
OcrIn == ocr :> <<a>> @@ chain :> <<c>> @@ author :> <<>>
OcrOut == ocr :> <<b>> @@ chain :> <<a>> @@ author :> <<b>>
OcrLinks == a :> two @@ b :> NoInode @@ c :> one
OcrOverlaps == {{ocr, chain, author}}

\* pdf_split_blank of a while pdf_merge of its second part and c replaces a;
\* pdf_split of a into its hard link p1 and d, pdf_write_page_images of c into d
\* and b, and pdf_pages over c;
\* pdf_redact of a, which pdf_merge replaces, and rewrites from a into another
\* spelling of a and from e into its hard link p1.
PartsOverlaps == {{blank, merge}, {split, images, chain}, {redact, merge, alias, link}}
PartsKind == blank :> "blank" @@ merge :> "rewrite" @@ split :> "split"
  @@ images :> "images" @@ chain :> "extract" @@ redact :> "redact" @@ alias :> "rewrite"
  @@ link :> "rewrite"
PartsIn == blank :> <<a>> @@ merge :> <<c, p2>> @@ split :> <<a>>
  @@ images :> <<c>> @@ chain :> <<a>> @@ redact :> <<a>> @@ alias :> <<a>> @@ link :> <<e>>
PartsOut == blank :> <<d, p2>> @@ merge :> <<a>> @@ split :> <<p1, d>>
  @@ images :> <<d, b>> @@ chain :> <<c>> @@ redact :> <<p2>> @@ alias :> <<other_a>>
  @@ link :> <<p1>>
PartsLinks == a :> two @@ b :> NoInode @@ c :> one @@ d :> NoInode @@ e :> two @@ p1 :> two @@ p2 :> one
=============================================================================
