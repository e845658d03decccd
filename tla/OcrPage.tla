------------------------------- MODULE OcrPage -------------------------------
(***************************************************************************)
(* The words of one page: the choice between the text the page carries and *)
(* text recognition, and the second pass at twice the resolution.          *)
(*                                                                         *)
(* A page has native words or none; dpi, a raster height in points and the *)
(* result of recognising it belong to each of two passes. A pass gives     *)
(* words with a distance from the top of its raster, or fails.             *)
(***************************************************************************)
EXTENDS Integers, Sequences

CONSTANTS
  LowConfidence,   (* 55  *)
  HighDpi          (* 400 *)

Second(page) == page.retry /\ page.first.confidence < LowConfidence /\ page.dpi < HighDpi

\* The second pass is kept when it is strictly more confident.
Ran(page) == {page.first} \cup (IF Second(page) THEN {page.second} ELSE {})
Kept(page) ==
  IF Second(page) /\ page.second.confidence > page.first.confidence THEN page.second ELSE page.first

\* y is measured from the bottom of the raster that was recognised.
Flipped(pass) == [i \in DOMAIN pass.words |-> [pass.words[i] EXCEPT !.y = pass.height - @]]

\* Mutant: words of the second pass are placed on the raster of the first.
OneRaster(page, bestEffort) ==
  IF ~bestEffort /\ \E pass \in Ran(page) : pass.fails
    THEN [outcome |-> "throws", words |-> <<>>]
    ELSE [outcome |-> "recognised", words |-> Flipped([Kept(page) EXCEPT !.height = page.first.height])]

\* A pass that fails throws, unless a best effort is enough: then it has no words
\* and no confidence.
OcrPageWords(page, bestEffort) ==
  IF ~bestEffort /\ \E pass \in Ran(page) : pass.fails
    THEN [outcome |-> "throws", words |-> <<>>]
    ELSE [outcome |-> "recognised", words |-> Flipped(Kept(page))]

\* read_pdf_words and read_pdf_elements make the same choice.
LoadWordsForPage(page) ==
  LET native == [outcome |-> "native", words |-> page.native]
      ocr == OcrPageWords(page, ~page.force \/ page.native # <<>>)
  IN IF ~page.force /\ (page.native # <<>> \/ ~page.auto) THEN native
     ELSE IF ocr.outcome = "recognised" /\ ocr.words = <<>> THEN native ELSE ocr

-----------------------------------------------------------------------------
\* A recognition that fails or finds nothing never costs the text a page carries,
\* and is an error only where recognition was asked for and there is no such text.
\* Recognised words are those of one pass, placed on the raster of that same pass,
\* and no pass that ran was more confident.
BestWords(page, answer) ==
  LET ran == {page.first} \cup
               (IF page.retry /\ page.first.confidence < LowConfidence /\ page.dpi < HighDpi
                  THEN {page.second} ELSE {})
  IN /\ answer.outcome = "throws" => page.force /\ page.native = <<>>
     /\ page.native # <<>> => answer.words # <<>>
     /\ answer.outcome = "native" => answer.words = page.native
     /\ answer.outcome = "recognised" =>
          \E pass \in ran :
            /\ \A other \in ran : other.confidence <= pass.confidence
            /\ Len(answer.words) = Len(pass.words)
            /\ \A i \in DOMAIN pass.words :
                 /\ answer.words[i].text = pass.words[i].text
                 /\ answer.words[i].y + pass.words[i].y = pass.height
=============================================================================
