------------------------------- MODULE Stamps -------------------------------
(***************************************************************************)
(* Watermark and Bates: a drawing on top of every page, in a font added to *)
(* the resources of the page under a key of its own.                       *)
(*                                                                         *)
(* A page names a /Font dictionary, which several pages may share, or has  *)
(* none. Geometry is left out; numbers are of two's complement, and        *)
(* MaxNumber is the greatest of them.                                      *)
(***************************************************************************)
EXTENDS Integers, Sequences, FiniteSets, FiniteSetsExt

CONSTANT MaxNumber    (* of a page number: 2^63 - 1 *)

MinNumber == -MaxNumber - 1

\* Mutant: the number of fonts is taken for a new key.
CountedKey(fonts) == Cardinality(DOMAIN fonts)

\* Keys of a font dictionary are /F-wm, /F-wm1, ...: Key(0), Key(1), ...
\* original fonts are fonts of the document, a stamp adds "Helvetica" for a page.
NewKey(fonts) == Min({k \in 0..Cardinality(DOMAIN fonts) : k \notin DOMAIN fonts})

\* A page without a font dictionary gets one of its own.
AddHelvetica(doc, page) ==
  LET d == doc.pages[page]
      key == NewKey(doc.fonts[d])
  IN [fonts |-> [doc.fonts EXCEPT ![d] = [k \in DOMAIN @ \cup {key} |-> IF k = key THEN page ELSE @[k]]],
      key |-> key]

\* Overflow of a signed number is undefined; the builds wrap around.
Increment(number) == IF number = MaxNumber THEN MinNumber ELSE number + 1

\* The label: a sign and a magnitude that fits an unsigned number of the same width.
Label(number) ==
  [minus |-> number < 0,
   magnitude |-> IF number < 0 THEN (-(number + 1)) + 1 ELSE number]

\* One page of the loop: q is put before its content, then Q and the drawing after it.
StampPage(state, page, labelled) ==
  LET added == AddHelvetica(state.doc, page)
      drawing == [key |-> added.key, label |-> IF labelled THEN Label(state.number) ELSE Label(0)]
  IN [doc |-> [pages |-> state.doc.pages, fonts |-> added.fonts,
               content |-> [state.doc.content EXCEPT ![page] = <<"q">> \o @ \o <<"Q", "drawing">>]],
      number |-> IF labelled THEN Increment(state.number) ELSE state.number,
      drawn |-> Append(state.drawn, drawing)]

\* The loop over the pages: what there is after p of them.
Stamped(job) ==
  LET state[p \in 0..Len(job.doc.pages)] ==
        IF p = 0 THEN [doc |-> job.doc, number |-> job.start, drawn |-> <<>>]
        ELSE StampPage(state[p - 1], p, job.bates)
  IN state

Stamp(job) == Stamped(job)[Len(job.doc.pages)]

-----------------------------------------------------------------------------
Value(label) == IF label.minus THEN -label.magnitude ELSE label.magnitude

\* Every page shows its own stamp: the key it draws with names the Helvetica that
\* was added for it, fonts of the document keep their keys, the drawing comes after
\* a saved and restored state, and as long as the numbers of the pages fit, page k
\* shows the start plus k - 1.
OwnStamps(job, answer) ==
  /\ Len(answer.drawn) = Len(job.doc.pages)
  /\ \A p \in DOMAIN job.doc.pages :
       LET before == job.doc.fonts[job.doc.pages[p]]
           after == answer.doc.fonts[answer.doc.pages[p]]
       IN /\ after[answer.drawn[p].key] = p
          /\ \A k \in DOMAIN before : after[k] = before[k]
          /\ answer.doc.content[p] = <<"q">> \o job.doc.content[p] \o <<"Q", "drawing">>
  /\ job.bates /\ job.start + Len(job.doc.pages) - 1 <= MaxNumber =>
       \A p \in DOMAIN job.doc.pages : Value(answer.drawn[p].label) = job.start + p - 1
=============================================================================
