----------------------------- MODULE MCChunking -----------------------------
(* A small instance of Chunking: up to four elements over two pages.       *)
EXTENDS Chunking

Word == <<"a", "a">>
Phrase == <<"a", "a", " ", "a">>
Sentence == <<"a", " ", "a", "a", " ", "a", "a">>
Foreign == <<"a", "lead", "cont", "lead", "cont", "cont", "a">>
Wide == <<"lead", "cont", "cont", "cont">>

Prose == {[heading |-> FALSE, text |-> t] : t \in {Word, Phrase, Sentence, Foreign}}
Titles == {[heading |-> TRUE, text |-> t] : t \in {Word, Phrase, Sentence}}

OnPages(s, turn) ==
  [i \in DOMAIN s |-> [heading |-> s[i].heading, text |-> s[i].text,
                       page |-> IF i <= turn THEN 1 ELSE 2]]
Documents ==
  {OnPages(s, turn) : s \in UNION {[1..n -> Prose \cup Titles] : n \in 0..3}, turn \in {1, 3}}
  \cup {OnPages(s, 2) : s \in [1..4 -> {[heading |-> FALSE, text |-> t] : t \in {Word, Phrase}}
                                        \cup {[heading |-> TRUE, text |-> Word]}]}
  \cup {<<[heading |-> h, page |-> 1, text |-> Wide]>> : h \in BOOLEAN}
Sizes == {<<4, 2>>, <<5, 0>>, <<2, 1>>, <<8, 3>>}

\* Elements that need no cut.
Titled == {OnPages(s, 2) : s \in [1..3 -> {[heading |-> h, text |-> Phrase] : h \in BOOLEAN}]}
Roomy == {<<10, 3>>}
=============================================================================
