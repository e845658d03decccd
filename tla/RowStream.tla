----------------------------- MODULE RowStream -----------------------------
(***************************************************************************)
(* What every table function of the extension other than read_pdf promises *)
(* the engine: the rows of its answer, each once and in their order, in    *)
(* chunks of at most VectorSize rows, and no end before the last of them   *)
(* has been handed over.                                                   *)
(***************************************************************************)
EXTENDS Integers, Sequences

CONSTANT VectorSize   (* rows a chunk of the engine can hold *)

VARIABLES
  expected,   (* the rows of the answer: pairs in lexicographic order *)
  given,      (* the rows produced so far                             *)
  handed,     (* how many of them the engine has received             *)
  outcome     (* "open", "done" or "failed"                           *)

vars == <<expected, given, handed, outcome>>

Before(a, b) == a[1] < b[1] \/ (a[1] = b[1] /\ a[2] < b[2])
Produced == {given[i] : i \in 1..Len(given)}

Init ==
  /\ given = <<>>
  /\ handed = 0
  /\ outcome = "open"

\* The next row of the answer goes into a chunk that has room for it.
Fill ==
  /\ outcome = "open"
  /\ Len(given) - handed < VectorSize
  /\ \E row \in expected \ Produced :
       /\ \A other \in expected \ Produced : other = row \/ Before(row, other)
       /\ given' = Append(given, row)
  /\ UNCHANGED <<expected, handed, outcome>>

Hand ==
  /\ outcome = "open"
  /\ handed' = Len(given)
  /\ UNCHANGED <<expected, given, outcome>>

\* The engine takes an empty chunk for the end of the answer.
End ==
  /\ outcome = "open"
  /\ handed = Len(given)
  /\ Produced = expected
  /\ outcome' = "done"
  /\ UNCHANGED <<expected, given, handed>>

\* The query ends in an error and not in a short answer.
Fail ==
  /\ outcome = "open"
  /\ outcome' = "failed"
  /\ UNCHANGED <<expected, given, handed>>

Next == Fill \/ Hand \/ End \/ Fail

Spec == Init /\ [][Next]_vars
=============================================================================
