---------------------------- MODULE PageDelivery ----------------------------
(***************************************************************************)
(* What read_pdf promises its caller, whatever the number of threads:      *)
(* every page the options select is returned once and once only, a file    *)
(* may be left out only under ignore_errors, and a query that could not    *)
(* keep the promise ends in an error and not in a short result.            *)
(***************************************************************************)
EXTENDS Integers

CONSTANTS
  NFiles,        (* files of the scan, in the order ResolveFiles lists them *)
  PageCount,     (* pages of each file                                      *)
  FirstPage,     (* first_page option, 1-based                              *)
  LastPage,      (* last_page option, 1-based and inclusive, negative: all  *)
  IgnoreErrors   (* ignore_errors option                                    *)

VARIABLES
  delivered,     (* the <<file, 0-based page>> rows handed to the engine    *)
  skipped,       (* files given up on                                       *)
  outcome        (* "running", "ok" or "failed"                             *)

vars == <<delivered, skipped, outcome>>

Files == 1..NFiles

\* The pages a reader of the options expects from file f.
Wanted(f) ==
  { p \in 0..(PageCount[f] - 1) :
      /\ p + 1 >= FirstPage
      /\ LastPage < 0 \/ p + 1 <= LastPage }

WantedRows == { r \in Files \X Nat : r[2] \in Wanted(r[1]) }

Init ==
  /\ delivered = {}
  /\ skipped = {}
  /\ outcome = "running"

\* One output chunk: rows of one file that nobody has received before.
Deliver ==
  /\ outcome # "ok"
  /\ \E f \in Files \ skipped :
       \E rows \in SUBSET { <<f, p>> : p \in Wanted(f) } :
         /\ rows \cap delivered = {}
         /\ delivered' = delivered \cup rows
  /\ UNCHANGED <<skipped, outcome>>

\* An unreadable file contributes no row and is remembered as skipped.
Skip(f) ==
  /\ IgnoreErrors
  /\ outcome # "ok"
  /\ \A r \in delivered : r[1] # f
  /\ skipped' = skipped \cup {f}
  /\ UNCHANGED <<delivered, outcome>>

Fail ==
  /\ outcome = "running"
  /\ outcome' = "failed"
  /\ UNCHANGED <<delivered, skipped>>

Succeed ==
  /\ outcome = "running"
  /\ \A f \in Files : f \in skipped \/ \A p \in Wanted(f) : <<f, p>> \in delivered
  /\ outcome' = "ok"
  /\ UNCHANGED <<delivered, skipped>>

Next ==
  \/ Deliver
  \/ \E f \in Files : Skip(f)
  \/ Fail
  \/ Succeed

Spec == Init /\ [][Next]_vars
=============================================================================
