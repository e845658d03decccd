---------------------------- MODULE AtomicStore ----------------------------
(***************************************************************************)
(* What the writing functions of duckdb-pdf promise about the files they   *)
(* write: a destination goes in one step from what it held to a complete   *)
(* document, parts appear in order, "done" is reported when every part is  *)
(* there, and an operation that reports a failure, or dies, has left its   *)
(* last part out.  No staging files and no partly written documents here.  *)
(***************************************************************************)
EXTENDS Integers, Sequences

CONSTANTS
  Jobs,
  Targets,       (* the destinations of each job, in order                  *)
  Contents,      (* the complete documents each job may produce             *)
  OnDisk         (* what the paths hold at first                            *)

VARIABLES store, parts, published, told

vars == <<store, parts, published, told>>

Init ==
  /\ store = OnDisk
  /\ parts = [j \in Jobs |-> 0]
  /\ published = [j \in Jobs |-> 0]
  /\ told = [j \in Jobs |-> "running"]

\* The operation knows how many parts it will write.
Plan(j) ==
  /\ told[j] = "running" /\ published[j] = 0
  /\ \E n \in 0..Len(Targets[j]) : parts' = [parts EXCEPT ![j] = n]
  /\ UNCHANGED <<store, published, told>>

\* The next part replaces whatever its destination held.
Publish(j) ==
  /\ told[j] = "running" /\ published[j] < parts[j]
  /\ published' = [published EXCEPT ![j] = @ + 1]
  /\ \E c \in Contents[j] : store' = [store EXCEPT ![Targets[j][published[j] + 1]] = c]
  /\ UNCHANGED <<parts, told>>

Done(j) ==
  /\ told[j] = "running" /\ published[j] = parts[j]
  /\ told' = [told EXCEPT ![j] = "done"]
  /\ UNCHANGED <<store, parts, published>>

Failed(j) ==
  /\ told[j] = "running"
  /\ published[j] < parts[j] \/ published[j] = 0
  /\ told' = [told EXCEPT ![j] = "failed"]
  /\ UNCHANGED <<store, parts, published>>

Crashed(j) ==
  /\ told[j] = "running"
  /\ told' = [told EXCEPT ![j] = "crashed"]
  /\ UNCHANGED <<store, parts, published>>

Next == \E j \in Jobs : Plan(j) \/ Publish(j) \/ Done(j) \/ Failed(j) \/ Crashed(j)

Spec == Init /\ [][Next]_vars
=============================================================================
