----------------------------- MODULE Conversion -----------------------------
(***************************************************************************)
(* to_pdf of src/src/pdf_extension.cpp: a call tries its backends in order *)
(* (pdf_office::Convert), and each attempt runs converter processes under  *)
(* a deadline (RunCapture, POSIX branch), checks what they produced and    *)
(* publishes it.  Calls are threads of one server process, so the pipes of *)
(* all of them are open in it when any of them forks.                      *)
(*                                                                         *)
(* Publishing itself is StagedOutput; here it is one step or an error.     *)
(***************************************************************************)
EXTENDS Integers, Sequences, FiniteSets

CONSTANTS
  Calls,
  Overlaps,      (* sets of calls that are made at the same time            *)
  Route,         (* of each call: its backends, each "native" or "libre"    *)
  Server

ASSUME ConversionAssumption ==
  /\ Overlaps \subseteq SUBSET Calls
  /\ Route \in [Calls -> Seq({"native", "libre"}) \ {<<>>}]
  /\ \A c \in Calls : Route[c][Len(Route[c])] = "libre"
  /\ Server \notin Calls \X {"child", "helper"}

Child(c) == <<c, "child">>
Helper(c) == <<c, "helper">>
Own(c) == {Child(c), Helper(c)}
Processes == {Server} \cup UNION {Own(c) : c \in Calls}

VARIABLES
  pc, attempt, failures, fault,
  runs,          (* processes the attempt has still to run                  *)
  dirs,          (* temporary directories of the attempt                    *)
  writers,       (* processes that hold the write end of the call's pipe    *)
  reading,       (* the read end is open                                    *)
  child,         (* "none", "running", "exited" and not waited for          *)
  helper,        (* a process the converter started is still running        *)
  status, produced,
  late,          (* the deadline has passed                                 *)
  published

callVars == <<attempt, failures, fault, runs, dirs>>
pipeVars == <<writers, reading>>
processVars == <<child, helper, status, produced, late>>
vars == <<pc, callVars, pipeVars, processVars, published>>

Init ==
  /\ \E made \in Overlaps : pc = [c \in Calls |-> IF c \in made THEN "pick" ELSE "never"]
  /\ attempt = [c \in Calls |-> 1]
  /\ failures = [c \in Calls |-> <<>>]
  /\ fault = [c \in Calls |-> "none"]
  /\ runs = [c \in Calls |-> 0]
  /\ dirs = [c \in Calls |-> {}]
  /\ writers = [c \in Calls |-> {}]
  /\ reading = [c \in Calls |-> FALSE]
  /\ child = [c \in Calls |-> "none"]
  /\ helper = [c \in Calls |-> FALSE]
  /\ status = [c \in Calls |-> "ok"]
  /\ produced = [c \in Calls |-> "nothing"]
  /\ late = [c \in Calls |-> FALSE]
  /\ published = [c \in Calls |-> 0]

Goto(c, from, to) ==
  /\ pc[c] = from
  /\ pc' = [pc EXCEPT ![c] = to]

\* The attempt ends with an exception, once its guards have run.
Throw(c, from, why) ==
  /\ Goto(c, from, "cleanup")
  /\ fault' = [fault EXCEPT ![c] = why]

Backend(c) == Route[c][attempt[c]]
DirsOf(c) == IF Backend(c) = "native" THEN <<"workspace">> ELSE <<"profile", "out">>

\* Process p is gone: every descriptor it held is closed.
Released(p) == [d \in Calls |-> writers[d] \ {p}]

-----------------------------------------------------------------------------
(* One attempt.                                                            *)

\* A native application that is not installed is noted and passed over.
NotInstalled(c) ==
  /\ pc[c] = "pick" /\ Backend(c) = "native"
  /\ failures' = [failures EXCEPT ![c] = Append(@, "not installed")]
  /\ attempt' = [attempt EXCEPT ![c] = @ + 1]
  /\ UNCHANGED <<pc, fault, runs, dirs, pipeVars, processVars, published>>

\* A native export copies its input with one process and exports with another.
BeginAttempt(c) ==
  /\ Goto(c, "pick", "dirs")
  /\ runs' = [runs EXCEPT ![c] = IF Backend(c) = "native" THEN 2 ELSE 1]
  /\ produced' = [produced EXCEPT ![c] = "nothing"]
  /\ UNCHANGED <<attempt, failures, fault, dirs, pipeVars, child, helper, status, late, published>>

MakeDir(c) ==
  LET made == Cardinality(dirs[c]) + 1 IN
    /\ Goto(c, "dirs", IF made = Len(DirsOf(c)) THEN "pipe" ELSE "dirs")
    /\ dirs' = [dirs EXCEPT ![c] = @ \cup {DirsOf(c)[made]}]
    /\ UNCHANGED <<attempt, failures, fault, runs, pipeVars, processVars, published>>

\* The input is missing, no converter is found, or a directory cannot be made.
DirFails(c) ==
  /\ Throw(c, "dirs", "setup")
  /\ UNCHANGED <<attempt, failures, runs, dirs, pipeVars, processVars, published>>

-----------------------------------------------------------------------------
(* RunCapture.                                                             *)

OpenPipe(c) ==
  /\ Goto(c, "pipe", "fork")
  /\ writers' = [writers EXCEPT ![c] = {Server}]
  /\ reading' = [reading EXCEPT ![c] = TRUE]
  /\ UNCHANGED <<callVars, processVars, published>>

PipeFails(c) ==
  /\ Throw(c, "pipe", "spawn")
  /\ UNCHANGED <<attempt, failures, runs, dirs, pipeVars, processVars, published>>

\* The child gets a copy of every descriptor the server has open, the pipes of
\* other calls included: they are not closed on exec.
Fork(c) ==
  /\ Goto(c, "fork", "parent")
  /\ child' = [child EXCEPT ![c] = "running"]
  /\ writers' = [d \in Calls |->
       IF Server \in writers[d] THEN writers[d] \cup {Child(c)} ELSE writers[d]]
  /\ UNCHANGED <<callVars, reading, helper, status, produced, late, published>>

\* Mutant: only the read end is closed when fork fails.
ForkFailsLeaking(c) ==
  /\ Throw(c, "fork", "spawn")
  /\ reading' = [reading EXCEPT ![c] = FALSE]
  /\ UNCHANGED <<attempt, failures, runs, dirs, writers, processVars, published>>

ForkFails(c) ==
  /\ Throw(c, "fork", "spawn")
  /\ writers' = [writers EXCEPT ![c] = @ \ {Server}]
  /\ reading' = [reading EXCEPT ![c] = FALSE]
  /\ UNCHANGED <<attempt, failures, runs, dirs, processVars, published>>

\* The parent closes its write end and the two minutes begin.
CloseWriteEnd(c) ==
  /\ Goto(c, "parent", "loop")
  /\ writers' = [writers EXCEPT ![c] = @ \ {Server}]
  /\ late' = [late EXCEPT ![c] = FALSE]
  /\ UNCHANGED <<callVars, reading, child, helper, status, produced, published>>

\* The child is killed and waited for; what it started goes on.
Kill(c) ==
  /\ child' = [child EXCEPT ![c] = "none"]
  /\ writers' = Released(Child(c))

\* Mutant: the child is not killed when the deadline passes.
TimeoutLeavesChild(c) ==
  /\ late[c] /\ Throw(c, "loop", "timeout")
  /\ reading' = [reading EXCEPT ![c] = FALSE]
  /\ UNCHANGED <<attempt, failures, runs, dirs, writers, child, helper, status, produced, late, published>>

TimeoutReading(c) ==
  /\ late[c] /\ Throw(c, "loop", "timeout")
  /\ Kill(c)
  /\ reading' = [reading EXCEPT ![c] = FALSE]
  /\ UNCHANGED <<attempt, failures, runs, dirs, helper, status, produced, late, published>>

Poll(c) ==
  /\ ~late[c] /\ Goto(c, "loop", "poll")
  /\ UNCHANGED <<callVars, pipeVars, processVars, published>>

PollFails(c) ==
  /\ Throw(c, "poll", "output")
  /\ Kill(c)
  /\ reading' = [reading EXCEPT ![c] = FALSE]
  /\ UNCHANGED <<attempt, failures, runs, dirs, helper, status, produced, late, published>>

\* Output was read, nothing came in 100 ms, or a signal interrupted the call.
NoEndYet(c) ==
  /\ writers[c] # {} /\ Goto(c, "poll", "loop")
  /\ UNCHANGED <<callVars, pipeVars, processVars, published>>

\* Mutant: a read that finds nothing ends the loop.
EndOfOutputEarly(c) ==
  /\ Goto(c, "poll", "wait")
  /\ reading' = [reading EXCEPT ![c] = FALSE]
  /\ UNCHANGED <<callVars, writers, processVars, published>>

\* End of file: nobody holds the write end any more.
EndOfOutput(c) ==
  /\ writers[c] = {} /\ Goto(c, "poll", "wait")
  /\ reading' = [reading EXCEPT ![c] = FALSE]
  /\ UNCHANGED <<callVars, writers, processVars, published>>

\* waitpid(WNOHANG) finds the child gone, or not.
Reap(c) ==
  /\ child[c] = "exited" /\ Goto(c, "wait", "ran")
  /\ child' = [child EXCEPT ![c] = "none"]
  /\ runs' = [runs EXCEPT ![c] = @ - 1]
  /\ UNCHANGED <<attempt, failures, fault, dirs, pipeVars, helper, status, produced, late, published>>

NotGone(c) ==
  /\ child[c] = "running" /\ Goto(c, "wait", "clock")
  /\ UNCHANGED <<callVars, pipeVars, processVars, published>>

TimeoutWaiting(c) ==
  /\ late[c] /\ Throw(c, "clock", "timeout")
  /\ Kill(c)
  /\ UNCHANGED <<attempt, failures, runs, dirs, reading, helper, status, produced, late, published>>

\* Mutant: the deadline is not looked at while waiting for the child.
WaitForever(c) ==
  /\ Goto(c, "clock", "wait")
  /\ UNCHANGED <<callVars, pipeVars, processVars, published>>

WaitMore(c) ==
  /\ ~late[c] /\ Goto(c, "clock", "wait")
  /\ UNCHANGED <<callVars, pipeVars, processVars, published>>

-----------------------------------------------------------------------------
(* What the process left.                                                  *)

RunFailed(c) ==
  /\ status[c] # "ok" /\ Throw(c, "ran", "status")
  /\ UNCHANGED <<attempt, failures, runs, dirs, pipeVars, processVars, published>>

RunEnded(c) ==
  /\ status[c] = "ok"
  /\ Goto(c, "ran", IF runs[c] > 0 THEN "pipe" ELSE "check")
  /\ UNCHANGED <<callVars, pipeVars, processVars, published>>

\* A file that starts with %PDF- is staged; a missing or other one is an error.
IsPdf(c) ==
  /\ produced[c] = "pdf" /\ Goto(c, "check", "publish")
  /\ UNCHANGED <<callVars, pipeVars, processVars, published>>

IsNoPdf(c) ==
  /\ produced[c] # "pdf" /\ Throw(c, "check", "no PDF")
  /\ UNCHANGED <<attempt, failures, runs, dirs, pipeVars, processVars, published>>

Publish(c) ==
  /\ Goto(c, "publish", "cleanup")
  /\ published' = [published EXCEPT ![c] = @ + 1]
  /\ UNCHANGED <<callVars, pipeVars, processVars>>

PublishFails(c) ==
  /\ Throw(c, "publish", "write")
  /\ UNCHANGED <<attempt, failures, runs, dirs, pipeVars, processVars, published>>

\* TempDirGuard, the last directory first.
RemoveDir(c) ==
  /\ pc[c] = "cleanup" /\ dirs[c] # {}
  /\ dirs' = [dirs EXCEPT ![c] = @ \ {DirsOf(c)[Cardinality(@)]}]
  /\ UNCHANGED <<pc, attempt, failures, fault, runs, pipeVars, processVars, published>>

Return(c) ==
  /\ dirs[c] = {} /\ fault[c] = "none" /\ Goto(c, "cleanup", "done")
  /\ UNCHANGED <<callVars, pipeVars, processVars, published>>

\* Mutant: the first failure is final.
GiveUpFirst(c) ==
  /\ dirs[c] = {} /\ fault[c] # "none" /\ Goto(c, "cleanup", "failed")
  /\ failures' = [failures EXCEPT ![c] = Append(@, fault[c])]
  /\ UNCHANGED <<attempt, fault, runs, dirs, pipeVars, processVars, published>>

\* The failure is kept and the next backend tried, or all are reported.
NextBackend(c) ==
  LET last == attempt[c] = Len(Route[c]) IN
    /\ dirs[c] = {} /\ fault[c] # "none"
    /\ Goto(c, "cleanup", IF last THEN "failed" ELSE "pick")
    /\ failures' = [failures EXCEPT ![c] = Append(@, fault[c])]
    /\ attempt' = [attempt EXCEPT ![c] = IF last THEN @ ELSE @ + 1]
    /\ fault' = [fault EXCEPT ![c] = "none"]
    /\ UNCHANGED <<runs, dirs, pipeVars, processVars, published>>

-----------------------------------------------------------------------------
(* The converter processes and the clock.                                  *)

Results == {"nothing", "other", "pdf"}

\* Exit, with any status (127 when exec failed) and any result in the output
\* directory; a process that is not the last of its attempt only copies.
ChildExits(c) ==
  /\ child[c] = "running"
  /\ child' = [child EXCEPT ![c] = "exited"]
  /\ writers' = Released(Child(c))
  /\ \E s \in {"ok", "error"} : status' = [status EXCEPT ![c] = s]
  /\ \E r \in Results : produced' = [produced EXCEPT ![c] = IF runs[c] = 1 THEN r ELSE @]
  /\ UNCHANGED <<pc, callVars, reading, helper, late, published>>

\* The converter closes its output and goes on.
ChildCloses(c) ==
  /\ child[c] = "running" /\ writers' = Released(Child(c))
  /\ UNCHANGED <<pc, callVars, reading, processVars, published>>

\* The converter starts a process, which inherits what it has open.
StartHelper(c) ==
  /\ child[c] = "running" /\ ~helper[c]
  /\ helper' = [helper EXCEPT ![c] = TRUE]
  /\ writers' = [d \in Calls |->
       IF Child(c) \in writers[d] THEN writers[d] \cup {Helper(c)} ELSE writers[d]]
  /\ UNCHANGED <<pc, callVars, reading, child, status, produced, late, published>>

\* It ends, and may have written the result if its attempt still goes on.
HelperExits(c) ==
  /\ helper[c]
  /\ helper' = [helper EXCEPT ![c] = FALSE]
  /\ writers' = Released(Helper(c))
  /\ \E r \in Results :
       produced' = [produced EXCEPT ![c] = IF Helper(c) \in writers[c] THEN r ELSE @]
  /\ UNCHANGED <<pc, callVars, reading, child, status, late, published>>

Timed == {"loop", "poll", "wait", "clock"}

\* 120 seconds have passed.
Tick(c) ==
  /\ pc[c] \in Timed /\ ~late[c]
  /\ late' = [late EXCEPT ![c] = TRUE]
  /\ UNCHANGED <<pc, callVars, pipeVars, child, helper, status, produced, published>>

RunStep(c) ==
  \/ OpenPipe(c) \/ PipeFails(c) \/ Fork(c) \/ ForkFails(c) \/ CloseWriteEnd(c)
  \/ TimeoutReading(c) \/ Poll(c) \/ PollFails(c) \/ NoEndYet(c) \/ EndOfOutput(c)
  \/ Reap(c) \/ NotGone(c) \/ TimeoutWaiting(c) \/ WaitMore(c)

AttemptStep(c) ==
  \/ NotInstalled(c) \/ BeginAttempt(c) \/ MakeDir(c) \/ DirFails(c)
  \/ RunFailed(c) \/ RunEnded(c) \/ IsPdf(c) \/ IsNoPdf(c) \/ Publish(c) \/ PublishFails(c)
  \/ RemoveDir(c) \/ Return(c) \/ NextBackend(c)

CallStep(c) == AttemptStep(c) \/ RunStep(c)
Outside(c) == ChildExits(c) \/ ChildCloses(c) \/ StartHelper(c) \/ HelperExits(c) \/ Tick(c)

Next == \E c \in Calls : CallStep(c) \/ Outside(c)

Spec == Init /\ [][Next]_vars
\* Threads of the server are scheduled and time passes; converters may hang.
Fairness == \A c \in Calls : WF_vars(CallStep(c)) /\ WF_vars(Tick(c))
FairSpec == Spec /\ Fairness

-----------------------------------------------------------------------------
(* Properties.                                                             *)

\* Why an attempt fails.
Faults == {"not installed", "setup", "spawn", "timeout", "output", "status", "no PDF", "write"}

TypeOK ==
  /\ pc \in [Calls -> Timed \cup {"never", "pick", "dirs", "pipe", "fork", "parent", "ran", "check", "publish", "cleanup", "done", "failed"}]
  /\ \A c \in Calls : attempt[c] \in 1..Len(Route[c])
  /\ failures \in [Calls -> Seq(Faults)]
  /\ fault \in [Calls -> Faults \cup {"none"}]
  /\ runs \in [Calls -> 0..2]
  /\ dirs \in [Calls -> SUBSET {"workspace", "profile", "out"}]
  /\ writers \in [Calls -> SUBSET Processes]
  /\ reading \in [Calls -> BOOLEAN] /\ helper \in [Calls -> BOOLEAN] /\ late \in [Calls -> BOOLEAN]
  /\ child \in [Calls -> {"none", "running", "exited"}]
  /\ status \in [Calls -> {"ok", "error"}] /\ produced \in [Calls -> Results]
  /\ published \in [Calls -> 0..1]

\* Whatever way an attempt ended, the next one, or the caller, finds no open
\* descriptor, no directory and no child that runs or was not waited for.
NothingLeft ==
  \A c \in Calls : pc[c] \in {"pick", "done", "failed"} =>
    dirs[c] = {} /\ Server \notin writers[c] /\ ~reading[c] /\ child[c] = "none"

\* NothingLeft and the types of what an attempt counts.
AttemptsClean == TypeOK /\ NothingLeft

\* Success means the destination was replaced, once; an error means it was not
\* and names a failure of every backend, LibreOffice last.
EveryBackendAnswers ==
  \A c \in Calls :
    /\ pc[c] = "done" => published[c] = 1
    /\ pc[c] = "failed" => published[c] = 0 /\ Len(failures[c]) = Len(Route[c])

\* A result is published only when the converter and whatever it started with
\* the same output have ended, so nobody still writes it.
PublishedWhenFinished ==
  [][\A c \in Calls : published'[c] # published[c] =>
       child[c] = "none" /\ writers[c] = {} /\ status[c] = "ok" /\ produced[c] = "pdf"]_vars

\* Every call returns within the deadlines of its attempts, though converters
\* and what they start may hang for ever.
Returns == \A c \in Calls : <>(pc[c] \in {"never", "done", "failed"})

\* README.md:285 speaks of the 120-second timeout of the converter process: a
\* call that times out on an open pipe would have its converter running, or
\* something its converter started.
TimeoutIsOwn ==
  [][\A c \in Calls : TimeoutReading(c) /\ writers[c] # {} =>
       child[c] = "running" \/ Own(c) \cap writers[c] # {}]_vars
=============================================================================
