-------------------------- MODULE ConversionProofs --------------------------
(***************************************************************************)
(* Attempts of to_pdf leave nothing behind, every backend is heard, and    *)
(* only what a finished converter wrote is published: for any calls, made  *)
(* at any times, over any routes.                                          *)
(***************************************************************************)
EXTENDS Conversion, FiniteSetTheorems, SequenceTheorems, TLAPS

\* Before an attempt, and while it has something to run.
Resting == {"never", "pick"}
ToRun == {"dirs", "pipe", "fork", "parent"} \cup Timed

\* The directories of an attempt come one by one and go in reverse order.
DirsInv(c) ==
  /\ IF Backend(c) = "native"
     THEN dirs[c] \in {{}, {"workspace"}}
     ELSE dirs[c] \in {{}, {"profile"}, {"profile", "out"}}
  /\ pc[c] = "dirs" => dirs[c] \in {{}, {"profile"}} /\ (Backend(c) = "native" => dirs[c] = {})
  /\ pc[c] \in Resting \cup {"done", "failed"} => dirs[c] = {}

\* Who holds the pipe of the call, and the child it has to wait for.  Once the
\* output has ended nobody can come to hold it: a process inherits a pipe only
\* from the server or a child that has it.
PipeInv(c) ==
  /\ Server \in writers[c] => pc[c] \in {"fork", "parent"}
  /\ reading[c] => pc[c] \in {"fork", "parent", "loop", "poll"}
  /\ child[c] # "none" => pc[c] \in {"parent"} \cup Timed
  /\ pc[c] \in {"wait", "clock", "ran", "check", "publish"} => writers[c] = {}
  /\ pc[c] \in ToRun => runs[c] > 0
  /\ pc[c] \in {"check", "publish"} => status[c] = "ok"
  /\ pc[c] = "publish" => produced[c] = "pdf"

\* What has been published and what has failed.
AnswerInv(c) ==
  /\ pc[c] \notin {"cleanup", "done", "failed"} => fault[c] = "none" /\ published[c] = 0
  /\ pc[c] = "cleanup" => published[c] = IF fault[c] = "none" THEN 1 ELSE 0
  /\ pc[c] = "done" => published[c] = 1
  /\ pc[c] = "failed" => published[c] = 0 /\ Len(failures[c]) = Len(Route[c])
  /\ pc[c] # "failed" => Len(failures[c]) = attempt[c] - 1

IInv ==
  /\ TypeOK /\ attempt \in [Calls -> Nat]
  /\ \A c \in Calls : DirsInv(c) /\ PipeInv(c) /\ AnswerInv(c)
Step(c) == CallStep(c) \/ Outside(c)

LEMMA NextIsStep == Next <=> \E c \in Calls : Step(c)
BY DEF Next, Step

\* The processes are different from the server and may hold a pipe.
LEMMA ProcessesOf ==
  ASSUME NEW c \in Calls
  PROVE  /\ Child(c) \in Processes /\ Helper(c) \in Processes /\ Server \in Processes
         /\ Child(c) # Server /\ Helper(c) # Server
BY ConversionAssumption DEF Processes, Own, Child, Helper

\* The route of a call ends with LibreOffice.
LEMMA RouteOf ==
  ASSUME NEW c \in Calls
  PROVE  /\ Len(Route[c]) \in Nat \ {0}
         /\ \A k \in 1..Len(Route[c]) : Route[c][k] \in {"native", "libre"}
         /\ Route[c][Len(Route[c])] = "libre"
<1>1. Route[c] \in Seq({"native", "libre"}) /\ Route[c] # <<>>
  BY ConversionAssumption
<1> QED
  BY <1>1, EmptySeq, ElementOfSeq, ConversionAssumption

-----------------------------------------------------------------------------
(* Types.                                                                  *)

\* The directory made next is the one after those there are, and the one
\* removed is the last.
LEMMA DirCount ==
  /\ Cardinality({}) = 0
  /\ Cardinality({"workspace"}) = 1 /\ Cardinality({"profile"}) = 1
  /\ Cardinality({"profile", "out"}) = 2
<1>1. Cardinality({}) = 0 /\ \A x : Cardinality({x}) = 1
  BY FS_EmptySet, FS_Singleton
<1>2. IsFiniteSet({"profile"}) /\ "out" \notin {"profile"} /\ {"profile"} \cup {"out"} = {"profile", "out"}
  BY FS_Singleton
<1>3. Cardinality({"profile"} \cup {"out"}) = Cardinality({"profile"}) + 1
  BY <1>2, FS_AddElement
<1>4. Cardinality({"profile", "out"}) = 2
  BY <1>1, <1>2, <1>3
<1> QED
  BY <1>1, <1>4

LEMMA TypeStep ==
  ASSUME IInv, NEW c \in Calls, Step(c)
  PROVE  TypeOK' /\ attempt' \in [Calls -> Nat]
<1> USE DEF IInv
<1>0. TypeOK /\ DirsInv(c) /\ PipeInv(c) /\ AnswerInv(c)
  OBVIOUS
<1>1. pc' \in [Calls -> Timed \cup {"never", "pick", "dirs", "pipe", "fork", "parent", "ran", "check",
               "publish", "cleanup", "done", "failed"}]
  <2>1. CASE AttemptStep(c)
    <3>1. pc' = pc \/ \E to \in {"pick", "dirs", "pipe", "check", "publish", "cleanup", "done", "failed"} :
            pc' = [pc EXCEPT ![c] = to]
      <4>1. CASE DirFails(c) \/ RunFailed(c) \/ IsNoPdf(c) \/ PublishFails(c)
        BY <4>1 DEF DirFails, RunFailed, IsNoPdf, PublishFails, Goto, Throw
      <4>2. CASE BeginAttempt(c) \/ MakeDir(c) \/ RunEnded(c) \/ IsPdf(c)
        BY <4>2 DEF BeginAttempt, MakeDir, RunEnded, IsPdf, Goto
      <4>3. CASE NotInstalled(c) \/ Publish(c) \/ RemoveDir(c) \/ Return(c) \/ NextBackend(c)
        BY <4>3 DEF NotInstalled, Publish, RemoveDir, Return, NextBackend, Goto
      <4> QED
        BY <2>1, <4>1, <4>2, <4>3 DEF AttemptStep
    <3> QED
      BY <3>1 DEF TypeOK
  <2>2. CASE RunStep(c)
    <3>1. \E to \in Timed \cup {"fork", "parent", "ran", "cleanup"} : pc' = [pc EXCEPT ![c] = to]
      <4>1. CASE PipeFails(c) \/ ForkFails(c) \/ TimeoutReading(c) \/ PollFails(c) \/ TimeoutWaiting(c)
        BY <4>1 DEF PipeFails, ForkFails, TimeoutReading, PollFails, TimeoutWaiting, Goto, Throw
      <4>2. CASE OpenPipe(c) \/ Fork(c) \/ CloseWriteEnd(c) \/ Reap(c)
        BY <4>2 DEF OpenPipe, Fork, CloseWriteEnd, Reap, Goto, Timed
      <4>3. CASE Poll(c) \/ NoEndYet(c) \/ EndOfOutput(c) \/ NotGone(c) \/ WaitMore(c)
        BY <4>3 DEF Poll, NoEndYet, EndOfOutput, NotGone, WaitMore, Goto, Timed
      <4> QED
        BY <2>2, <4>1, <4>2, <4>3 DEF RunStep
    <3> QED
      BY <3>1 DEF TypeOK
  <2>3. CASE Outside(c)
    BY <2>3 DEF Outside, ChildExits, ChildCloses, StartHelper, HelperExits, Tick, TypeOK
  <2> QED
    BY <2>1, <2>2, <2>3 DEF Step, CallStep
<1>2. writers' \in [Calls -> SUBSET Processes] /\ reading' \in [Calls -> BOOLEAN]
  <2>1. \A d \in Calls : writers[d] \subseteq Processes
    BY DEF TypeOK
  <2>2. CASE AttemptStep(c)
    BY <2>2 DEF AttemptStep, NotInstalled, BeginAttempt, MakeDir, DirFails, RunFailed, RunEnded, IsPdf,
      IsNoPdf, Publish, PublishFails, RemoveDir, Return, NextBackend, TypeOK, pipeVars
  <2>3. CASE RunStep(c)
    <3>1. CASE OpenPipe(c) \/ ForkFails(c) \/ CloseWriteEnd(c) \/ EndOfOutput(c)
      <4>1. writers' = writers \/ \E W \in SUBSET Processes : writers' = [writers EXCEPT ![c] = W]
        <5>1. {Server} \in SUBSET Processes /\ writers[c] \ {Server} \in SUBSET Processes
          BY <2>1, ProcessesOf
        <5> QED
          BY <5>1, <3>1 DEF OpenPipe, ForkFails, CloseWriteEnd, EndOfOutput
      <4>2. reading' = reading \/ \E b \in BOOLEAN : reading' = [reading EXCEPT ![c] = b]
        BY <3>1 DEF OpenPipe, ForkFails, CloseWriteEnd, EndOfOutput
      <4>3. writers' \in [Calls -> SUBSET Processes]
        BY <4>1 DEF TypeOK
      <4>4. reading' \in [Calls -> BOOLEAN]
        BY <4>2 DEF TypeOK
      <4> QED
        BY <4>3, <4>4
    <3>2. CASE Fork(c)
      BY <2>1, <3>2, ProcessesOf DEF Fork, TypeOK
    <3>3. CASE TimeoutReading(c) \/ PollFails(c) \/ TimeoutWaiting(c)
      <4>1. writers' \in [Calls -> SUBSET Processes]
        BY <2>1, <3>3 DEF TimeoutReading, PollFails, TimeoutWaiting, Kill, Released
      <4>2. reading' = reading \/ reading' = [reading EXCEPT ![c] = FALSE]
        BY <3>3 DEF TimeoutReading, PollFails, TimeoutWaiting
      <4> QED
        BY <4>1, <4>2 DEF TypeOK
    <3> QED
      BY <2>3, <3>1, <3>2, <3>3 DEF RunStep, PipeFails, Poll, NoEndYet, Reap, NotGone, WaitMore, pipeVars, TypeOK
  <2>4. CASE Outside(c)
    <3>1. CASE StartHelper(c)
      BY <2>1, <3>1, ProcessesOf DEF StartHelper, TypeOK
    <3>2. CASE ChildExits(c) \/ ChildCloses(c) \/ HelperExits(c)
      BY <2>1, <3>2 DEF ChildExits, ChildCloses, HelperExits, Released, TypeOK
    <3> QED
      BY <2>4, <3>1, <3>2 DEF Outside, Tick, pipeVars, TypeOK
  <2> QED
    BY <2>2, <2>3, <2>4 DEF Step, CallStep
<1>3. /\ child' \in [Calls -> {"none", "running", "exited"}]
      /\ helper' \in [Calls -> BOOLEAN] /\ late' \in [Calls -> BOOLEAN]
  <2>1. CASE AttemptStep(c)
    BY <2>1 DEF AttemptStep, NotInstalled, BeginAttempt, MakeDir, DirFails, RunFailed, RunEnded, IsPdf,
      IsNoPdf, Publish, PublishFails, RemoveDir, Return, NextBackend, TypeOK, processVars
  <2>2. CASE RunStep(c)
    BY <2>2 DEF RunStep, OpenPipe, PipeFails, Fork, ForkFails, CloseWriteEnd, TimeoutReading, Poll,
      PollFails, NoEndYet, EndOfOutput, Reap, NotGone, TimeoutWaiting, WaitMore, Kill, TypeOK, processVars
  <2>3. CASE Outside(c)
    BY <2>3 DEF Outside, ChildExits, ChildCloses, StartHelper, HelperExits, Tick, TypeOK, processVars
  <2> QED
    BY <2>1, <2>2, <2>3 DEF Step, CallStep
<1>4. status' \in [Calls -> {"ok", "error"}] /\ produced' \in [Calls -> Results]
  <2>1. CASE AttemptStep(c)
    BY <2>1 DEF AttemptStep, NotInstalled, BeginAttempt, MakeDir, DirFails, RunFailed, RunEnded, IsPdf,
      IsNoPdf, Publish, PublishFails, RemoveDir, Return, NextBackend, TypeOK, processVars, Results
  <2>2. CASE RunStep(c)
    BY <2>2 DEF RunStep, OpenPipe, PipeFails, Fork, ForkFails, CloseWriteEnd, TimeoutReading, Poll,
      PollFails, NoEndYet, EndOfOutput, Reap, NotGone, TimeoutWaiting, WaitMore, TypeOK, processVars
  <2>3. CASE ChildExits(c)
    BY <2>3 DEF ChildExits, TypeOK
  <2>4. CASE HelperExits(c)
    BY <2>4 DEF HelperExits, TypeOK
  <2>5. CASE ChildCloses(c) \/ StartHelper(c) \/ Tick(c)
    BY <2>5 DEF ChildCloses, StartHelper, Tick, TypeOK, processVars
  <2> QED
    BY <2>1, <2>2, <2>3, <2>4, <2>5 DEF Step, CallStep, Outside
<1>5. attempt' \in [Calls -> Nat] /\ \A d \in Calls : attempt'[d] \in 1..Len(Route[d])
  <2>1. CASE attempt' = attempt
    BY <2>1 DEF TypeOK
  <2>2. CASE attempt[c] # Len(Route[c]) /\ attempt' = [attempt EXCEPT ![c] = @ + 1]
    <3>1. attempt[c] \in 1..Len(Route[c]) /\ Len(Route[c]) \in Nat
      BY RouteOf DEF TypeOK
    <3>2. attempt[c] + 1 \in 1..Len(Route[c])
      BY <2>2, <3>1
    <3> QED
      BY <2>2, <3>2 DEF TypeOK
  <2>3. CASE NotInstalled(c)
    BY <2>2, <2>3, RouteOf DEF NotInstalled, Backend
  <2>4. CASE NextBackend(c)
    <3>1. CASE attempt[c] = Len(Route[c])
      <4>1. attempt' = [attempt EXCEPT ![c] = @]
        BY <2>4, <3>1 DEF NextBackend
      <4> QED
        BY <4>1, <2>1
    <3> QED
      BY <2>2, <2>4, <3>1 DEF NextBackend
  <2> QED
    BY <2>1, <2>3, <2>4 DEF Step, CallStep, AttemptStep, BeginAttempt, MakeDir, DirFails, RunFailed,
      RunEnded, IsPdf, IsNoPdf, Publish, PublishFails, RemoveDir, Return, RunStep, OpenPipe, PipeFails,
      Fork, ForkFails, CloseWriteEnd, TimeoutReading, Poll, PollFails, NoEndYet, EndOfOutput, Reap,
      NotGone, TimeoutWaiting, WaitMore, Outside, ChildExits, ChildCloses, StartHelper, HelperExits,
      Tick, callVars
<1>6. failures' \in [Calls -> Seq(Faults)] /\ fault' \in [Calls -> Faults \cup {"none"}]
  <2>1. \A s \in Faults : Append(failures[c], s) \in Seq(Faults)
    BY AppendProperties DEF TypeOK
  <2>2. CASE NotInstalled(c) \/ NextBackend(c)
    <3>1. \E s \in Faults : failures' = [failures EXCEPT ![c] = Append(@, s)]
      <4>1. CASE NotInstalled(c)
        BY <4>1 DEF NotInstalled, Faults
      <4>2. CASE NextBackend(c)
        <5>1. fault[c] \in Faults
          BY <4>2 DEF NextBackend, TypeOK
        <5> QED
          BY <4>2, <5>1 DEF NextBackend
      <4> QED
        BY <2>2, <4>1, <4>2
    <3>2. fault' = fault \/ fault' = [fault EXCEPT ![c] = "none"]
      BY <2>2 DEF NotInstalled, NextBackend
    <3>3. failures' \in [Calls -> Seq(Faults)]
      BY <2>1, <3>1 DEF TypeOK
    <3> QED
      BY <3>2, <3>3 DEF TypeOK
  <2>3. CASE \/ DirFails(c) \/ RunFailed(c) \/ IsNoPdf(c) \/ PublishFails(c)
             \/ PipeFails(c) \/ ForkFails(c) \/ TimeoutReading(c) \/ PollFails(c) \/ TimeoutWaiting(c)
    <3>1. failures' = failures /\ \E why \in Faults : fault' = [fault EXCEPT ![c] = why]
      BY <2>3 DEF DirFails, RunFailed, IsNoPdf, PublishFails, PipeFails, ForkFails, TimeoutReading,
        PollFails, TimeoutWaiting, Throw, Faults
    <3> QED
      BY <3>1 DEF TypeOK
  <2> QED
    BY <2>2, <2>3 DEF Step, CallStep, AttemptStep, BeginAttempt, MakeDir, RunEnded, IsPdf, Publish,
      RemoveDir, Return, RunStep, OpenPipe, Fork, CloseWriteEnd, Poll, NoEndYet, EndOfOutput, Reap,
      NotGone, WaitMore, Outside, ChildExits, ChildCloses, StartHelper, HelperExits, Tick, TypeOK, callVars
<1>7. runs' \in [Calls -> 0..2]
  <2>1. CASE Reap(c)
    <3>1. pc[c] = "wait" /\ runs' = [runs EXCEPT ![c] = @ - 1]
      BY <2>1 DEF Reap, Goto
    <3>2. runs[c] - 1 \in 0..2
      BY <3>1, <1>0 DEF PipeInv, ToRun, Timed, TypeOK
    <3> QED
      BY <3>1, <3>2 DEF TypeOK
  <2>2. CASE BeginAttempt(c)
    BY <2>2 DEF BeginAttempt, TypeOK
  <2> QED
    BY <2>1, <2>2 DEF Step, CallStep, AttemptStep, NotInstalled, MakeDir, DirFails, RunFailed,
      RunEnded, IsPdf, IsNoPdf, Publish, PublishFails, RemoveDir, Return, NextBackend, RunStep, OpenPipe,
      PipeFails, Fork, ForkFails, CloseWriteEnd, TimeoutReading, Poll, PollFails, NoEndYet, EndOfOutput,
      NotGone, TimeoutWaiting, WaitMore, Outside, ChildExits, ChildCloses, StartHelper, HelperExits,
      Tick, callVars, TypeOK
<1>8. dirs' \in [Calls -> SUBSET {"workspace", "profile", "out"}]
  <2>1. CASE MakeDir(c)
    <3>1. pc[c] = "dirs" /\ dirs' = [dirs EXCEPT ![c] = @ \cup {DirsOf(c)[Cardinality(dirs[c]) + 1]}]
      BY <2>1 DEF MakeDir, Goto
    <3>2. DirsOf(c)[Cardinality(dirs[c]) + 1] \in {"workspace", "profile", "out"}
      <4>1. dirs[c] = {} \/ (Backend(c) # "native" /\ dirs[c] = {"profile"})
        BY <3>1, <1>0 DEF DirsInv
      <4>2. Cardinality(dirs[c]) = 0 \/ (Backend(c) # "native" /\ Cardinality(dirs[c]) = 1)
        BY <4>1, DirCount
      <4> QED
        BY <4>2 DEF DirsOf
    <3> QED
      BY <3>1, <3>2 DEF TypeOK
  <2>2. CASE RemoveDir(c)
    BY <2>2 DEF RemoveDir, TypeOK
  <2> QED
    BY <2>1, <2>2 DEF Step, CallStep, AttemptStep, NotInstalled, BeginAttempt, DirFails, RunFailed,
      RunEnded, IsPdf, IsNoPdf, Publish, PublishFails, Return, NextBackend, RunStep, OpenPipe,
      PipeFails, Fork, ForkFails, CloseWriteEnd, TimeoutReading, Poll, PollFails, NoEndYet, EndOfOutput,
      Reap, NotGone, TimeoutWaiting, WaitMore, Outside, ChildExits, ChildCloses, StartHelper, HelperExits,
      Tick, callVars, TypeOK
<1>9. published' \in [Calls -> 0..1]
  <2>1. CASE Publish(c)
    <3>1. published[c] = 0 /\ published' = [published EXCEPT ![c] = @ + 1]
      BY <2>1, <1>0 DEF Publish, Goto, AnswerInv
    <3> QED
      BY <3>1 DEF TypeOK
  <2> QED
    BY <2>1 DEF Step, CallStep, AttemptStep, NotInstalled, BeginAttempt, MakeDir, DirFails, RunFailed,
      RunEnded, IsPdf, IsNoPdf, PublishFails, RemoveDir, Return, NextBackend, RunStep, OpenPipe,
      PipeFails, Fork, ForkFails, CloseWriteEnd, TimeoutReading, Poll, PollFails, NoEndYet, EndOfOutput,
      Reap, NotGone, TimeoutWaiting, WaitMore, Outside, ChildExits, ChildCloses, StartHelper, HelperExits,
      Tick, TypeOK
<1> QED
  BY <1>1, <1>2, <1>3, <1>4, <1>5, <1>6, <1>7, <1>8, <1>9 DEF TypeOK

-----------------------------------------------------------------------------
(* What a step does to the other calls, and to their pipes.                *)

\* What a step of another call does not touch.  The write end of a pipe is all
\* that calls share.
Local(c) ==
  <<pc[c], attempt[c], failures[c], fault[c], runs[c], dirs[c], reading[c], child[c], status[c],
    produced[c], published[c]>>

LEMMA OthersWait ==
  ASSUME IInv, NEW c \in Calls, Step(c), NEW d \in Calls \ {c}
  PROVE  UNCHANGED Local(d)
<1> USE DEF IInv, TypeOK, Local, callVars, pipeVars, processVars
<1>1. CASE AttemptStep(c)
  <2>1. CASE DirFails(c) \/ RunFailed(c) \/ IsNoPdf(c) \/ PublishFails(c)
    BY <2>1 DEF DirFails, RunFailed, IsNoPdf, PublishFails, Goto, Throw
  <2>2. CASE NotInstalled(c) \/ BeginAttempt(c) \/ MakeDir(c) \/ RemoveDir(c) \/ NextBackend(c)
    BY <2>2 DEF NotInstalled, BeginAttempt, MakeDir, RemoveDir, NextBackend, Goto
  <2>3. CASE RunEnded(c) \/ IsPdf(c) \/ Publish(c) \/ Return(c)
    BY <2>3 DEF RunEnded, IsPdf, Publish, Return, Goto
  <2> QED
    BY <1>1, <2>1, <2>2, <2>3 DEF AttemptStep
<1>2. CASE RunStep(c)
  BY <1>2 DEF RunStep, OpenPipe, PipeFails, Fork, ForkFails, CloseWriteEnd, TimeoutReading, Poll,
    PollFails, NoEndYet, EndOfOutput, Reap, NotGone, TimeoutWaiting, WaitMore, Kill, Goto, Throw
<1>3. CASE Outside(c)
  BY <1>3 DEF Outside, ChildExits, ChildCloses, StartHelper, HelperExits, Tick
<1> QED
  BY <1>1, <1>2, <1>3 DEF Step, CallStep

\* Nobody comes to hold a pipe but by inheriting it from a process that does,
\* and the server's end is opened only by the call itself.
LEMMA PipesPassOn ==
  ASSUME IInv, NEW c \in Calls, Step(c), NEW d \in Calls, d # c \/ ~OpenPipe(c)
  PROVE  /\ Server \in writers'[d] => Server \in writers[d]
         /\ writers[d] = {} => writers'[d] = {}
<1> USE DEF IInv, TypeOK, pipeVars
<1>1. CASE AttemptStep(c)
  BY <1>1 DEF AttemptStep, NotInstalled, BeginAttempt, MakeDir, DirFails, RunFailed, RunEnded, IsPdf,
    IsNoPdf, Publish, PublishFails, RemoveDir, Return, NextBackend
<1>2. CASE OpenPipe(c) \/ ForkFails(c) \/ CloseWriteEnd(c)
  BY <1>2 DEF OpenPipe, ForkFails, CloseWriteEnd
<1>3. CASE Fork(c) \/ StartHelper(c)
  BY <1>3, ProcessesOf DEF Fork, StartHelper
<1>4. CASE TimeoutReading(c) \/ PollFails(c) \/ TimeoutWaiting(c) \/ ChildExits(c) \/ ChildCloses(c) \/ HelperExits(c)
  BY <1>4 DEF TimeoutReading, PollFails, TimeoutWaiting, ChildExits, ChildCloses, HelperExits, Kill, Released
<1> QED
  BY <1>1, <1>2, <1>3, <1>4 DEF Step, CallStep, RunStep, PipeFails, Poll, NoEndYet, EndOfOutput, Reap,
    NotGone, WaitMore, Outside, Tick

LEMMA OthersKept ==
  ASSUME IInv, NEW c \in Calls, Step(c), NEW d \in Calls \ {c}
  PROVE  DirsInv(d)' /\ PipeInv(d)' /\ AnswerInv(d)'
<1>1. UNCHANGED Local(d)
  BY OthersWait
<1>2. /\ Server \in writers'[d] => Server \in writers[d]
      /\ writers[d] = {} => writers'[d] = {}
  BY PipesPassOn
<1>3. DirsInv(d) /\ PipeInv(d) /\ AnswerInv(d)
  BY DEF IInv
<1>4. DirsInv(d)'
  BY <1>1, <1>3 DEF Local, DirsInv, Backend
<1>5. PipeInv(d)'
  BY <1>1, <1>2, <1>3 DEF Local, PipeInv
<1>6. AnswerInv(d)'
  BY <1>1, <1>3 DEF Local, AnswerInv
<1> QED
  BY <1>4, <1>5, <1>6

-----------------------------------------------------------------------------
(* What a step leaves its own call with.                                   *)

\* The directories come in order and go in reverse.
LEMMA DirsKept ==
  ASSUME IInv, NEW c \in Calls, Step(c)
  PROVE  DirsInv(c)'
<1> USE DEF IInv
<1>0. TypeOK /\ DirsInv(c) /\ Backend(c) \in {"native", "libre"}
  BY RouteOf DEF Backend, TypeOK
<1>1. CASE MakeDir(c)
  <2>1. /\ pc[c] = "dirs" /\ attempt' = attempt
        /\ pc'[c] = IF Cardinality(dirs[c]) + 1 = Len(DirsOf(c)) THEN "pipe" ELSE "dirs"
        /\ dirs'[c] = dirs[c] \cup {DirsOf(c)[Cardinality(dirs[c]) + 1]}
    BY <1>0, <1>1 DEF MakeDir, Goto, TypeOK
  <2>2. CASE Backend(c) = "native"
    <3>1. dirs[c] = {} /\ Cardinality(dirs[c]) = 0 /\ DirsOf(c) = <<"workspace">>
      BY <1>0, <2>1, <2>2, DirCount DEF DirsInv, DirsOf
    <3>2. pc'[c] = "pipe" /\ dirs'[c] = {"workspace"}
      BY <2>1, <3>1
    <3> QED
      BY <2>1, <2>2, <3>2 DEF DirsInv, Backend, Resting
  <2>3. CASE Backend(c) = "libre"
    <3>1. DirsOf(c) = <<"profile", "out">>
      BY <2>3 DEF DirsOf
    <3>2. CASE dirs[c] = {}
      <4>1. pc'[c] = "dirs" /\ dirs'[c] = {"profile"}
        BY <2>1, <3>1, <3>2, DirCount
      <4> QED
        BY <2>1, <2>3, <4>1 DEF DirsInv, Backend, Resting
    <3>3. CASE dirs[c] = {"profile"}
      <4>1. pc'[c] = "pipe" /\ dirs'[c] = {"profile", "out"}
        BY <2>1, <3>1, <3>3, DirCount
      <4> QED
        BY <2>1, <2>3, <4>1 DEF DirsInv, Backend, Resting
    <3> QED
      BY <1>0, <2>1, <2>3, <3>2, <3>3 DEF DirsInv
  <2> QED
    BY <1>0, <2>2, <2>3
<1>2. CASE RemoveDir(c)
  <2>1. /\ pc[c] = "cleanup" /\ pc'[c] = "cleanup" /\ attempt' = attempt /\ dirs[c] # {}
        /\ dirs'[c] = dirs[c] \ {DirsOf(c)[Cardinality(dirs[c])]}
    BY <1>0, <1>2 DEF RemoveDir, TypeOK
  <2>2. CASE Backend(c) = "native"
    <3>1. dirs[c] = {"workspace"} /\ DirsOf(c) = <<"workspace">>
      BY <1>0, <2>1, <2>2 DEF DirsInv, DirsOf
    <3>2. dirs'[c] = {}
      BY <2>1, <3>1, DirCount
    <3> QED
      BY <2>1, <2>2, <3>2 DEF DirsInv, Backend
  <2>3. CASE Backend(c) = "libre"
    <3>1. DirsOf(c) = <<"profile", "out">>
      BY <2>3 DEF DirsOf
    <3>2. CASE dirs[c] = {"profile"}
      <4>1. dirs'[c] = {}
        BY <2>1, <3>1, <3>2, DirCount
      <4> QED
        BY <2>1, <2>3, <4>1 DEF DirsInv, Backend
    <3>3. CASE dirs[c] = {"profile", "out"}
      <4>1. dirs'[c] = {"profile"}
        BY <2>1, <3>1, <3>3, DirCount
      <4> QED
        BY <2>1, <2>3, <4>1 DEF DirsInv, Backend, Resting
    <3> QED
      BY <1>0, <2>1, <2>3, <3>2, <3>3 DEF DirsInv
  <2> QED
    BY <1>0, <2>2, <2>3
<1>3. CASE NotInstalled(c) \/ Return(c) \/ NextBackend(c) \/ BeginAttempt(c)
  <2>1. dirs'[c] = {}
    BY <1>0, <1>3 DEF NotInstalled, Return, NextBackend, BeginAttempt, Goto, DirsInv, Resting, callVars
  <2> QED
    BY <2>1 DEF DirsInv
<1>4. CASE AttemptStep(c) /\ ~MakeDir(c) /\ ~RemoveDir(c) /\ ~NotInstalled(c) /\ ~Return(c)
           /\ ~NextBackend(c) /\ ~BeginAttempt(c)
  <2>1. dirs' = dirs /\ attempt' = attempt /\ pc'[c] \in {"pipe", "check", "publish", "cleanup"}
    BY <1>0, <1>4 DEF AttemptStep, DirFails, RunFailed, RunEnded, IsPdf, IsNoPdf, Publish, PublishFails,
      Goto, Throw, TypeOK, callVars
  <2> QED
    BY <1>0, <2>1 DEF DirsInv, Backend, Resting
<1>5. CASE RunStep(c)
  <2>1. dirs' = dirs /\ attempt' = attempt
    BY <1>5 DEF RunStep, OpenPipe, PipeFails, Fork, ForkFails, CloseWriteEnd, TimeoutReading, Poll,
      PollFails, NoEndYet, EndOfOutput, Reap, NotGone, TimeoutWaiting, WaitMore, callVars
  <2>2. pc'[c] \in {"fork", "parent", "ran", "cleanup"} \cup Timed
    BY <1>0, <1>5 DEF RunStep, OpenPipe, PipeFails, Fork, ForkFails, CloseWriteEnd, TimeoutReading, Poll,
      PollFails, NoEndYet, EndOfOutput, Reap, NotGone, TimeoutWaiting, WaitMore, Goto, Throw, TypeOK, Timed
  <2> QED
    BY <1>0, <2>1, <2>2 DEF DirsInv, Backend, Resting, Timed
<1>6. CASE Outside(c)
  BY <1>0, <1>6 DEF Outside, ChildExits, ChildCloses, StartHelper, HelperExits, Tick, DirsInv, Backend, callVars
<1> QED
  BY <1>1, <1>2, <1>3, <1>4, <1>5, <1>6 DEF Step, CallStep

\* A call closes its ends of the pipe and has its child gone before it goes on,
\* and goes on to publish only past the end of the output.
LEMMA PipeKept ==
  ASSUME IInv, NEW c \in Calls, Step(c)
  PROVE  PipeInv(c)'
<1> USE DEF IInv
<1>0. TypeOK /\ PipeInv(c)
  OBVIOUS
<1>1. CASE AttemptStep(c)
  <2>1. writers' = writers /\ reading' = reading /\ child' = child /\ status' = status
    BY <1>1 DEF AttemptStep, NotInstalled, BeginAttempt, MakeDir, DirFails, RunFailed, RunEnded, IsPdf,
      IsNoPdf, Publish, PublishFails, RemoveDir, Return, NextBackend, pipeVars, processVars
  <2>2. CASE BeginAttempt(c)
    <3>1. pc[c] = "pick" /\ pc'[c] = "dirs" /\ runs'[c] > 0
      BY <2>2 DEF BeginAttempt, Goto, TypeOK
    <3> QED
      BY <1>0, <2>1, <3>1 DEF PipeInv, Timed
  <2>3. CASE MakeDir(c)
    <3>1. pc[c] = "dirs" /\ pc'[c] \in {"dirs", "pipe"} /\ runs' = runs
      BY <2>3 DEF MakeDir, Goto, TypeOK
    <3> QED
      BY <1>0, <2>1, <3>1 DEF PipeInv, ToRun, Timed
  <2>4. CASE RunEnded(c)
    <3>1. pc[c] = "ran" /\ status[c] = "ok" /\ runs' = runs
          /\ (pc'[c] = "check" \/ (pc'[c] = "pipe" /\ runs[c] > 0))
      BY <2>4 DEF RunEnded, Goto, TypeOK, callVars
    <3> QED
      BY <1>0, <2>1, <3>1 DEF PipeInv, ToRun, Timed
  <2>5. CASE IsPdf(c)
    <3>1. pc[c] = "check" /\ pc'[c] = "publish" /\ produced'[c] = "pdf"
      BY <2>5 DEF IsPdf, Goto, TypeOK, processVars
    <3> QED
      BY <1>0, <2>1, <3>1 DEF PipeInv, ToRun, Timed
  <2>6. CASE DirFails(c) \/ RunFailed(c) \/ IsNoPdf(c) \/ Publish(c) \/ PublishFails(c)
    <3>1. pc[c] \in {"dirs", "ran", "check", "publish"} /\ pc'[c] = "cleanup"
      BY <2>6 DEF DirFails, RunFailed, IsNoPdf, Publish, PublishFails, Goto, Throw, TypeOK
    <3> QED
      BY <1>0, <2>1, <3>1 DEF PipeInv, ToRun, Timed
  <2>7. CASE NotInstalled(c) \/ RemoveDir(c) \/ Return(c) \/ NextBackend(c)
    <3>1. pc[c] \in {"pick", "cleanup"} /\ pc'[c] \in {"pick", "cleanup", "done", "failed"}
      BY <2>7 DEF NotInstalled, RemoveDir, Return, NextBackend, Goto, TypeOK
    <3> QED
      BY <1>0, <2>1, <3>1 DEF PipeInv, ToRun, Timed
  <2> QED
    BY <1>1, <2>2, <2>3, <2>4, <2>5, <2>6, <2>7 DEF AttemptStep
<1>2. CASE OpenPipe(c)
  BY <1>0, <1>2 DEF OpenPipe, Goto, PipeInv, ToRun, Timed, TypeOK, callVars, processVars
<1>3. CASE Fork(c)
  BY <1>0, <1>3 DEF Fork, Goto, PipeInv, ToRun, Timed, TypeOK, callVars
<1>4. CASE PipeFails(c) \/ ForkFails(c) \/ TimeoutReading(c) \/ PollFails(c) \/ TimeoutWaiting(c)
  <2>1. pc[c] \in {"pipe", "fork", "loop", "poll", "clock"} /\ pc'[c] = "cleanup"
    BY <1>4 DEF PipeFails, ForkFails, TimeoutReading, PollFails, TimeoutWaiting, Throw, Goto, TypeOK
  <2>2. Server \notin writers'[c]
    <3>1. CASE ForkFails(c)
      BY <3>1 DEF ForkFails, TypeOK
    <3>2. CASE ~ForkFails(c)
      <4>1. ~OpenPipe(c) /\ pc[c] # "fork" /\ pc[c] # "parent"
        BY <1>4, <2>1, <3>2 DEF OpenPipe, PipeFails, ForkFails, TimeoutReading, PollFails, TimeoutWaiting,
          Throw, Goto, TypeOK
      <4> QED
        BY <1>0, <4>1, PipesPassOn DEF PipeInv
    <3> QED
      BY <3>1, <3>2
  <2>3. ~reading'[c] /\ child'[c] = "none"
    BY <1>0, <1>4 DEF PipeFails, ForkFails, TimeoutReading, PollFails, TimeoutWaiting, Kill, Throw, Goto,
      TypeOK, pipeVars, processVars, PipeInv, Timed
  <2> QED
    BY <2>1, <2>2, <2>3 DEF PipeInv, ToRun, Timed
<1>5. CASE CloseWriteEnd(c)
  BY <1>0, <1>5 DEF CloseWriteEnd, Goto, PipeInv, ToRun, Timed, TypeOK, callVars
<1>6. CASE Poll(c) \/ NoEndYet(c) \/ NotGone(c) \/ WaitMore(c)
  <2>1. /\ UNCHANGED <<writers, reading, child, runs, status, produced>>
        /\ \/ pc[c] \in {"loop", "poll"} /\ pc'[c] \in {"loop", "poll"}
           \/ pc[c] \in {"wait", "clock"} /\ pc'[c] \in {"wait", "clock"}
    BY <1>6 DEF Poll, NoEndYet, NotGone, WaitMore, Goto, TypeOK, callVars, pipeVars, processVars
  <2> QED
    BY <1>0, <2>1 DEF PipeInv, ToRun, Timed
<1>7. CASE EndOfOutput(c)
  BY <1>0, <1>7 DEF EndOfOutput, Goto, PipeInv, ToRun, Timed, TypeOK, callVars, processVars
<1>8. CASE Reap(c)
  <2>1. /\ pc[c] = "wait" /\ pc'[c] = "ran" /\ child'[c] = "none"
        /\ UNCHANGED <<writers, reading, status, produced>>
    BY <1>8 DEF Reap, Goto, TypeOK, pipeVars
  <2> QED
    BY <1>0, <2>1 DEF PipeInv, ToRun, Timed
<1>9. CASE Outside(c)
  <2>1. /\ UNCHANGED <<pc, runs, reading>>
        /\ \/ child[c] = "running"
           \/ child'[c] = child[c] /\ status'[c] = status[c]
    BY <1>9 DEF Outside, ChildExits, ChildCloses, StartHelper, HelperExits, Tick, TypeOK, callVars,
      pipeVars, processVars
  <2>2. /\ Server \in writers'[c] => Server \in writers[c]
        /\ writers[c] = {} => writers'[c] = {}
    <3>1. ~OpenPipe(c)
      BY <2>1 DEF OpenPipe, Goto, TypeOK
    <3> QED
      BY <3>1, PipesPassOn
  <2>3. pc[c] = "publish" => produced'[c] = produced[c]
    <3>1. pc[c] = "publish" => child[c] # "running" /\ writers[c] = {}
      BY <1>0 DEF PipeInv, Timed
    <3> QED
      BY <3>1, <1>9 DEF Outside, ChildExits, ChildCloses, StartHelper, HelperExits, Tick, TypeOK, processVars
  <2>4. child'[c] # "none" => child[c] # "none"
    BY <2>1
  <2> QED
    BY <1>0, <2>1, <2>2, <2>3, <2>4 DEF PipeInv, ToRun, Timed
<1> QED
  BY <1>1, <1>2, <1>3, <1>4, <1>5, <1>6, <1>7, <1>8, <1>9 DEF Step, CallStep, RunStep

\* Every failure is kept with the attempt it ended.
LEMMA AnswerKept ==
  ASSUME IInv, NEW c \in Calls, Step(c)
  PROVE  AnswerInv(c)'
<1> USE DEF IInv
<1>0. TypeOK /\ AnswerInv(c) /\ attempt[c] \in Nat /\ failures[c] \in Seq(Faults) /\ Len(failures[c]) \in Nat
  BY LenProperties DEF TypeOK
<1>1. CASE NotInstalled(c)
  <2>1. /\ pc'[c] = pc[c] /\ pc[c] = "pick" /\ attempt'[c] = attempt[c] + 1 /\ UNCHANGED <<fault, published>>
        /\ failures'[c] = Append(failures[c], "not installed")
    BY <1>1 DEF NotInstalled, TypeOK
  <2>2. PICK why \in Faults : failures'[c] = Append(failures[c], why)
    BY <2>1 DEF Faults
  <2>3. Len(failures'[c]) = Len(failures[c]) + 1
    BY <1>0, <2>2, AppendProperties
  <2>4. Len(failures[c]) = attempt[c] - 1 /\ published[c] = 0
    BY <1>0, <2>1 DEF AnswerInv
  <2>5. Len(failures'[c]) = attempt'[c] - 1
    <3>1. attempt'[c] = attempt[c] + 1
      BY <2>1
    <3> QED
      BY <1>0, <2>3, <2>4, <3>1
  <2> QED
    BY <1>0, <2>1, <2>4, <2>5 DEF AnswerInv
<1>2. CASE NextBackend(c)
  <2>1. /\ pc[c] = "cleanup" /\ fault[c] # "none" /\ fault'[c] = "none" /\ published' = published
        /\ failures'[c] = Append(failures[c], fault[c])
        /\ \/ attempt[c] = Len(Route[c]) /\ pc'[c] = "failed"
           \/ attempt[c] # Len(Route[c]) /\ pc'[c] = "pick" /\ attempt'[c] = attempt[c] + 1
    BY <1>2 DEF NextBackend, Goto, TypeOK
  <2>2. fault[c] \in Faults
    BY <2>1 DEF TypeOK
  <2>3. Len(failures'[c]) = Len(failures[c]) + 1
    BY <1>0, <2>1, <2>2, AppendProperties
  <2>4. published[c] = 0 /\ Len(failures[c]) = attempt[c] - 1
    BY <1>0, <2>1 DEF AnswerInv
  <2> QED
    BY <1>0, <2>1, <2>3, <2>4 DEF AnswerInv
<1>3. CASE Publish(c)
  <2>1. /\ pc[c] = "publish" /\ pc'[c] = "cleanup" /\ published'[c] = published[c] + 1
        /\ UNCHANGED <<attempt, failures, fault>>
    BY <1>3 DEF Publish, Goto, TypeOK, callVars
  <2> QED
    BY <1>0, <2>1 DEF AnswerInv
<1>4. CASE \/ DirFails(c) \/ RunFailed(c) \/ IsNoPdf(c) \/ PublishFails(c)
           \/ PipeFails(c) \/ ForkFails(c) \/ TimeoutReading(c) \/ PollFails(c) \/ TimeoutWaiting(c)
  <2>1. /\ pc[c] \in {"dirs", "ran", "check", "publish", "pipe", "fork"} \cup Timed /\ pc'[c] = "cleanup"
        /\ UNCHANGED <<attempt, failures, published>> /\ fault'[c] # "none"
    BY <1>4 DEF DirFails, RunFailed, IsNoPdf, PublishFails, PipeFails, ForkFails, TimeoutReading, PollFails,
      TimeoutWaiting, Throw, Goto, TypeOK, Timed
  <2> QED
    BY <1>0, <2>1 DEF AnswerInv, Timed
<1>5. CASE Return(c)
  <2>1. /\ pc[c] = "cleanup" /\ pc'[c] = "done" /\ fault[c] = "none"
        /\ UNCHANGED <<attempt, failures, fault, published>>
    BY <1>5 DEF Return, Goto, TypeOK, callVars
  <2> QED
    BY <1>0, <2>1 DEF AnswerInv
<1>6. CASE RemoveDir(c) \/ Outside(c)
  <2>1. UNCHANGED <<pc, attempt, failures, fault, published>>
    BY <1>6 DEF RemoveDir, Outside, ChildExits, ChildCloses, StartHelper, HelperExits, Tick, callVars
  <2> QED
    BY <1>0, <2>1 DEF AnswerInv
<1>7. CASE \/ BeginAttempt(c) \/ MakeDir(c) \/ RunEnded(c) \/ IsPdf(c)
           \/ OpenPipe(c) \/ Fork(c) \/ CloseWriteEnd(c) \/ Poll(c) \/ NoEndYet(c) \/ EndOfOutput(c)
           \/ Reap(c) \/ NotGone(c) \/ WaitMore(c)
  <2>1. UNCHANGED <<attempt, failures, fault, published>>
    BY <1>7 DEF BeginAttempt, MakeDir, RunEnded, IsPdf, OpenPipe, Fork, CloseWriteEnd, Poll, NoEndYet,
      EndOfOutput, Reap, NotGone, WaitMore, callVars
  <2>2. pc[c] \notin {"cleanup", "done", "failed"} /\ pc'[c] \notin {"cleanup", "done", "failed"}
    BY <1>7 DEF BeginAttempt, MakeDir, RunEnded, IsPdf, OpenPipe, Fork, CloseWriteEnd, Poll, NoEndYet,
      EndOfOutput, Reap, NotGone, WaitMore, Goto, TypeOK
  <2> QED
    BY <1>0, <2>1, <2>2 DEF AnswerInv
<1> QED
  BY <1>1, <1>2, <1>3, <1>4, <1>5, <1>6, <1>7 DEF Step, CallStep, AttemptStep, RunStep

-----------------------------------------------------------------------------
(* The invariant and what follows from it.                                 *)

LEMMA InvariantInit == Init => IInv
<1> SUFFICES ASSUME Init PROVE IInv
  OBVIOUS
<1>1. TypeOK /\ attempt \in [Calls -> Nat]
  <2>1. <<>> \in Seq(Faults)
    BY EmptySeq
  <2>2. \A c \in Calls : attempt[c] \in 1..Len(Route[c])
    BY RouteOf DEF Init
  <2> QED
    BY <2>1, <2>2 DEF Init, TypeOK, Results
<1>2. ASSUME NEW c \in Calls PROVE DirsInv(c) /\ PipeInv(c) /\ AnswerInv(c)
  <2>1. pc[c] \in {"pick", "never"} /\ Len(failures[c]) = 0
    BY EmptySeq DEF Init
  <2> QED
    BY <2>1 DEF Init, DirsInv, PipeInv, AnswerInv, ToRun, Timed
<1> QED
  BY <1>1, <1>2 DEF IInv

LEMMA InvariantStep == IInv /\ [Next]_vars => IInv'
<1> SUFFICES ASSUME IInv, [Next]_vars PROVE IInv'
  OBVIOUS
<1>1. CASE UNCHANGED vars
  <2> USE <1>1 DEF vars, callVars, pipeVars, processVars, IInv
  <2>1. TypeOK' /\ attempt' \in [Calls -> Nat]
    BY DEF TypeOK
  <2>2. \A c \in Calls : DirsInv(c)' /\ PipeInv(c)' /\ AnswerInv(c)'
    BY DEF DirsInv, PipeInv, AnswerInv, Backend
  <2> QED
    BY <2>1, <2>2
<1>2. ASSUME NEW c \in Calls, Step(c) PROVE IInv'
  <2>1. TypeOK' /\ attempt' \in [Calls -> Nat]
    BY <1>2, TypeStep
  <2>2. DirsInv(c)' /\ PipeInv(c)' /\ AnswerInv(c)'
    BY <1>2, DirsKept, PipeKept, AnswerKept
  <2>3. \A d \in Calls \ {c} : DirsInv(d)' /\ PipeInv(d)' /\ AnswerInv(d)'
    BY <1>2, OthersKept
  <2> QED
    BY <2>1, <2>2, <2>3 DEF IInv
<1> QED
  BY <1>1, <1>2, NextIsStep

\* Every reachable state of any instance satisfies the invariant.
THEOREM Invariance == Spec => []IInv
<1>1. Init => IInv
  BY InvariantInit
<1>2. IInv /\ [Next]_vars => IInv'
  BY InvariantStep
<1> QED
  BY <1>1, <1>2, PTL DEF Spec

\* An attempt leaves no descriptor, no directory and no child to the next or to
\* the caller, whichever way it ended (the guards and RunCapture's exits).
THEOREM AttemptsAreClean == Spec => []AttemptsClean
<1>1. IInv => AttemptsClean
  BY DEF IInv, AttemptsClean, NothingLeft, DirsInv, PipeInv, Resting, Timed
<1> QED
  BY <1>1, Invariance, PTL

\* A call succeeds with one publication, or fails with a failure of every
\* backend and none (pdf_office::Convert).
THEOREM BackendsAnswer == Spec => []EveryBackendAnswers
<1>1. IInv => EveryBackendAnswers
  BY DEF IInv, EveryBackendAnswers, AnswerInv
<1> QED
  BY <1>1, Invariance, PTL

\* Nobody writes a result any more when it is published, whatever the converter
\* started and whoever inherited its pipe.
THEOREM FinishedBeforePublished == Spec => PublishedWhenFinished
<1> DEFINE A == \A c \in Calls : published'[c] # published[c] =>
                  child[c] = "none" /\ writers[c] = {} /\ status[c] = "ok" /\ produced[c] = "pdf"
<1>1. IInv /\ [Next]_vars => [A]_vars
  <2> SUFFICES ASSUME IInv, Next, NEW c \in Calls, published'[c] # published[c]
               PROVE  child[c] = "none" /\ writers[c] = {} /\ status[c] = "ok" /\ produced[c] = "pdf"
    OBVIOUS
  <2>1. PICK d \in Calls : Step(d)
    BY NextIsStep
  <2>2. c = d
    BY <2>1, OthersWait DEF Local
  <2>3. pc[c] = "publish"
    BY <2>1, <2>2 DEF Step, CallStep, AttemptStep, NotInstalled, BeginAttempt, MakeDir, DirFails, RunFailed,
      RunEnded, IsPdf, IsNoPdf, Publish, PublishFails, RemoveDir, Return, NextBackend, RunStep, OpenPipe,
      PipeFails, Fork, ForkFails, CloseWriteEnd, TimeoutReading, Poll, PollFails, NoEndYet, EndOfOutput,
      Reap, NotGone, TimeoutWaiting, WaitMore, Outside, ChildExits, ChildCloses, StartHelper, HelperExits,
      Tick, Goto
  <2> QED
    BY <2>3 DEF IInv, PipeInv, Timed
<1>2. Spec => [][A]_vars
  <2> HIDE DEF A
  <2> QED
    BY <1>1, Invariance, PTL DEF Spec
<1> QED
  BY <1>2 DEF PublishedWhenFinished
=============================================================================
