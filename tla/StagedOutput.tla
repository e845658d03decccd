---------------------------- MODULE StagedOutput ----------------------------
(***************************************************************************)
(* How the writing functions of src/src/pdf_extension.cpp, qpdf_ops.cpp    *)
(* and pdf_family_scalars.hpp put a file in place: a staging file reserved *)
(* beside the destination (mkstemp), written, renamed over the destination *)
(* and removed by its destructor when it was not (AtomicPdfOutput,         *)
(* SplitStagedOutput, TempFileGuard).                                      *)
(*                                                                         *)
(* Jobs are calls of these functions, in any processes: QpdfMutex orders   *)
(* only those of one process, so no order between their steps is assumed.  *)
(* A step is one file-system call, or the work between two of them.  Files *)
(* are inodes; a path names one.                                           *)
(***************************************************************************)
EXTENDS Integers, Sequences, FiniteSets

CONSTANTS
  Jobs,
  Overlaps,      (* sets of jobs that run at the same time                  *)
  Kind,          (* of each job: one of Kinds                               *)
  In, Out,       (* of each job: its inputs, its destinations, as spelled   *)
  Paths,         (* directory entries                                       *)
  Entry,         (* which of them each spelling of a path leads to          *)
  Originals,     (* the files there at first                                *)
  Links,         (* which of them each path names, or NoInode               *)
  DiskPages,     (* their page counts                                       *)
  Suffixes,      (* what mkstemp puts in place of XXXXXX                    *)
  MaxPages,      (* pages of a document made from text, or of an extract    *)
  MaxFiles,      (* files one job makes                                     *)
  NoInode, Nobody

Kinds == {"rewrite", "extract", "chain", "author", "images", "split", "blank", "ocr", "redact"}

\* Kinds that refuse to write over their input, and kinds that write parts.
Guarded == {"rewrite", "extract", "chain", "ocr", "redact"}
Parted == {"split", "blank", "images"}

\* Kinds that read their input in full before they stage anything, and kinds
\* that compare what they read with the input they open again to write.
ReadsFirst == {"ocr", "redact", "blank", "images"}
Rechecks == {"ocr", "redact"}

Made == Jobs \X (1..MaxFiles)
Inodes == Originals \cup Made
StagingNames == Paths \X Suffixes
LayerNames == Jobs \X (1..MaxFiles)
TempNames == StagingNames \cup LayerNames
Names == Paths \cup TempNames

ASSUME StagedAssumption ==
  /\ Overlaps \subseteq SUBSET Jobs
  /\ Kind \in [Jobs -> Kinds]
  /\ In \in [Jobs -> Seq(DOMAIN Entry)] /\ Out \in [Jobs -> Seq(DOMAIN Entry)]
  /\ \A spelling \in DOMAIN Entry : Entry[spelling] \in Paths
  /\ \A j \in Jobs : (Kind[j] # "author") => In[j] # <<>>
  /\ \A j \in Jobs : Out[j] # <<>>
  /\ Links \in [Paths -> Originals \cup {NoInode}]
  /\ DiskPages \in [Originals -> Nat]
  /\ MaxPages \in Nat \ {0} /\ MaxFiles \in Nat \ {0}
  /\ NoInode \notin Inodes /\ Nobody \notin Jobs
  /\ Originals \cap Made = {}
  /\ Paths \cap TempNames = {} /\ StagingNames \cap LayerNames = {}

VARIABLES
  names,         (* the directory: the inode of each name                   *)
  file,          (* inodes: who wrote it, is it complete, how many pages    *)
  made,          (* files each job has made                                 *)
  pc, verdict,   (* where a job is; how it will end                         *)
  temps,         (* names its destructors will remove, oldest first         *)
  held,          (* inodes it has open                                      *)
  seen,          (* page count of the input it read first                   *)
  parts, published

diskVars == <<names, file, made>>
jobVars == <<verdict, temps, held, seen>>
partVars == <<parts, published>>
vars == <<diskVars, pc, jobVars, partVars>>

Init ==
  /\ names = [n \in Names |-> IF n \in Paths THEN Links[n] ELSE NoInode]
  /\ file = [i \in Inodes |->
       IF i \in Originals THEN [by |-> Nobody, whole |-> TRUE, pages |-> DiskPages[i]]
       ELSE [by |-> Nobody, whole |-> FALSE, pages |-> 0]]
  /\ made = [j \in Jobs |-> 0]
  /\ \E called \in Overlaps : pc = [j \in Jobs |-> IF j \in called THEN "check" ELSE "never"]
  /\ verdict = [j \in Jobs |-> "none"]
  /\ temps = [j \in Jobs |-> <<>>]
  /\ held = [j \in Jobs |-> <<>>]
  /\ seen = [j \in Jobs |-> 0]
  /\ parts = [j \in Jobs |-> 0]
  /\ published = [j \in Jobs |-> 0]

-----------------------------------------------------------------------------
Goto(j, from, to) ==
  /\ pc[j] = from
  /\ pc' = [pc EXCEPT ![j] = to]

Empty(j) == [by |-> j, whole |-> FALSE, pages |-> 0]
Complete(j, n) == [by |-> j, whole |-> TRUE, pages |-> n]

NewInode(j) == <<j, made[j] + 1>>
LastTemp(j) == temps[j][Len(temps[j])]
ButLast(s) == SubSeq(s, 1, Len(s) - 1)

\* Job j makes a file under name n.
Create(j, n, content) ==
  /\ made[j] < MaxFiles
  /\ names' = [names EXCEPT ![n] = NewInode(j)]
  /\ file' = [file EXCEPT ![NewInode(j)] = content]
  /\ made' = [made EXCEPT ![j] = @ + 1]

\* The k-th input, and the destination of the next part.
Input(j, k) == names[Entry[In[j][k]]]
Target(j) == Entry[Out[j][published[j] + 1]]

\* Mutant: only the spellings are compared.
SameSpelling(p, q) == p = q

\* PdfSameFile: the same spelling, or the same device and inode.
SameFile(p, q) ==
  \/ p = q
  \/ names[Entry[p]] # NoInode /\ names[Entry[p]] = names[Entry[q]]

FirstStep(j) ==
  CASE Kind[j] \in ReadsFirst -> "read"
    [] Kind[j] = "split" -> "open"
    [] OTHER -> "stage"

-----------------------------------------------------------------------------
Overwrites(j, input) == Kind[j] \in Guarded /\ SameFile(input, Out[j][1])

\* The inputs exist and, for a guarded job, none is the destination.
Check(j) ==
  /\ Goto(j, "check", FirstStep(j))
  /\ \A k \in 1..Len(In[j]) :
       /\ Input(j, k) # NoInode
       /\ ~Overwrites(j, In[j][k])
  /\ parts' = [parts EXCEPT ![j] = IF Kind[j] \in Parted THEN 0 ELSE 1]
  /\ UNCHANGED <<diskVars, jobVars, published>>

\* The whole input is read into memory and the page count taken from it.
\* Pages to render and ranges between blank pages are chosen from these bytes;
\* all but the images open the path again to write.
Read(j) ==
  /\ Goto(j, "read", CASE Kind[j] = "ocr" -> "layer"
                       [] Kind[j] = "redact" -> "geometry"
                       [] Kind[j] = "blank" -> "open"
                       [] OTHER -> "next")
  /\ LET input == file[Input(j, 1)] IN
       /\ input.whole
       /\ seen' = [seen EXCEPT ![j] = input.pages]
       /\ IF Kind[j] \in Parted
          THEN \E n \in 0..input.pages :
                 n <= Len(Out[j]) /\ parts' = [parts EXCEPT ![j] = n]
          ELSE UNCHANGED parts
  /\ UNCHANGED <<diskVars, verdict, temps, held, published>>

\* pdf_redact reads the crop boxes from the path, a second time.
Geometry(j) ==
  /\ Goto(j, "geometry", "stage")
  /\ file[Input(j, 1)].whole
  /\ file[Input(j, 1)].pages = seen[j]
  /\ UNCHANGED <<diskVars, jobVars, partVars>>

-----------------------------------------------------------------------------
(* pdf_ocr keeps the text layer of a page in a file of its own.  The       *)
(* TempFileGuard exists before the file does.                              *)

\* Another page, or the second pass over one, gets a layer name.
GuardLayer(j) ==
  /\ Goto(j, "layer", "render")
  /\ made[j] + 1 < MaxFiles
  /\ temps' = [temps EXCEPT ![j] = Append(@, <<j, made[j] + 1>>)]
  /\ UNCHANGED <<diskVars, verdict, held, seen, partVars>>

RenderLayer(j) ==
  /\ Goto(j, "render", "layer")
  /\ Create(j, LastTemp(j), Complete(j, 1))
  /\ UNCHANGED <<jobVars, partVars>>

\* The renderer fails and leaves an incomplete layer.
RenderFails(j) ==
  /\ Goto(j, "render", "leave")
  /\ Create(j, LastTemp(j), Empty(j))
  /\ verdict' = [verdict EXCEPT ![j] = "failed"]
  /\ UNCHANGED <<temps, held, seen, partVars>>

LayersDone(j) ==
  /\ Goto(j, "layer", "stage")
  /\ UNCHANGED <<diskVars, jobVars, partVars>>

-----------------------------------------------------------------------------
\* pdf_pages with rotate reserves two staging files, and writes the first from
\* the input, the second from the first.
NeedsAnother(j) == Kind[j] = "chain" /\ temps[j] = <<>>

\* Mutant: the destination itself is opened for writing.
StageDirectly(j) ==
  /\ Goto(j, "stage", IF Kind[j] \in Parted \cup {"author"} THEN "write" ELSE "open")
  /\ LET target == Target(j) IN
       /\ names[target] # NoInode
       /\ file' = [file EXCEPT ![names[target]] = Empty(j)]
       /\ temps' = [temps EXCEPT ![j] = Append(@, target)]
  /\ UNCHANGED <<names, made, verdict, held, seen, partVars>>

\* mkstemp: a free name beside the destination, and an empty file.
Stage(j) ==
  /\ Goto(j, "stage", CASE NeedsAnother(j) -> "stage"
                        [] Kind[j] \in Parted \cup {"author"} -> "write"
                        [] OTHER -> "open")
  /\ \E s \in Suffixes :
       LET name == <<Target(j), s>> IN
         /\ names[name] = NoInode
         /\ Create(j, name, Empty(j))
         /\ temps' = [temps EXCEPT ![j] = Append(@, name)]
  /\ UNCHANGED <<verdict, held, seen, partVars>>

\* Where a job goes when all its sources are open.
AfterOpen(j) ==
  CASE Kind[j] \in Parted -> "next"
    [] Kind[j] = "chain" -> "chain"
    [] OTHER -> "write"

\* Mutant: the page count is not compared with the first reading.
Unchecked(j, source) == TRUE

Rechecked(j, source) == Kind[j] \in Rechecks => file[source].pages = seen[j]

\* processFile: one source after the other is opened by its path and stays
\* open, since qpdf pulls objects from it while it writes.
Open(j) ==
  LET source == Input(j, Len(held[j]) + 1) IN
    /\ Goto(j, "open", IF Len(held[j]) + 1 = Len(In[j]) THEN AfterOpen(j) ELSE "open")
    /\ file[source].whole
    /\ Rechecked(j, source)
    /\ IF Kind[j] = "split"
       THEN /\ file[source].pages <= Len(Out[j])
            /\ parts' = [parts EXCEPT ![j] = file[source].pages]
       ELSE UNCHANGED parts
    /\ held' = [held EXCEPT ![j] = Append(@, source)]
    /\ UNCHANGED <<diskVars, verdict, temps, seen, published>>

\* The next part, if there is one.  The ranges of pdf_split_blank ascend, so
\* one more range than the reopened input has pages is an error.
NextPart(j) ==
  /\ published[j] < parts[j]
  /\ Goto(j, "next", "stage")
  /\ Kind[j] = "blank" => published[j] < file[held[j][1]].pages
  /\ UNCHANGED <<diskVars, jobVars, partVars>>

\* Mutant: the last part is left out.
AllPartsEarly(j) ==
  /\ published[j] + 1 = parts[j]
  /\ Goto(j, "next", "leave")
  /\ verdict' = [verdict EXCEPT ![j] = "done"]
  /\ held' = [held EXCEPT ![j] = <<>>]
  /\ UNCHANGED <<diskVars, temps, seen, partVars>>

AllParts(j) ==
  /\ published[j] = parts[j]
  /\ Goto(j, "next", "leave")
  /\ verdict' = [verdict EXCEPT ![j] = "done"]
  /\ held' = [held EXCEPT ![j] = <<>>]
  /\ UNCHANGED <<diskVars, temps, seen, partVars>>

-----------------------------------------------------------------------------
\* The page counts the output of j may have: that of the only source where
\* pages are neither dropped nor joined, else any.
Produced(j) ==
  CASE Kind[j] \in Rechecks -> {file[held[j][1]].pages}
    [] Kind[j] = "rewrite" /\ Len(In[j]) = 1 -> {file[held[j][1]].pages}
    [] OTHER -> 1..MaxPages

SourcesWhole(j) == \A k \in 1..Len(held[j]) : file[held[j][k]].whole

\* pdf_pages with rotate: the extract goes to the first staging file, which is
\* then the source.
WriteIntermediate(j) ==
  /\ Goto(j, "chain", "write")
  /\ SourcesWhole(j)
  /\ \E n \in 1..MaxPages :
       file' = [file EXCEPT ![names[temps[j][1]]] = Complete(j, n)]
  /\ held' = [held EXCEPT ![j] = <<names[temps[j][1]]>>]
  /\ UNCHANGED <<names, made, verdict, temps, seen, partVars>>

\* Mutant: a write that fails is taken for a complete one.
WriteUnchecked(j) ==
  /\ Goto(j, "write", "publish")
  /\ UNCHANGED <<diskVars, jobVars, partVars>>

Write(j) ==
  /\ Goto(j, "write", "publish")
  /\ SourcesWhole(j)
  /\ \E n \in Produced(j) :
       file' = [file EXCEPT ![names[LastTemp(j)]] = Complete(j, n)]
  /\ UNCHANGED <<names, made, jobVars, partVars>>

\* Mutant: after the rename the destructor still knows the staging name.
PublishKeepsName(j) ==
  /\ Goto(j, "publish", "next")
  /\ names' = [names EXCEPT ![Target(j)] = names[LastTemp(j)],
                            ![LastTemp(j)] = NoInode]
  /\ published' = [published EXCEPT ![j] = @ + 1]
  /\ UNCHANGED <<file, made, jobVars, parts>>

\* Mutant: what else was staged is forgotten.
PublishForgetsRest(j) ==
  /\ Goto(j, "publish", "next")
  /\ names' = [names EXCEPT ![Target(j)] = names[LastTemp(j)],
                            ![LastTemp(j)] = NoInode]
  /\ temps' = [temps EXCEPT ![j] = <<>>]
  /\ published' = [published EXCEPT ![j] = @ + 1]
  /\ UNCHANGED <<file, made, verdict, held, seen, parts>>

\* Commit: rename over the destination; the staging name is forgotten.
Publish(j) ==
  /\ Goto(j, "publish", "next")
  /\ names' = [names EXCEPT ![Target(j)] = names[LastTemp(j)],
                            ![LastTemp(j)] = NoInode]
  /\ temps' = [temps EXCEPT ![j] = ButLast(@)]
  /\ published' = [published EXCEPT ![j] = @ + 1]
  /\ UNCHANGED <<file, made, verdict, held, seen, parts>>

-----------------------------------------------------------------------------
Working == {"check", "read", "geometry", "layer", "stage", "open", "chain", "write", "publish", "next"}

\* Mutant: the exception is caught and the call returns as if all were well.
FailSilently(j) ==
  /\ pc[j] \in Working \ {"next"}
  /\ pc' = [pc EXCEPT ![j] = "leave"]
  /\ verdict' = [verdict EXCEPT ![j] = "done"]
  /\ held' = [held EXCEPT ![j] = <<>>]
  /\ UNCHANGED <<diskVars, temps, seen, partVars>>

\* Any of these calls may throw: a refused path, a missing directory, a file
\* that does not parse, a full disk, a rename that is not permitted, an
\* interruption.  An unfinished staging file stays incomplete.
Fail(j) ==
  /\ pc[j] \in Working
  /\ pc[j] = "next" => published[j] < parts[j]
  /\ pc' = [pc EXCEPT ![j] = "leave"]
  /\ verdict' = [verdict EXCEPT ![j] = "failed"]
  /\ held' = [held EXCEPT ![j] = <<>>]
  /\ UNCHANGED <<diskVars, temps, seen, partVars>>

\* Destructors, youngest first: each removes the file its name has now.
Discard(j) ==
  /\ pc[j] = "leave" /\ temps[j] # <<>>
  /\ names' = [names EXCEPT ![LastTemp(j)] = NoInode]
  /\ temps' = [temps EXCEPT ![j] = ButLast(@)]
  /\ UNCHANGED <<file, made, pc, verdict, held, seen, partVars>>

\* The call returns, or its exception leaves it.
Tell(j) ==
  /\ temps[j] = <<>>
  /\ Goto(j, "leave", "told")
  /\ UNCHANGED <<diskVars, jobVars, partVars>>

\* The process dies: no destructor runs.
Crash(j) ==
  /\ pc[j] \notin {"never", "told", "crashed"}
  /\ pc' = [pc EXCEPT ![j] = "crashed"]
  /\ held' = [held EXCEPT ![j] = <<>>]
  /\ UNCHANGED <<diskVars, verdict, temps, seen, partVars>>

Layer(j) == GuardLayer(j) \/ RenderLayer(j) \/ RenderFails(j) \/ LayersDone(j)
Prepare(j) == Check(j) \/ Read(j) \/ Geometry(j) \/ Layer(j) \/ Stage(j) \/ Open(j)
Commit(j) == NextPart(j) \/ AllParts(j) \/ WriteIntermediate(j) \/ Write(j) \/ Publish(j)
Leave(j) == Fail(j) \/ Discard(j) \/ Tell(j) \/ Crash(j)

Next == \E j \in Jobs : Prepare(j) \/ Commit(j) \/ Leave(j)

Spec == Init /\ [][Next]_vars

-----------------------------------------------------------------------------
(* Properties.                                                             *)

TypeOK ==
  /\ names \in [Names -> Inodes \cup {NoInode}]
  /\ file \in [Inodes -> [by : Jobs \cup {Nobody}, whole : BOOLEAN, pages : Nat]]
  /\ made \in [Jobs -> 0..MaxFiles]
  /\ pc \in [Jobs -> Working \cup {"never", "render", "leave", "told", "crashed"}]
  /\ verdict \in [Jobs -> {"none", "done", "failed"}]
  /\ temps \in [Jobs -> Seq(TempNames)]
  /\ held \in [Jobs -> Seq(Inodes)]
  /\ seen \in [Jobs -> Nat]
  /\ parts \in [Jobs -> Nat]
  /\ published \in [Jobs -> Nat]

Owned(j) == {temps[j][k] : k \in 1..Len(temps[j])}

\* A name a destructor of j will remove never comes to name a file that another
\* job made: the removal cannot hit somebody else's staging file.
StagingPrivate ==
  \A j \in Jobs : \A n \in Owned(j) : names[n] # NoInode => file[names[n]].by = j

\* A temporary file always has a job that will still remove or publish it, or
\* that died: nothing is left behind by a call that returned or threw.
NoLitter ==
  \A n \in TempNames : names[n] # NoInode => \E j \in Jobs : pc[j] # "told" /\ n \in Owned(j)

\* Staging is sound: files keep their types, each staging file has one owner, and
\* none outlives the call that made it.
StagingSound == TypeOK /\ StagingPrivate /\ NoLitter

\* pdf_ocr and pdf_redact publish a document with as many pages as the one they
\* read first, although they open their input again later.
RecheckedSameLength ==
  \A j \in Jobs : Kind[j] \in Rechecks /\ pc[j] = "publish" =>
    file[names[LastTemp(j)]].pages = seen[j]

\* A file a job has open keeps its contents until the job lets go of it, also
\* when another job publishes over its path (qpdf reads sources lazily).
SourcesStable ==
  [][\A j \in Jobs : \A k \in 1..Len(held[j]) :
       held'[j] = held[j] => file'[held[j][k]] = file[held[j][k]]]_vars

\* Publishing a guarded job leaves its inputs where they were, whatever links
\* and spellings name them.
InputsKept ==
  [][\A j \in Jobs : Kind[j] \in Guarded /\ published'[j] # published[j] =>
       \A k \in 1..Len(In[j]) : Input(j, k)' = Input(j, k)]_vars

\* The promise of AtomicStore: no destination ever names an incomplete document,
\* whoever fails or dies; destinations go from one complete document to the next,
\* and what a call reports is what it did.
Content(n) == IF n = NoInode THEN NoInode ELSE file[n]
Told(j) ==
  CASE pc[j] = "told" -> verdict[j]
    [] pc[j] = "crashed" -> "crashed"
    [] OTHER -> "running"

Promise == INSTANCE AtomicStore WITH
  Targets <- [j \in Jobs |-> [k \in 1..Len(Out[j]) |-> Entry[Out[j][k]]]],
  Contents <- [j \in Jobs |-> {Complete(j, n) : n \in 1..MaxPages \cup {DiskPages[i] : i \in Originals}}],
  OnDisk <- [p \in Paths |-> IF Links[p] = NoInode THEN NoInode
                             ELSE [by |-> Nobody, whole |-> TRUE, pages |-> DiskPages[Links[p]]]],
  store <- [p \in Paths |-> Content(names[p])],
  told <- [j \in Jobs |-> Told(j)]
AtomicPublication == Promise!Spec
=============================================================================
