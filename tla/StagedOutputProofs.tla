------------------------- MODULE StagedOutputProofs -------------------------
(***************************************************************************)
(* Staged files are published whole, stay with the job that made them and  *)
(* implement AtomicStore, for any jobs, paths, links and spellings.  The   *)
(* proof first says what a step does to the disk, then what that means for *)
(* the other jobs, then what each action leaves its own job with.          *)
(***************************************************************************)
EXTENDS StagedOutput, SequenceTheorems, TLAPS

\* The page counts a complete document can have.
Lengths == 1..MaxPages \cup {DiskPages[i] : i \in Originals}

Named(n) == names[n] # NoInode
FileOf(n) == file[names[n]]

\* What is on the disk, whoever put it there: paths name complete documents,
\* files and layers to come are nowhere yet, and a temporary file belongs to the
\* job that made it.
DiskInv ==
  /\ \A p \in Paths : Named(p) => FileOf(p).whole
  /\ \A i \in Inodes : file[i].whole => file[i].pages \in Lengths
  /\ \A j \in Jobs, k \in 1..MaxFiles : k > made[j] =>
       /\ ~file[<<j, k>>].whole
       /\ \A n \in Names : names[n] # <<j, k>>
       /\ ~Named(<<j, k>>)
  /\ \A n \in TempNames : Named(n) => FileOf(n).by \in Jobs /\ n \in Owned(FileOf(n).by)

\* What the destructors of j will remove: different files of its own.  Only a
\* layer that is about to be rendered is not there yet.
TempsInv(j) ==
  /\ \A k \in 1..Len(temps[j]) :
       IF Named(temps[j][k]) THEN FileOf(temps[j][k]).by = j
       ELSE /\ pc[j] \in {"render", "crashed"}
            /\ temps[j][k] = NewInode(j) /\ made[j] < MaxFiles
  /\ \A k, l \in 1..Len(temps[j]) : temps[j][k] = temps[j][l] => k = l
  /\ pc[j] = "render" => temps[j] # <<>> /\ LastTemp(j) = NewInode(j) /\ made[j] < MaxFiles
  /\ pc[j] \in {"check", "told"} => temps[j] = <<>>

Started == {"read", "geometry", "layer", "render", "stage", "open", "chain", "write", "publish", "next"}
BeforeOpen == {"check", "read", "geometry", "layer", "render"}

\* What j has open is complete, as long as what it read first where it compares
\* the two, and not the destination of a guarded job.
SourceInv(j) ==
  /\ \A k \in 1..Len(held[j]) :
       /\ file[held[j][k]].whole
       /\ Kind[j] \in Rechecks => file[held[j][k]].pages = seen[j]
  /\ pc[j] \in BeforeOpen \/ (pc[j] = "stage" /\ Kind[j] \notin Parted) => held[j] = <<>>
  /\ pc[j] = "open" => Len(held[j]) < Len(In[j])
  /\ pc[j] = "write" /\ Kind[j] \in {"rewrite"} \cup Rechecks => held[j] # <<>>
  /\ pc[j] \in Started => \A k \in 1..Len(In[j]) : Named(Entry[In[j][k]])
  /\ pc[j] \in Started /\ Kind[j] \in Guarded =>
       \A k \in 1..Len(In[j]) : Entry[In[j][k]] # Entry[Out[j][1]]

\* How far j is, and what it will report.
ProgressInv(j) ==
  /\ parts[j] <= Len(Out[j]) /\ published[j] <= parts[j]
  /\ Kind[j] \notin Parted => parts[j] <= 1
  /\ pc[j] \in BeforeOpen \/ (pc[j] = "open" /\ Kind[j] \in Parted) => published[j] = 0
  /\ pc[j] \in {"geometry", "layer", "render", "stage", "chain", "write", "publish"}
     \/ (pc[j] \in {"read", "open"} /\ Kind[j] \notin Parted) => published[j] < parts[j]
  /\ pc[j] = "next" /\ Kind[j] \notin Parted => published[j] = parts[j]
  /\ pc[j] \in {"leave", "told"} =>
       \/ verdict[j] = "done" /\ published[j] = parts[j]
       \/ verdict[j] = "failed" /\ (published[j] < parts[j] \/ published[j] = 0)
  /\ pc[j] = "read" => Kind[j] \in ReadsFirst
  /\ pc[j] = "geometry" => Kind[j] = "redact"
  /\ pc[j] \in {"layer", "render"} => Kind[j] = "ocr"
  /\ pc[j] = "open" => Kind[j] \notin {"author", "images"}
  /\ pc[j] = "chain" => Kind[j] = "chain"

\* The youngest staging file is incomplete until it is written, and complete
\* when it is published; a chain keeps its two apart.
StagedInv(j) ==
  /\ pc[j] \in {"chain", "write"} \/ (pc[j] = "open" /\ Kind[j] \notin Parted) =>
       temps[j] # <<>> /\ ~FileOf(LastTemp(j)).whole
  /\ pc[j] = "publish" =>
       /\ temps[j] # <<>> /\ FileOf(LastTemp(j)).whole
       /\ Kind[j] \in Rechecks => FileOf(LastTemp(j)).pages = seen[j]
  /\ pc[j] = "stage" /\ Kind[j] = "chain" /\ temps[j] # <<>> =>
       Len(temps[j]) = 1 /\ ~FileOf(temps[j][1]).whole
  /\ pc[j] \in {"open", "chain"} /\ Kind[j] = "chain" =>
       Len(temps[j]) = 2 /\ ~FileOf(temps[j][1]).whole /\ names[temps[j][1]] # names[temps[j][2]]

JobInv(j) == TempsInv(j) /\ SourceInv(j) /\ ProgressInv(j) /\ StagedInv(j)

IInv == TypeOK /\ DiskInv /\ \A j \in Jobs : JobInv(j)

Step(j) == Prepare(j) \/ Commit(j) \/ Leave(j)

LEMMA NextIsStep == Next <=> \E j \in Jobs : Step(j)
BY DEF Next, Step

-----------------------------------------------------------------------------
(* What a step of j may do to the disk.                                    *)

\* A new file of j, under a name that is free and that a destructor of j will
\* remove.
MakesFile(j) ==
  \E n \in StagingNames \cup {NewInode(j)}, content \in {Empty(j), Complete(j, 1)} :
    /\ n \in TempNames /\ ~Named(n)
    /\ Create(j, n, content)
    /\ n \in Owned(j)' /\ Owned(j) \subseteq Owned(j)'

\* An incomplete file of j becomes complete.
FillsFile(j) ==
  \E k \in 1..Len(temps[j]), n \in Lengths :
    /\ Named(temps[j][k]) /\ ~FileOf(temps[j][k]).whole
    /\ file' = [file EXCEPT ![names[temps[j][k]]] = Complete(j, n)]
    /\ UNCHANGED <<names, made, temps>>

\* The youngest file of j goes from its staging name to a destination.
RenamesFile(j) ==
  /\ pc[j] = "publish" /\ temps[j] # <<>>
  /\ Named(LastTemp(j)) /\ FileOf(LastTemp(j)).whole
  /\ Publish(j)

LeavesDisk(j) == UNCHANGED diskVars /\ Owned(j) \subseteq Owned(j)'

DiskStep(j) == LeavesDisk(j) \/ MakesFile(j) \/ FillsFile(j) \/ RenamesFile(j) \/ Discard(j)

\* The last name a sequence has, and what is left without it.
LEMMA LastOfTemps ==
  ASSUME TypeOK, NEW j \in Jobs
  PROVE  /\ Len(temps[j]) \in Nat
         /\ Owned(j) \subseteq TempNames
         /\ temps[j] # <<>> => /\ Len(temps[j]) \in 1..Len(temps[j])
                               /\ LastTemp(j) \in Owned(j)
                               /\ LastTemp(j) \in TempNames
                               /\ ButLast(temps[j]) \in Seq(TempNames)
                               /\ Len(ButLast(temps[j])) = Len(temps[j]) - 1
                               /\ \A k \in 1..Len(temps[j]) - 1 : ButLast(temps[j])[k] = temps[j][k]
<1>1. temps[j] \in Seq(TempNames)
  BY DEF TypeOK
<1>2. Len(temps[j]) \in Nat /\ \A k \in 1..Len(temps[j]) : temps[j][k] \in TempNames
  BY <1>1, LenProperties, ElementOfSeq
<1>3. temps[j] # <<>> => Len(temps[j]) \in Nat \ {0}
  BY <1>1, EmptySeq
<1>4. ASSUME temps[j] # <<>>
      PROVE  /\ ButLast(temps[j]) \in Seq(TempNames)
             /\ Len(ButLast(temps[j])) = Len(temps[j]) - 1
             /\ \A k \in 1..Len(temps[j]) - 1 : ButLast(temps[j])[k] = temps[j][k]
  <2>1. Len(temps[j]) - 1 \in Int /\ \A k \in 1..Len(temps[j]) - 1 : temps[j][k] \in TempNames
    BY <1>2
  <2>2. /\ SubSeq(temps[j], 1, Len(temps[j]) - 1) \in Seq(TempNames)
        /\ Len(SubSeq(temps[j], 1, Len(temps[j]) - 1)) =
             IF 1 <= Len(temps[j]) - 1 THEN (Len(temps[j]) - 1) - 1 + 1 ELSE 0
        /\ \A k \in 1..(Len(temps[j]) - 1) - 1 + 1 :
             SubSeq(temps[j], 1, Len(temps[j]) - 1)[k] = temps[j][1 + k - 1]
    BY <2>1, SubSeqProperties
  <2> QED
    BY <2>2, <1>3, <1>4, <1>2 DEF ButLast
<1> QED
  BY <1>2, <1>3, <1>4 DEF Owned, LastTemp

\* One more name.
LEMMA OneMoreTemp ==
  ASSUME TypeOK, NEW j \in Jobs, NEW n \in TempNames
  PROVE  /\ Append(temps[j], n) \in Seq(TempNames)
         /\ Append(temps[j], n) # <<>>
         /\ Len(Append(temps[j], n)) = Len(temps[j]) + 1
         /\ \A k \in 1..Len(temps[j]) : Append(temps[j], n)[k] = temps[j][k]
         /\ Append(temps[j], n)[Len(temps[j]) + 1] = n
<1>1. temps[j] \in Seq(TempNames)
  BY DEF TypeOK
<1> QED
  BY <1>1, AppendProperties

\* Where files live and what they are.
LEMMA Typed ==
  ASSUME TypeOK
  PROVE  /\ \A n \in Names : Named(n) => names[n] \in Inodes
         /\ \A i \in Inodes : /\ file[i].by \in Jobs \cup {Nobody}
                              /\ file[i].whole \in BOOLEAN
                              /\ file[i].pages \in Nat
         /\ \A j \in Jobs : made[j] \in 0..MaxFiles /\ made[j] \in Nat
BY StagedAssumption DEF TypeOK, Named

\* The inode a job makes next is a new one, and its name as a layer is free.
LEMMA NewIsFree ==
  ASSUME TypeOK, DiskInv, NEW j \in Jobs, made[j] < MaxFiles
  PROVE  /\ NewInode(j) \in Made /\ NewInode(j) \in Inodes
         /\ NewInode(j) \in LayerNames /\ NewInode(j) \in TempNames
         /\ ~file[NewInode(j)].whole
         /\ \A n \in Names : names[n] # NewInode(j)
         /\ ~Named(NewInode(j))
<1>1. made[j] + 1 \in 1..MaxFiles /\ made[j] + 1 > made[j]
  BY StagedAssumption, Typed
<1> QED
  BY <1>1 DEF DiskInv, NewInode, Made, Inodes, LayerNames, TempNames

\* Every step does one of the five things.
LEMMA EveryDiskStep ==
  ASSUME IInv, NEW j \in Jobs, Step(j)
  PROVE  DiskStep(j)
<1> USE DEF IInv
<1>0. TypeOK /\ DiskInv /\ JobInv(j)
  OBVIOUS
<1>1. CASE \/ Check(j) \/ Read(j) \/ Geometry(j) \/ LayersDone(j) \/ Open(j) \/ NextPart(j)
           \/ AllParts(j) \/ Fail(j) \/ Tell(j) \/ Crash(j)
  <2>1. UNCHANGED diskVars /\ temps' = temps
    BY <1>1 DEF Check, Read, Geometry, LayersDone, Open, NextPart, AllParts, Fail, Tell, Crash, diskVars, jobVars
  <2> QED
    BY <2>1 DEF DiskStep, LeavesDisk, Owned
<1>2. CASE GuardLayer(j)
  <2>1. made[j] + 1 < MaxFiles /\ UNCHANGED diskVars /\ temps' = [temps EXCEPT ![j] = Append(@, NewInode(j))]
    BY <1>2 DEF GuardLayer, NewInode
  <2>2. NewInode(j) \in TempNames
    BY <2>1, <1>0, NewIsFree, Typed, StagedAssumption
  <2>3. temps'[j] = Append(temps[j], NewInode(j))
    BY <2>1 DEF TypeOK
  <2>4. Owned(j) \subseteq Owned(j)'
    BY <2>2, <2>3, OneMoreTemp, LastOfTemps DEF Owned
  <2> QED
    BY <2>1, <2>4 DEF DiskStep, LeavesDisk
<1>3. CASE RenderLayer(j) \/ RenderFails(j)
  <2>1. PICK content \in {Empty(j), Complete(j, 1)} :
          Create(j, LastTemp(j), content) /\ temps' = temps /\ pc[j] = "render"
    BY <1>3 DEF RenderLayer, RenderFails, Goto, jobVars
  <2>2. temps[j] # <<>> /\ LastTemp(j) = NewInode(j) /\ made[j] < MaxFiles
    BY <2>1 DEF JobInv, TempsInv
  <2>3. LastTemp(j) \in TempNames /\ ~Named(LastTemp(j)) /\ LastTemp(j) \in Owned(j)
    BY <2>2, NewIsFree, LastOfTemps
  <2>4. Owned(j)' = Owned(j)
    BY <2>1 DEF Owned
  <2>5. MakesFile(j)
    BY <2>1, <2>2, <2>3, <2>4 DEF MakesFile
  <2> QED
    BY <2>5 DEF DiskStep
<1>4. CASE Stage(j)
  <2>1. PICK s \in Suffixes :
          /\ names[<<Target(j), s>>] = NoInode
          /\ Create(j, <<Target(j), s>>, Empty(j))
          /\ temps' = [temps EXCEPT ![j] = Append(@, <<Target(j), s>>)]
    BY <1>4 DEF Stage
  <2>2. pc[j] = "stage"
    BY <1>4 DEF Stage, Goto
  <2>3. Target(j) \in Paths
    <3>1. published[j] + 1 \in 1..Len(Out[j])
      <4>1. published[j] < parts[j] /\ parts[j] <= Len(Out[j])
        BY <2>2 DEF JobInv, ProgressInv
      <4>2. published[j] \in Nat /\ parts[j] \in Nat /\ Len(Out[j]) \in Nat
        BY StagedAssumption, LenProperties DEF TypeOK
      <4> QED
        BY <4>1, <4>2
    <3>2. Out[j][published[j] + 1] \in DOMAIN Entry
      BY <3>1, StagedAssumption, ElementOfSeq
    <3> QED
      BY <3>2, StagedAssumption DEF Target
  <2> DEFINE n == <<Target(j), s>>
  <2>4. n \in StagingNames /\ n \in TempNames
    BY <2>3 DEF StagingNames, TempNames
  <2>5. temps'[j] = Append(temps[j], n)
    BY <2>1 DEF TypeOK
  <2>6. n \in Owned(j)' /\ Owned(j) \subseteq Owned(j)'
    <3> HIDE DEF n
    <3> QED
      BY <2>4, <2>5, OneMoreTemp, LastOfTemps DEF Owned
  <2>7. MakesFile(j)
    BY <2>1, <2>4, <2>6 DEF MakesFile, Named
  <2> QED
    BY <2>7 DEF DiskStep
<1>5. CASE WriteIntermediate(j)
  <2>1. PICK n \in 1..MaxPages : file' = [file EXCEPT ![names[temps[j][1]]] = Complete(j, n)]
    BY <1>5 DEF WriteIntermediate
  <2>2. pc[j] = "chain" /\ UNCHANGED <<names, made, temps>>
    BY <1>5 DEF WriteIntermediate, Goto
  <2>3. Kind[j] = "chain"
    BY <2>2 DEF JobInv, ProgressInv
  <2>4. Len(temps[j]) = 2 /\ ~FileOf(temps[j][1]).whole
    BY <2>2, <2>3 DEF JobInv, StagedInv
  <2>5. 1 \in 1..Len(temps[j]) /\ Named(temps[j][1])
    BY <2>2, <2>4 DEF JobInv, TempsInv
  <2>6. FillsFile(j)
    BY <2>1, <2>2, <2>4, <2>5 DEF FillsFile, Lengths
  <2> QED
    BY <2>6 DEF DiskStep
<1>6. CASE Write(j)
  <2>1. PICK n \in Produced(j) : file' = [file EXCEPT ![names[LastTemp(j)]] = Complete(j, n)]
    BY <1>6 DEF Write
  <2>2. pc[j] = "write" /\ UNCHANGED <<names, made, temps>>
    BY <1>6 DEF Write, Goto, jobVars
  <2>3. temps[j] # <<>> /\ ~FileOf(LastTemp(j)).whole
    BY <2>2 DEF JobInv, StagedInv
  <2>4. Len(temps[j]) \in 1..Len(temps[j])
    BY <2>3, LastOfTemps
  <2>5. Named(LastTemp(j))
    BY <2>2, <2>4 DEF JobInv, TempsInv, LastTemp
  <2>6. n \in Lengths
    <3>1. held[j] # <<>> => file[held[j][1]].pages \in Lengths
      <4>1. held[j] # <<>> => 1 \in 1..Len(held[j]) /\ held[j][1] \in Inodes
        BY EmptySeq, ElementOfSeq DEF TypeOK
      <4> QED
        BY <4>1 DEF JobInv, SourceInv, DiskInv
    <3>2. Kind[j] \in {"rewrite"} \cup Rechecks => held[j] # <<>>
      BY <2>2 DEF JobInv, SourceInv
    <3> QED
      BY <3>1, <3>2, <2>1 DEF Produced, Lengths
  <2>7. FillsFile(j)
    BY <2>1, <2>2, <2>3, <2>4, <2>5, <2>6 DEF FillsFile, LastTemp
  <2> QED
    BY <2>7 DEF DiskStep
<1>7. CASE Publish(j)
  <2>1. pc[j] = "publish"
    BY <1>7 DEF Publish, Goto
  <2>2. temps[j] # <<>> /\ FileOf(LastTemp(j)).whole
    BY <2>1 DEF JobInv, StagedInv
  <2>3. Named(LastTemp(j))
    BY <2>1, <2>2, LastOfTemps DEF JobInv, TempsInv, LastTemp
  <2> QED
    BY <1>7, <2>1, <2>2, <2>3 DEF DiskStep, RenamesFile
<1>8. CASE Discard(j)
  BY <1>8 DEF DiskStep
<1> QED
  BY <1>1, <1>2, <1>3, <1>4, <1>5, <1>6, <1>7, <1>8 DEF Step, Prepare, Layer, Commit, Leave

\* An input of a job that has started is a file; so is the source it opens next.
LEMMA InputIsFile ==
  ASSUME TypeOK, NEW j \in Jobs, SourceInv(j), pc[j] \in Started, NEW k \in 1..Len(In[j])
  PROVE  Entry[In[j][k]] \in Paths /\ Named(Entry[In[j][k]]) /\ Input(j, k) \in Inodes
<1>1. In[j][k] \in DOMAIN Entry
  BY StagedAssumption, ElementOfSeq
<1>2. Entry[In[j][k]] \in Paths /\ Named(Entry[In[j][k]])
  BY <1>1, StagedAssumption DEF SourceInv
<1> QED
  BY <1>2, Typed DEF Input, Names

LEMMA NextSource ==
  ASSUME TypeOK, NEW j \in Jobs, SourceInv(j), pc[j] = "open"
  PROVE  Len(held[j]) + 1 \in 1..Len(In[j]) /\ Input(j, Len(held[j]) + 1) \in Inodes
<1>1. Len(held[j]) \in Nat /\ Len(In[j]) \in Nat
  BY StagedAssumption, LenProperties DEF TypeOK
<1>2. Len(held[j]) + 1 \in 1..Len(In[j])
  BY <1>1 DEF SourceInv
<1> QED
  BY <1>2, InputIsFile DEF Started

-----------------------------------------------------------------------------
(* What each of them means for whoever looks.                              *)

\* A complete file stays as it is.
WholeIsFinal == \A i \in Inodes : file[i].whole => file'[i] = file[i]

\* A path that names something goes on naming something.
PathsStay == \A p \in Paths : Named(p) => Named(p)'

\* What i has staged is not touched.
TempsStay(i) ==
  \A n \in Owned(i) : names'[n] = names[n] /\ (Named(n) => FileOf(n)' = FileOf(n))

LEMMA Final ==
  ASSUME TypeOK, DiskInv, NEW j \in Jobs, DiskStep(j)
  PROVE  WholeIsFinal
<1>1. CASE LeavesDisk(j) \/ RenamesFile(j) \/ Discard(j)
  BY <1>1 DEF LeavesDisk, RenamesFile, Publish, Discard, diskVars, WholeIsFinal
<1>2. CASE MakesFile(j)
  <2>1. PICK content \in {Empty(j), Complete(j, 1)} :
          made[j] < MaxFiles /\ file' = [file EXCEPT ![NewInode(j)] = content]
    BY <1>2 DEF MakesFile, Create
  <2>2. ~file[NewInode(j)].whole
    BY <2>1, NewIsFree
  <2> QED
    BY <2>1, <2>2 DEF WholeIsFinal, TypeOK
<1>3. CASE FillsFile(j)
  BY <1>3 DEF FillsFile, FileOf, WholeIsFinal, TypeOK
<1> QED
  BY <1>1, <1>2, <1>3 DEF DiskStep

\* The destination of the next part is a path.
LEMMA TargetIsPath ==
  ASSUME TypeOK, NEW j \in Jobs, ProgressInv(j), published[j] < parts[j]
  PROVE  Target(j) \in Paths /\ published[j] + 1 \in 1..Len(Out[j])
<1>1. published[j] \in Nat /\ parts[j] \in Nat /\ Len(Out[j]) \in Nat
  BY StagedAssumption, LenProperties DEF TypeOK
<1>2. published[j] + 1 \in 1..Len(Out[j])
  BY <1>1 DEF ProgressInv
<1>3. Out[j][published[j] + 1] \in DOMAIN Entry
  BY <1>2, StagedAssumption, ElementOfSeq
<1> QED
  BY <1>2, <1>3, StagedAssumption DEF Target

LEMMA KeepsPaths ==
  ASSUME IInv, NEW j \in Jobs, DiskStep(j)
  PROVE  PathsStay
<1> USE DEF IInv
<1>1. CASE LeavesDisk(j) \/ FillsFile(j)
  BY <1>1 DEF LeavesDisk, FillsFile, diskVars, PathsStay, Named
<1>2. CASE MakesFile(j)
  <2>1. PICK n \in TempNames : names' = [names EXCEPT ![n] = NewInode(j)]
    BY <1>2 DEF MakesFile, Create
  <2> QED
    BY <2>1, StagedAssumption DEF PathsStay, Named, TypeOK, Names
<1>3. CASE RenamesFile(j)
  <2>1. names' = [names EXCEPT ![Target(j)] = names[LastTemp(j)], ![LastTemp(j)] = NoInode]
    BY <1>3 DEF RenamesFile, Publish
  <2>2. LastTemp(j) \in TempNames /\ Named(LastTemp(j))
    BY <1>3, LastOfTemps DEF RenamesFile
  <2> QED
    BY <2>1, <2>2, StagedAssumption DEF PathsStay, Named, TypeOK, Names
<1>4. CASE Discard(j)
  <2>1. names' = [names EXCEPT ![LastTemp(j)] = NoInode] /\ LastTemp(j) \in TempNames
    BY <1>4, LastOfTemps DEF Discard
  <2> QED
    BY <2>1, StagedAssumption DEF PathsStay, Named, TypeOK, Names
<1> QED
  BY <1>1, <1>2, <1>3, <1>4 DEF DiskStep

\* Two jobs own different files, and an owned name that is free is a layer of
\* its owner.
LEMMA OwnNames ==
  ASSUME TypeOK, NEW i \in Jobs, TempsInv(i), NEW n \in Owned(i)
  PROVE  /\ n \in TempNames /\ n \in Names
         /\ Named(n) => FileOf(n).by = i /\ names[n] \in Inodes
         /\ ~Named(n) => n = NewInode(i) /\ made[i] < MaxFiles /\ pc[i] \in {"render", "crashed"}
<1>1. PICK k \in 1..Len(temps[i]) : n = temps[i][k]
  BY DEF Owned
<1>2. n \in TempNames
  BY LastOfTemps
<1> QED
  BY <1>1, <1>2, Typed DEF TempsInv, Names

LEMMA KeepsTemps ==
  ASSUME IInv, NEW j \in Jobs, DiskStep(j), NEW i \in Jobs \ {j}
  PROVE  TempsStay(i)
<1> USE DEF IInv
<1> SUFFICES ASSUME NEW n \in Owned(i)
             PROVE  names'[n] = names[n] /\ (Named(n) => FileOf(n)' = FileOf(n))
  BY DEF TempsStay
<1>0. TypeOK /\ DiskInv /\ TempsInv(i) /\ TempsInv(j)
  BY DEF JobInv
<1>1. /\ n \in TempNames /\ n \in Names
      /\ Named(n) => FileOf(n).by = i /\ names[n] \in Inodes
      /\ ~Named(n) => n = NewInode(i) /\ made[i] < MaxFiles
  BY <1>0, OwnNames
<1>2. CASE LeavesDisk(j)
  BY <1>2 DEF LeavesDisk, diskVars, FileOf
<1>3. CASE MakesFile(j)
  <2>1. PICK m \in StagingNames \cup {NewInode(j)}, content \in {Empty(j), Complete(j, 1)} :
          ~Named(m) /\ Create(j, m, content)
    BY <1>3 DEF MakesFile
  <2>2. NewInode(i) # NewInode(j)
    BY DEF NewInode
  <2>3. m # n
    <3>1. n \in LayerNames \/ Named(n)
      BY <1>0, <1>1, NewIsFree
    <3> QED
      BY <2>1, <2>2, <3>1, <1>1, StagedAssumption
  <2>4. made[j] < MaxFiles /\ names[n] # NewInode(j)
    BY <2>1, <1>0, <1>1, NewIsFree DEF Create
  <2>5. names'[n] = names[n]
    BY <2>1, <2>3, <1>1 DEF Create, TypeOK
  <2>6. file'[names[n]] = file[names[n]]
    BY <2>1, <2>4, <1>1 DEF Create, TypeOK
  <2> QED
    BY <2>5, <2>6 DEF FileOf
<1>4. CASE FillsFile(j)
  <2>1. PICK k \in 1..Len(temps[j]), m \in Lengths :
          /\ Named(temps[j][k]) /\ names' = names
          /\ file' = [file EXCEPT ![names[temps[j][k]]] = Complete(j, m)]
    BY <1>4 DEF FillsFile
  <2>2. FileOf(temps[j][k]).by = j
    BY <2>1, <1>0 DEF TempsInv
  <2>3. Named(n) => names[n] # names[temps[j][k]]
    BY <2>2, <1>1 DEF FileOf
  <2> QED
    BY <2>1, <2>3, <1>1 DEF FileOf, TypeOK
<1>5. CASE RenamesFile(j) \/ Discard(j)
  <2>1. temps[j] # <<>> /\ (RenamesFile(j) => Named(LastTemp(j)) /\ Target(j) \in Paths)
    <3>1. RenamesFile(j) => pc[j] = "publish" /\ Named(LastTemp(j)) /\ temps[j] # <<>>
      BY DEF RenamesFile
    <3>2. pc[j] = "publish" => Target(j) \in Paths
      BY TargetIsPath DEF JobInv, ProgressInv
    <3> QED
      BY <3>1, <3>2, <1>5 DEF Discard
  <2>2. LastTemp(j) \in Owned(j)
    BY <2>1, LastOfTemps
  <2>3. Named(LastTemp(j)) /\ FileOf(LastTemp(j)).by = j
    BY <2>1, <2>2, <1>5, <1>0, OwnNames DEF Discard
  <2>4. n # LastTemp(j) /\ (RenamesFile(j) => n # Target(j))
    BY <2>1, <2>3, <1>1, StagedAssumption
  <2>5. names'[n] = names[n] /\ file' = file
    BY <1>5, <2>4, <1>1 DEF RenamesFile, Publish, Discard, TypeOK
  <2> QED
    BY <2>5 DEF FileOf
<1> QED
  BY <1>2, <1>3, <1>4, <1>5 DEF DiskStep

-----------------------------------------------------------------------------
(* The disk invariant.                                                     *)

\* What a job knows of itself alone.
Local(i) == <<pc[i], verdict[i], temps[i], held[i], seen[i], parts[i], published[i], made[i]>>

LEMMA OthersWait ==
  ASSUME TypeOK, NEW j \in Jobs, Step(j), NEW i \in Jobs \ {j}
  PROVE  UNCHANGED Local(i)
<1> USE DEF TypeOK, Local, jobVars, partVars, diskVars
<1>1. CASE Prepare(j)
  BY <1>1 DEF Prepare, Check, Read, Geometry, Layer, GuardLayer, RenderLayer, RenderFails,
    LayersDone, Stage, Open, Create, Goto
<1>2. CASE Commit(j)
  BY <1>2 DEF Commit, NextPart, AllParts, WriteIntermediate, Write, Publish, Goto
<1>3. CASE Leave(j)
  BY <1>3 DEF Leave, Fail, Discard, Tell, Crash, Goto
<1> QED
  BY <1>1, <1>2, <1>3 DEF Step

\* How many files a job has made, and what it owns, changes only for j; what it
\* no longer owns is gone.
LEMMA Accounts ==
  ASSUME IInv, NEW j \in Jobs, Step(j), DiskStep(j)
  PROVE  /\ \A i \in Jobs \ {j} : Owned(i)' = Owned(i) /\ made'[i] = made[i]
         /\ made'[j] = made[j] \/ (MakesFile(j) /\ made'[j] = made[j] + 1)
         /\ \A n \in Owned(j) : n \in Owned(j)' \/ names'[n] = NoInode
<1> USE DEF IInv
<1>1. \A i \in Jobs \ {j} : Owned(i)' = Owned(i) /\ made'[i] = made[i]
  BY OthersWait DEF Local, Owned
<1>2. made'[j] = made[j] \/ (MakesFile(j) /\ made'[j] = made[j] + 1)
  BY DEF DiskStep, LeavesDisk, MakesFile, FillsFile, RenamesFile, Publish, Discard, Create, diskVars, TypeOK
<1>3. ASSUME NEW n \in Owned(j) PROVE n \in Owned(j)' \/ names'[n] = NoInode
  <2>1. CASE LeavesDisk(j) \/ MakesFile(j) \/ FillsFile(j)
    BY <1>3, <2>1 DEF LeavesDisk, MakesFile, FillsFile, Owned
  <2>2. CASE RenamesFile(j) \/ Discard(j)
    <3>1. temps[j] # <<>> /\ temps'[j] = ButLast(temps[j]) /\ names'[LastTemp(j)] = NoInode
      <4>1. temps[j] # <<>> /\ temps' = [temps EXCEPT ![j] = ButLast(@)]
        BY <2>2 DEF RenamesFile, Publish, Discard
      <4>2. LastTemp(j) \in Names
        BY <4>1, LastOfTemps DEF Names
      <4> QED
        BY <4>1, <4>2, <2>2 DEF RenamesFile, Publish, Discard, TypeOK
    <3>2. PICK k \in 1..Len(temps[j]) : n = temps[j][k]
      BY <1>3 DEF Owned
    <3>3. CASE k = Len(temps[j])
      BY <3>1, <3>2, <3>3 DEF LastTemp
    <3>4. CASE k # Len(temps[j])
      <4>1. Len(temps[j]) \in Nat /\ k \in 1..Len(temps[j]) - 1
        BY <3>2, <3>4, LastOfTemps
      <4>2. k \in 1..Len(temps'[j]) /\ temps'[j][k] = n
        BY <4>1, <3>1, <3>2, LastOfTemps
      <4> QED
        BY <4>2 DEF Owned
    <3> QED
      BY <3>3, <3>4
  <2> QED
    BY <2>1, <2>2 DEF DiskStep
<1> QED
  BY <1>1, <1>2, <1>3

\* What names the files that j did not make have, and who made the file that a
\* temporary name has.
LEMMA DiskKept ==
  ASSUME IInv, TypeOK', NEW j \in Jobs, Step(j)
  PROVE  DiskInv'
<1> USE DEF IInv
<1>0. TypeOK /\ DiskInv /\ DiskStep(j) /\ WholeIsFinal /\ (\A i \in Jobs : TempsInv(i))
  BY EveryDiskStep, Final DEF JobInv
<1>1. CASE LeavesDisk(j)
  <2>1. names' = names /\ file' = file /\ made' = made /\ Owned(j) \subseteq Owned(j)'
    BY <1>1 DEF LeavesDisk, diskVars
  <2>2. \A i \in Jobs : Owned(i) \subseteq Owned(i)'
    BY <2>1, <1>0, Accounts
  <2> QED
    BY <2>1, <2>2, <1>0 DEF DiskInv, Named, FileOf
<1>2. CASE MakesFile(j)
  <2>1. PICK m \in StagingNames \cup {NewInode(j)}, content \in {Empty(j), Complete(j, 1)} :
          /\ m \in TempNames /\ ~Named(m) /\ Create(j, m, content)
          /\ m \in Owned(j)' /\ Owned(j) \subseteq Owned(j)'
    BY <1>2 DEF MakesFile
  <2> DEFINE x == NewInode(j)
  <2>2. /\ made[j] < MaxFiles
        /\ names' = [names EXCEPT ![m] = x]
        /\ file' = [file EXCEPT ![x] = content]
        /\ made' = [made EXCEPT ![j] = @ + 1]
    BY <2>1 DEF Create
  <2>3. /\ x \in Inodes /\ x \in Made /\ x \in LayerNames /\ x \in TempNames
        /\ \A n \in Names : names[n] # x
    BY <2>2, <1>0, NewIsFree
  <2>4. \A i \in Jobs : Owned(i) \subseteq Owned(i)'
    BY <2>1, <1>0, Accounts
  <2>5. m \in Names /\ x # NoInode /\ content.by = j /\ (content.whole => content.pages = 1)
    BY <2>1, <2>3, StagedAssumption DEF Names, Empty, Complete
  <2>6. \A n \in Names \ {m} : names'[n] = names[n] /\ (Named(n) => FileOf(n)' = FileOf(n))
    BY <2>2, <2>3, <1>0, Typed DEF TypeOK, FileOf
  <2>7. names'[m] = x /\ file'[x] = content
    BY <2>2, <2>3, <2>5, <1>0 DEF TypeOK
  <2>8. \A p \in Paths : Named(p)' => FileOf(p)'.whole
    <3>1. \A p \in Paths : p \in Names \ {m}
      BY <2>1, StagedAssumption DEF Names
    <3> QED
      BY <3>1, <2>6, <1>0 DEF DiskInv, Named
  <2>9. \A i \in Inodes : file'[i].whole => file'[i].pages \in Lengths
    <3>1. 1 \in Lengths
      BY StagedAssumption DEF Lengths
    <3> QED
      BY <3>1, <2>2, <2>3, <2>5, <1>0 DEF DiskInv, TypeOK
  <2>10. ASSUME NEW i \in Jobs, NEW k \in 1..MaxFiles, k > made'[i]
         PROVE  /\ ~file'[<<i, k>>].whole
                /\ \A n \in Names : names'[n] # <<i, k>>
                /\ ~Named(<<i, k>>)'
    <3>1. k > made[i] /\ <<i, k>> # x
      <4>1. made'[i] = IF i = j THEN made[i] + 1 ELSE made[i]
        BY <2>2, <1>0 DEF TypeOK
      <4>2. made[i] \in Nat /\ made[j] \in Nat
        BY <1>0, Typed
      <4>3. k > made[i] /\ (i = j => k # made[j] + 1)
        BY <4>1, <4>2, <2>10
      <4> QED
        BY <4>3 DEF NewInode
    <3>2. /\ ~file[<<i, k>>].whole
          /\ \A n \in Names : names[n] # <<i, k>>
          /\ ~Named(<<i, k>>)
      BY <3>1, <1>0 DEF DiskInv
    <3>3. <<i, k>> \in Inodes /\ <<i, k>> \in LayerNames /\ <<i, k>> \in Names
      BY DEF Inodes, Made, LayerNames, TempNames, Names
    <3>4. m # <<i, k>>
      BY <2>1, <3>1, <3>3, StagedAssumption
    <3> HIDE DEF x
    <3> QED
      BY <3>1, <3>2, <3>3, <3>4, <2>2, <2>6, <2>7, <2>5, <1>0 DEF Named, TypeOK
  <2>11. ASSUME NEW n \in TempNames, Named(n)'
         PROVE  FileOf(n)'.by \in Jobs /\ n \in (Owned(FileOf(n).by))'
    <3>1. CASE n = m
      BY <3>1, <2>1, <2>5, <2>7 DEF FileOf
    <3>2. CASE n # m
      <4>1. n \in Names \ {m}
        BY <3>2 DEF Names
      <4>2. Named(n) /\ FileOf(n)' = FileOf(n)
        BY <4>1, <2>6, <2>11 DEF Named
      <4>3. PICK i \in Jobs : FileOf(n).by = i /\ n \in Owned(i)
        BY <4>2, <1>0 DEF DiskInv
      <4>4. n \in Owned(i)'
        BY <4>3, <2>4
      <4> QED
        BY <4>2, <4>3, <4>4
    <3> QED
      BY <3>1, <3>2
  <2> QED
    BY <2>8, <2>9, <2>10, <2>11 DEF DiskInv
<1>3. CASE FillsFile(j)
  <2>1. PICK k \in 1..Len(temps[j]), m \in Lengths :
          /\ Named(temps[j][k]) /\ names' = names /\ made' = made /\ temps' = temps
          /\ file' = [file EXCEPT ![names[temps[j][k]]] = Complete(j, m)]
    BY <1>3 DEF FillsFile
  <2> DEFINE t == temps[j][k]
             x == names[t]
  <2>2. t \in Owned(j) /\ t \in Names /\ x \in Inodes /\ FileOf(t).by = j
    <3>1. t \in Owned(j)
      BY DEF Owned
    <3> QED
      BY <2>1, <3>1, <1>0, OwnNames
  <2> HIDE DEF t
  <2>3. \A i \in Jobs : Owned(i)' = Owned(i)
    BY <2>1 DEF Owned
  <2>4. file' = [file EXCEPT ![x] = Complete(j, m)]
    BY <2>1 DEF t
  <2>5. file'[x].whole /\ file'[x].by = file[x].by /\ file'[x].pages \in Lengths
    BY <2>2, <2>4, <1>0 DEF TypeOK, Complete, FileOf
  <2>6. \A i \in Inodes \ {x} : file'[i] = file[i]
    BY <2>4, <1>0 DEF TypeOK
  <2>7. \A p \in Paths : Named(p)' => FileOf(p)'.whole
    BY <2>1, <2>5, <2>6, <1>0, Typed DEF DiskInv, Named, FileOf, Names
  <2>8. \A i \in Inodes : file'[i].whole => file'[i].pages \in Lengths
    BY <2>5, <2>6, <1>0 DEF DiskInv
  <2>9. \A i \in Jobs, l \in 1..MaxFiles : l > made'[i] =>
          /\ ~file'[<<i, l>>].whole
          /\ \A n \in Names : names'[n] # <<i, l>>
          /\ ~Named(<<i, l>>)'
    <3>1. \A i \in Jobs, l \in 1..MaxFiles : <<i, l>> \in Inodes
      BY DEF Inodes, Made
    <3>2. \A i \in Jobs, l \in 1..MaxFiles : l > made[i] => x # <<i, l>>
      BY <2>2, <1>0 DEF DiskInv
    <3> HIDE DEF x
    <3> QED
      BY <2>1, <3>1, <3>2, <2>6, <1>0 DEF DiskInv, Named
  <2>10. \A n \in TempNames : Named(n)' => FileOf(n)'.by = FileOf(n).by /\ Named(n)
    BY <2>1, <2>5, <2>6, <1>0, Typed DEF Named, FileOf, Names
  <2>11. ASSUME NEW n \in TempNames, Named(n)'
         PROVE  FileOf(n)'.by \in Jobs /\ n \in (Owned(FileOf(n).by))'
    <3>1. PICK i \in Jobs : FileOf(n).by = i /\ n \in Owned(i)
      BY <2>10, <2>11, <1>0 DEF DiskInv
    <3>2. FileOf(n)'.by = i /\ n \in Owned(i)'
      BY <2>3, <2>10, <2>11, <3>1
    <3> QED
      BY <3>2
  <2> QED
    BY <2>7, <2>8, <2>9, <2>11 DEF DiskInv
<1>4. CASE RenamesFile(j) \/ Discard(j)
  <2> DEFINE t == LastTemp(j)
  <2>1. /\ temps[j] # <<>> /\ file' = file /\ made' = made
        /\ t \in Owned(j) /\ t \in TempNames
    BY <1>4, LastOfTemps DEF RenamesFile, Publish, Discard
  <2>2. names'[t] = NoInode /\ \A n \in Names : names'[n] = names[n] \/ names'[n] = NoInode
                                                \/ (n \in Paths /\ names'[n] = names[t] /\ FileOf(t).whole)
    <3>1. CASE Discard(j)
      BY <3>1, <2>1, <1>0 DEF Discard, TypeOK, Names
    <3>2. CASE RenamesFile(j)
      <4>1. names' = [names EXCEPT ![Target(j)] = names[t], ![t] = NoInode] /\ FileOf(t).whole
        BY <3>2 DEF RenamesFile, Publish
      <4>2. Target(j) \in Paths
        <5>1. pc[j] = "publish" /\ ProgressInv(j)
          BY <3>2 DEF RenamesFile, JobInv
        <5> QED
          BY <5>1, TargetIsPath DEF ProgressInv
      <4> QED
        BY <4>1, <4>2, <2>1, <1>0 DEF TypeOK, Names
    <3> QED
      BY <1>4, <3>1, <3>2
  <2>3. \A p \in Paths : Named(p)' => FileOf(p)'.whole
    BY <2>1, <2>2, <1>0 DEF DiskInv, Named, FileOf, Names
  <2>4. \A i \in Inodes : file'[i].whole => file'[i].pages \in Lengths
    BY <2>1, <1>0 DEF DiskInv
  <2>5. \A i \in Jobs, l \in 1..MaxFiles : l > made'[i] =>
          /\ ~file'[<<i, l>>].whole
          /\ \A n \in Names : names'[n] # <<i, l>>
          /\ ~Named(<<i, l>>)'
    <3>1. \A i \in Jobs, l \in 1..MaxFiles : <<i, l>> \in Names /\ <<i, l>> \notin Paths /\ <<i, l>> # NoInode
      BY StagedAssumption DEF LayerNames, TempNames, Names, Inodes, Made
    <3>2. t \in Names
      BY <2>1 DEF Names
    <3> QED
      BY <2>1, <2>2, <3>1, <3>2, <1>0 DEF DiskInv, Named
  <2>6. ASSUME NEW n \in TempNames, Named(n)'
        PROVE  FileOf(n)'.by \in Jobs /\ n \in (Owned(FileOf(n).by))'
    <3>1. n \in Names /\ n \notin Paths
      BY StagedAssumption DEF Names
    <3>2. names'[n] = names[n] /\ Named(n)
      BY <2>2, <2>6, <3>1 DEF Named
    <3>3. PICK i \in Jobs : FileOf(n).by = i /\ n \in Owned(i)
      BY <3>2, <1>0 DEF DiskInv
    <3>4. n \in Owned(i)'
      BY <3>3, <2>6, <1>0, Accounts DEF Named
    <3>5. FileOf(n)'.by = i
      BY <2>1, <3>2, <3>3 DEF FileOf
    <3> QED
      BY <3>4, <3>5
  <2> QED
    BY <2>3, <2>4, <2>5, <2>6 DEF DiskInv
<1> QED
  BY <1>0, <1>1, <1>2, <1>3, <1>4 DEF DiskStep

-----------------------------------------------------------------------------
(* Types.                                                                  *)

LEMMA TypeStep ==
  ASSUME IInv, NEW j \in Jobs, Step(j)
  PROVE  TypeOK'
<1> USE DEF IInv
<1>0. TypeOK /\ DiskInv /\ JobInv(j) /\ DiskStep(j)
  BY EveryDiskStep
<1>1. names' \in [Names -> Inodes \cup {NoInode}] /\ file' \in [Inodes -> [by : Jobs \cup {Nobody}, whole : BOOLEAN, pages : Nat]]
      /\ made' \in [Jobs -> 0..MaxFiles]
  <2>1. CASE LeavesDisk(j)
    BY <2>1 DEF LeavesDisk, diskVars, TypeOK
  <2>2. CASE MakesFile(j)
    <3>1. PICK m \in TempNames, content \in {Empty(j), Complete(j, 1)} : Create(j, m, content)
      BY <2>2 DEF MakesFile
    <3>2. NewInode(j) \in Inodes /\ m \in Names
      BY <3>1, <1>0, NewIsFree DEF Create, Names
    <3>3. content \in [by : Jobs \cup {Nobody}, whole : BOOLEAN, pages : Nat]
      <4>1. /\ Empty(j) \in [by : Jobs \cup {Nobody}, whole : BOOLEAN, pages : Nat]
            /\ Complete(j, 1) \in [by : Jobs \cup {Nobody}, whole : BOOLEAN, pages : Nat]
        BY DEF Empty, Complete
      <4> QED
        BY <3>1, <4>1
    <3>4. made[j] + 1 \in 0..MaxFiles
      BY <3>1, <1>0, StagedAssumption DEF Create, TypeOK
    <3> QED
      BY <3>1, <3>2, <3>3, <3>4, <1>0 DEF Create, TypeOK
  <2>3. CASE FillsFile(j)
    <3>1. PICK k \in 1..Len(temps[j]), m \in Lengths :
            /\ names' = names /\ made' = made
            /\ file' = [file EXCEPT ![names[temps[j][k]]] = Complete(j, m)]
      BY <2>3 DEF FillsFile
    <3>2. Lengths \subseteq Nat
      BY StagedAssumption DEF Lengths
    <3>3. Complete(j, m) \in [by : Jobs \cup {Nobody}, whole : BOOLEAN, pages : Nat]
      BY <3>2 DEF Complete
    <3> QED
      BY <3>1, <3>3, <1>0 DEF TypeOK
  <2>4. CASE RenamesFile(j) \/ Discard(j)
    <3>1. file' = file /\ made' = made
      BY <2>4 DEF RenamesFile, Publish, Discard
    <3>2. temps[j] # <<>> /\ LastTemp(j) \in Names
      BY <2>4, LastOfTemps DEF RenamesFile, Discard, Names
    <3>3. names[LastTemp(j)] \in Inodes \cup {NoInode}
      BY <3>2, <1>0 DEF TypeOK
    <3> QED
      BY <2>4, <3>1, <3>3, <1>0 DEF RenamesFile, Publish, Discard, TypeOK
  <2> QED
    BY <1>0, <2>1, <2>2, <2>3, <2>4 DEF DiskStep
<1>2. pc' \in [Jobs -> Working \cup {"never", "render", "leave", "told", "crashed"}]
  <2>1. CASE Prepare(j)
    BY <2>1 DEF Prepare, Check, Read, Geometry, Layer, GuardLayer, RenderLayer, RenderFails,
      LayersDone, Stage, Open, Goto, FirstStep, AfterOpen, TypeOK, Working
  <2>2. CASE Commit(j)
    BY <2>2 DEF Commit, NextPart, AllParts, WriteIntermediate, Write, Publish, Goto, TypeOK, Working
  <2>3. CASE Leave(j)
    BY <2>3 DEF Leave, Fail, Discard, Tell, Crash, Goto, TypeOK, Working
  <2> QED
    BY <2>1, <2>2, <2>3 DEF Step
<1>3. verdict' \in [Jobs -> {"none", "done", "failed"}]
  <2>1. CASE Prepare(j)
    BY <2>1 DEF Prepare, Check, Read, Geometry, Layer, GuardLayer, RenderLayer, RenderFails,
      LayersDone, Stage, Open, jobVars, TypeOK
  <2>2. CASE Commit(j) \/ Leave(j)
    BY <2>2 DEF Commit, NextPart, AllParts, WriteIntermediate, Write, Publish, Leave, Fail, Discard,
      Tell, Crash, jobVars, TypeOK
  <2> QED
    BY <2>1, <2>2 DEF Step
<1>4. temps' \in [Jobs -> Seq(TempNames)]
  <2>1. CASE temps' = temps
    BY <2>1 DEF TypeOK
  <2>2. CASE GuardLayer(j)
    <3>1. made[j] < MaxFiles
      BY <2>2, Typed, StagedAssumption DEF GuardLayer
    <3>2. NewInode(j) \in TempNames
      BY <3>1, NewIsFree
    <3> QED
      BY <2>2, <3>2, OneMoreTemp DEF GuardLayer, NewInode, TypeOK
  <2>3. CASE Stage(j)
    <3>1. pc[j] = "stage"
      BY <2>3 DEF Stage, Goto
    <3>2. Target(j) \in Paths
      BY <3>1, <1>0, TargetIsPath DEF JobInv, ProgressInv
    <3>3. PICK s \in Suffixes : temps' = [temps EXCEPT ![j] = Append(@, <<Target(j), s>>)]
      BY <2>3 DEF Stage
    <3>4. <<Target(j), s>> \in TempNames
      BY <3>2 DEF StagingNames, TempNames
    <3> QED
      BY <3>3, <3>4, OneMoreTemp DEF TypeOK
  <2>4. CASE temps[j] # <<>> /\ temps' = [temps EXCEPT ![j] = ButLast(@)]
    BY <2>4, LastOfTemps DEF TypeOK
  <2>5. CASE Publish(j)
    BY <2>5, <2>4, <1>0 DEF Publish, Goto, JobInv, StagedInv
  <2>6. CASE Discard(j)
    BY <2>6, <2>4 DEF Discard
  <2> QED
    BY <2>1, <2>2, <2>3, <2>5, <2>6 DEF Step, Prepare, Check, Read, Geometry, Layer, RenderLayer,
      RenderFails, LayersDone, Open, Commit, NextPart, AllParts, WriteIntermediate, Write, Leave, Fail,
      Tell, Crash, jobVars
<1>5. held' \in [Jobs -> Seq(Inodes)]
  <2>1. CASE held' = held \/ held' = [held EXCEPT ![j] = <<>>]
    <3>1. <<>> \in Seq(Inodes)
      BY EmptySeq
    <3> QED
      BY <2>1, <3>1 DEF TypeOK
  <2>2. CASE Open(j)
    <3>1. pc[j] = "open"
      BY <2>2 DEF Open, Goto
    <3>5. Input(j, Len(held[j]) + 1) \in Inodes
      BY <3>1, <1>0, NextSource DEF JobInv
    <3>6. held' = [held EXCEPT ![j] = Append(@, Input(j, Len(held[j]) + 1))]
      BY <2>2 DEF Open
    <3>7. Append(held[j], Input(j, Len(held[j]) + 1)) \in Seq(Inodes)
      BY <3>5, AppendProperties DEF TypeOK
    <3> QED
      BY <3>6, <3>7 DEF TypeOK
  <2>3. CASE WriteIntermediate(j)
    <3>1. pc[j] = "chain" /\ held' = [held EXCEPT ![j] = <<names[temps[j][1]]>>]
      BY <2>3 DEF WriteIntermediate, Goto
    <3>2. Len(temps[j]) = 2
      BY <3>1, <1>0 DEF JobInv, ProgressInv, StagedInv
    <3>3. 1 \in 1..Len(temps[j]) /\ temps[j][1] \in Names
      <4>1. 1 \in 1..Len(temps[j])
        BY <3>2
      <4>2. temps[j][1] \in TempNames
        BY <4>1, <1>0, ElementOfSeq DEF TypeOK
      <4> QED
        BY <4>1, <4>2 DEF Names
    <3>4. Named(temps[j][1])
      BY <3>1, <3>3, <1>0 DEF JobInv, TempsInv
    <3>5. names[temps[j][1]] \in Inodes
      BY <3>3, <3>4, <1>0, Typed
    <3>6. <<names[temps[j][1]]>> \in Seq(Inodes)
      BY <3>5
    <3> QED
      BY <3>1, <3>6 DEF TypeOK
  <2> QED
    BY <2>1, <2>2, <2>3 DEF Step, Prepare, Check, Read, Geometry, Layer, GuardLayer, RenderLayer,
      RenderFails, LayersDone, Stage, Commit, NextPart, AllParts, Write, Publish, Leave, Fail,
      Discard, Tell, Crash, jobVars
<1>6. seen' \in [Jobs -> Nat] /\ parts' \in [Jobs -> Nat] /\ published' \in [Jobs -> Nat]
  <2>1. CASE Check(j)
    BY <2>1 DEF Check, jobVars, TypeOK
  <2>2. CASE Read(j)
    <3>1. pc[j] = "read"
      BY <2>2 DEF Read, Goto
    <3>2. Kind[j] # "author"
      BY <3>1, <1>0 DEF JobInv, ProgressInv, ReadsFirst
    <3>3. 1 \in 1..Len(In[j])
      BY <3>2, StagedAssumption, EmptySeq
    <3>4. Input(j, 1) \in Inodes
      BY <3>1, <3>3, <1>0, InputIsFile DEF JobInv, Started
    <3>5. file[Input(j, 1)].pages \in Nat
      BY <3>4, <1>0, Typed
    <3>6. seen' \in [Jobs -> Nat] /\ published' = published
      BY <2>2, <3>5 DEF Read, TypeOK
    <3>7. parts' = parts \/ \E n \in 0..file[Input(j, 1)].pages : parts' = [parts EXCEPT ![j] = n]
      BY <2>2 DEF Read
    <3>8. parts' \in [Jobs -> Nat]
      <4>1. ASSUME NEW n \in 0..file[Input(j, 1)].pages, parts' = [parts EXCEPT ![j] = n]
            PROVE  parts' \in [Jobs -> Nat]
        <5>1. n \in Nat
          BY <3>5
        <5> QED
          BY <4>1, <5>1 DEF TypeOK
      <4> QED
        BY <3>7, <4>1 DEF TypeOK
    <3> QED
      BY <3>6, <3>8 DEF TypeOK
  <2>3. CASE Open(j)
    <3>1. CASE parts' = parts
      BY <2>3, <3>1 DEF Open, TypeOK
    <3>2. CASE Kind[j] = "split"
      <4>1. file[Input(j, Len(held[j]) + 1)].pages \in Nat
        BY <2>3, <1>0, NextSource, Typed DEF Open, Goto, JobInv
      <4> QED
        BY <2>3, <3>2, <4>1 DEF Open, TypeOK
    <3> QED
      BY <2>3, <3>1, <3>2 DEF Open
  <2>4. CASE seen' = seen /\ parts' = parts /\ (published' = published \/ published' = [published EXCEPT ![j] = @ + 1])
    <3>1. published[j] + 1 \in Nat
      BY DEF TypeOK
    <3> QED
      BY <2>4, <3>1 DEF TypeOK
  <2> QED
    BY <2>1, <2>2, <2>3, <2>4 DEF Step, Prepare, Geometry, Layer, GuardLayer, RenderLayer,
      RenderFails, LayersDone, Stage, Commit, NextPart, AllParts, WriteIntermediate, Write, Publish,
      Leave, Fail, Discard, Tell, Crash, jobVars, partVars
<1> QED
  BY <1>1, <1>2, <1>3, <1>4, <1>5, <1>6 DEF TypeOK

-----------------------------------------------------------------------------
(* What an action leaves its own job with.                                 *)

\* Steps that leave the disk and the staged names alone.
LEMMA SameTemps ==
  ASSUME TypeOK, TypeOK', NEW j \in Jobs, TempsInv(j), UNCHANGED <<diskVars, temps>>,
         pc[j] # "crashed", pc[j] = "render" => pc'[j] = "crashed",
         pc'[j] \notin {"check", "render"}, pc'[j] = "told" => temps[j] = <<>>
  PROVE  TempsInv(j)'
BY DEF TempsInv, Named, FileOf, NewInode, LastTemp, diskVars

\* The call is over, well or not: nothing is open, and it knows what to report.
LEMMA EndsJob ==
  ASSUME IInv, TypeOK', NEW j \in Jobs, Fail(j) \/ Crash(j) \/ AllParts(j)
  PROVE  JobInv(j)'
<1> USE DEF IInv
<1>0. TypeOK /\ JobInv(j)
  OBVIOUS
<1>1. /\ UNCHANGED <<diskVars, temps, seen, parts, published>>
      /\ pc'[j] \in {"leave", "crashed"} /\ held'[j] = <<>>
      /\ pc[j] # "crashed" /\ (pc[j] = "render" => pc'[j] = "crashed")
  BY DEF Fail, Crash, AllParts, Goto, Working, partVars, TypeOK
<1>2. TempsInv(j)'
  BY <1>0, <1>1, SameTemps DEF JobInv
<1>3. SourceInv(j)'
  <2>1. Len(held'[j]) = 0
    BY <1>1, EmptySeq
  <2> QED
    BY <1>1, <2>1 DEF SourceInv, BeforeOpen, Started
<1>4. ProgressInv(j)'
  <2>1. CASE Crash(j)
    BY <2>1, <1>0, <1>1 DEF Crash, JobInv, ProgressInv, BeforeOpen, TypeOK
  <2>2. CASE AllParts(j)
    BY <2>2, <1>0, <1>1 DEF AllParts, Goto, JobInv, ProgressInv, BeforeOpen, TypeOK
  <2>3. CASE Fail(j)
    <3>1. pc'[j] = "leave" /\ verdict'[j] = "failed"
      BY <2>3 DEF Fail, TypeOK
    <3>2. published[j] < parts[j] \/ published[j] = 0
      BY <2>3, <1>0 DEF Fail, Working, JobInv, ProgressInv, BeforeOpen
    <3> QED
      BY <3>1, <3>2, <1>0, <1>1 DEF JobInv, ProgressInv, BeforeOpen
  <2> QED
    BY <2>1, <2>2, <2>3
<1>5. StagedInv(j)'
  BY <1>1 DEF StagedInv
<1> QED
  BY <1>2, <1>3, <1>4, <1>5 DEF JobInv

\* The call returns; a phase is over and staging begins.
LEMMA MovesJob ==
  ASSUME IInv, TypeOK', NEW j \in Jobs, Tell(j) \/ Geometry(j) \/ LayersDone(j) \/ NextPart(j)
  PROVE  JobInv(j)'
<1> USE DEF IInv
<1>0. TypeOK /\ JobInv(j)
  OBVIOUS
<1>1. /\ UNCHANGED <<diskVars, temps, held, seen, parts, published, verdict>>
      /\ \/ pc[j] = "leave" /\ pc'[j] = "told" /\ temps[j] = <<>>
         \/ pc[j] \in {"geometry", "layer"} /\ pc'[j] = "stage"
         \/ pc[j] = "next" /\ pc'[j] = "stage" /\ published[j] < parts[j]
  BY DEF Tell, Geometry, LayersDone, NextPart, Goto, jobVars, partVars, TypeOK
<1>2. TempsInv(j)'
  BY <1>0, <1>1, SameTemps DEF JobInv
<1>3. /\ pc[j] = "next" /\ pc'[j] = "stage" => Kind[j] \in Parted
      /\ pc[j] \in {"geometry", "layer"} => Kind[j] \in {"redact", "ocr"}
  BY <1>0, <1>1 DEF JobInv, ProgressInv, TypeOK
<1>4. SourceInv(j)'
  BY <1>0, <1>1, <1>3 DEF JobInv, SourceInv, BeforeOpen, Started, Named, diskVars
<1>5. ProgressInv(j)'
  BY <1>0, <1>1, <1>3 DEF JobInv, ProgressInv, BeforeOpen
<1>6. StagedInv(j)'
  BY <1>0, <1>1, <1>3 DEF JobInv, StagedInv, Parted
<1> QED
  BY <1>2, <1>4, <1>5, <1>6 DEF JobInv

\* No input of a guarded job is its destination, by whatever links.
LEMMA CheckJob ==
  ASSUME IInv, TypeOK', NEW j \in Jobs, Check(j)
  PROVE  JobInv(j)'
<1> USE DEF IInv
<1>0. TypeOK /\ JobInv(j)
  OBVIOUS
<1>1. /\ UNCHANGED <<diskVars, temps, held, seen, published, verdict>>
      /\ pc[j] = "check" /\ pc'[j] = FirstStep(j)
      /\ parts'[j] = IF Kind[j] \in Parted THEN 0 ELSE 1
  BY DEF Check, Goto, jobVars, TypeOK
<1>2. temps[j] = <<>> /\ held[j] = <<>> /\ published[j] = 0
  BY <1>0, <1>1 DEF JobInv, TempsInv, SourceInv, ProgressInv, BeforeOpen
<1>3. Kind[j] \in Kinds /\ Out[j] # <<>> /\ Len(Out[j]) \in Nat /\ Len(Out[j]) >= 1
  BY StagedAssumption, EmptySeq
<1>4. pc'[j] \in {"read", "open", "stage"}
      /\ (pc'[j] = "read" => Kind[j] \in ReadsFirst)
      /\ (pc'[j] = "open" => Kind[j] = "split")
      /\ (pc'[j] = "stage" => Kind[j] \notin Parted)
  BY <1>1, <1>3 DEF FirstStep, ReadsFirst, Parted, Kinds
<1>5. TempsInv(j)'
  BY <1>0, <1>1, <1>4, SameTemps DEF JobInv
<1>6. \A k \in 1..Len(In[j]) :
        /\ Named(Entry[In[j][k]])
        /\ Kind[j] \in Guarded => Entry[In[j][k]] # Entry[Out[j][1]]
  BY DEF Check, Input, Overwrites, SameFile, Named
<1>7. pc'[j] = "open" => Len(held[j]) < Len(In[j])
  <2>1. Kind[j] = "split" => Len(In[j]) \in Nat /\ Len(In[j]) > 0
    BY StagedAssumption, EmptySeq
  <2>2. Len(held[j]) = 0
    BY <1>2, EmptySeq
  <2> QED
    BY <1>4, <2>1, <2>2
<1>8. SourceInv(j)'
  BY <1>0, <1>1, <1>2, <1>4, <1>6, <1>7 DEF JobInv, SourceInv, Named, diskVars
<1>9. ProgressInv(j)'
  BY <1>1, <1>2, <1>3, <1>4 DEF ProgressInv, Parted, BeforeOpen
<1>10. StagedInv(j)'
  BY <1>1, <1>2, <1>4 DEF StagedInv, Parted
<1> QED
  BY <1>5, <1>8, <1>9, <1>10 DEF JobInv

LEMMA ReadJob ==
  ASSUME IInv, TypeOK', NEW j \in Jobs, Read(j)
  PROVE  JobInv(j)'
<1> USE DEF IInv
<1>0. TypeOK /\ JobInv(j)
  OBVIOUS
<1>1. /\ UNCHANGED <<diskVars, temps, held, published, verdict>>
      /\ pc[j] = "read"
      /\ parts'[j] \in Nat
      /\ IF Kind[j] \in Parted THEN parts'[j] <= Len(Out[j]) ELSE parts'[j] = parts[j]
  BY DEF Read, Goto, TypeOK
<1>2. held[j] = <<>> /\ published[j] = 0 /\ Kind[j] \in ReadsFirst
  BY <1>0, <1>1 DEF JobInv, SourceInv, ProgressInv, BeforeOpen
<1>3. pc'[j] = CASE Kind[j] = "ocr" -> "layer"
                 [] Kind[j] = "redact" -> "geometry"
                 [] Kind[j] = "blank" -> "open"
                 [] OTHER -> "next"
  BY DEF Read, Goto, TypeOK
<1>4. \/ Kind[j] = "ocr" /\ pc'[j] = "layer"
      \/ Kind[j] = "redact" /\ pc'[j] = "geometry"
      \/ Kind[j] = "blank" /\ pc'[j] = "open"
      \/ Kind[j] = "images" /\ pc'[j] = "next"
  BY <1>2, <1>3 DEF ReadsFirst
<1>5. TempsInv(j)'
  BY <1>0, <1>1, <1>4, SameTemps DEF JobInv
<1>6. pc'[j] = "open" => Len(held[j]) < Len(In[j])
  <2>1. Kind[j] # "author" => Len(In[j]) \in Nat /\ Len(In[j]) > 0
    BY StagedAssumption, EmptySeq
  <2>2. Len(held[j]) = 0
    BY <1>2, EmptySeq
  <2> QED
    BY <1>4, <2>1, <2>2
<1>7. SourceInv(j)'
  <2>1. Len(held'[j]) = 0
    BY <1>1, <1>2, EmptySeq
  <2> QED
    BY <2>1, <1>0, <1>1, <1>2, <1>4, <1>6 DEF JobInv, SourceInv, Started, Named, diskVars
<1>8. ProgressInv(j)'
  BY <1>0, <1>1, <1>2, <1>4 DEF JobInv, ProgressInv, Parted, BeforeOpen
<1>9. StagedInv(j)'
  BY <1>4 DEF StagedInv, Parted
<1> QED
  BY <1>5, <1>7, <1>8, <1>9 DEF JobInv

LEMMA OpenJob ==
  ASSUME IInv, TypeOK', NEW j \in Jobs, Open(j)
  PROVE  JobInv(j)'
<1> USE DEF IInv
<1> DEFINE source == Input(j, Len(held[j]) + 1)
           held1 == Append(held[j], source)
<1>0. TypeOK /\ JobInv(j)
  OBVIOUS
<1>1. /\ UNCHANGED <<diskVars, temps, seen, published, verdict>>
      /\ pc[j] = "open" /\ held'[j] = held1
      /\ pc'[j] = IF Len(held[j]) + 1 = Len(In[j]) THEN AfterOpen(j) ELSE "open"
      /\ file[source].whole /\ Rechecked(j, source)
      /\ IF Kind[j] = "split" THEN parts'[j] <= Len(Out[j]) ELSE parts'[j] = parts[j]
  BY DEF Open, Goto, TypeOK
<1>2. /\ Len(held[j]) \in Nat /\ Len(held1) = Len(held[j]) + 1 /\ held1 # <<>>
      /\ \A k \in 1..Len(held[j]) : held1[k] = held[j][k]
      /\ held1[Len(held[j]) + 1] = source
  <2>1. held[j] \in Seq(Inodes) /\ source \in Inodes
    BY <1>0, <1>1, NextSource DEF TypeOK, JobInv
  <2> HIDE DEF source
  <2> QED
    BY <2>1, LenProperties, AppendProperties
<1>3. Len(held[j]) < Len(In[j]) /\ Len(In[j]) \in Nat
  BY <1>0, <1>1, StagedAssumption, LenProperties DEF JobInv, SourceInv
<1>4. Kind[j] \in Kinds \ {"author", "images"}
  BY <1>0, <1>1, StagedAssumption DEF JobInv, ProgressInv
<1>5. \/ pc'[j] = "open" /\ Len(held[j]) + 1 # Len(In[j])
      \/ pc'[j] = "next" /\ Kind[j] \in Parted
      \/ pc'[j] = "chain" /\ Kind[j] = "chain"
      \/ pc'[j] = "write" /\ Kind[j] \notin Parted /\ Kind[j] # "chain"
  BY <1>1 DEF AfterOpen, Parted
<1>6. TempsInv(j)'
  BY <1>0, <1>1, <1>5, SameTemps DEF JobInv
<1>7. SourceInv(j)'
  <2>1. ASSUME NEW k \in 1..Len(held1)
        PROVE  /\ file[held1[k]].whole
               /\ Kind[j] \in Rechecks => file[held1[k]].pages = seen[j]
    <3>1. CASE k \in 1..Len(held[j])
      BY <3>1, <1>0, <1>2 DEF JobInv, SourceInv
    <3>2. CASE k = Len(held[j]) + 1
      BY <3>2, <1>1, <1>2 DEF Rechecked
    <3> QED
      BY <1>2, <3>1, <3>2
  <2> HIDE DEF held1, source
  <2> QED
    BY <2>1, <1>0, <1>1, <1>2, <1>3, <1>5 DEF JobInv, SourceInv, BeforeOpen, Started, Named, diskVars
<1>8. ProgressInv(j)'
  <2>1. parts'[j] \in Nat /\ published[j] \in Nat
    BY DEF TypeOK
  <2> QED
    BY <2>1, <1>0, <1>1, <1>4, <1>5 DEF JobInv, ProgressInv, Parted, BeforeOpen
<1>9. StagedInv(j)'
  BY <1>0, <1>1, <1>4, <1>5 DEF JobInv, StagedInv, Parted, FileOf, LastTemp, diskVars
<1> QED
  BY <1>6, <1>7, <1>8, <1>9 DEF JobInv

\* The guard exists before the layer does: its name is the only one of j that
\* names nothing.
LEMMA GuardLayerJob ==
  ASSUME IInv, TypeOK', NEW j \in Jobs, GuardLayer(j)
  PROVE  JobInv(j)'
<1> USE DEF IInv
<1> DEFINE n == NewInode(j)
           temps1 == Append(temps[j], n)
<1>0. TypeOK /\ DiskInv /\ JobInv(j)
  OBVIOUS
<1>1. /\ UNCHANGED <<diskVars, held, seen, parts, published, verdict>>
      /\ pc[j] = "layer" /\ pc'[j] = "render" /\ temps'[j] = temps1
      /\ made[j] < MaxFiles
  <2>1. made[j] \in Nat /\ MaxFiles \in Nat /\ made[j] + 1 < MaxFiles
    BY <1>0, Typed, StagedAssumption DEF GuardLayer
  <2>2. made[j] < MaxFiles
    BY <2>1
  <2> QED
    BY <2>2 DEF GuardLayer, Goto, partVars, NewInode, TypeOK
<1>2. n \in TempNames /\ ~Named(n)
  BY <1>0, <1>1, NewIsFree
<1>3. /\ Len(temps[j]) \in Nat /\ Len(temps1) = Len(temps[j]) + 1 /\ temps1 # <<>>
      /\ \A k \in 1..Len(temps[j]) : temps1[k] = temps[j][k]
      /\ temps1[Len(temps[j]) + 1] = n
  <2> HIDE DEF n
  <2> QED
    BY <1>0, <1>2, LastOfTemps, OneMoreTemp
<1>4. \A k \in 1..Len(temps[j]) : Named(temps[j][k]) /\ FileOf(temps[j][k]).by = j
  BY <1>0, <1>1 DEF JobInv, TempsInv
<1>5. TempsInv(j)'
  <2>1. \A k \in 1..Len(temps1) : IF Named(temps1[k]) THEN FileOf(temps1[k]).by = j ELSE temps1[k] = n
    BY <1>2, <1>3, <1>4
  <2>2. \A k, l \in 1..Len(temps1) : temps1[k] = temps1[l] => k = l
    BY <1>0, <1>2, <1>3, <1>4 DEF JobInv, TempsInv
  <2>3. temps1[Len(temps1)] = n
    BY <1>3
  <2> HIDE DEF temps1
  <2> QED
    BY <2>1, <2>2, <2>3, <1>1, <1>3 DEF TempsInv, Named, FileOf, NewInode, LastTemp, diskVars
<1>6. SourceInv(j)'
  BY <1>0, <1>1 DEF JobInv, SourceInv, BeforeOpen, Started, Named, diskVars
<1>7. ProgressInv(j)'
  BY <1>0, <1>1 DEF JobInv, ProgressInv, BeforeOpen
<1>8. StagedInv(j)'
  BY <1>1 DEF StagedInv
<1> QED
  BY <1>5, <1>6, <1>7, <1>8 DEF JobInv

\* The renderer makes the file, complete or not.
LEMMA RenderJob ==
  ASSUME IInv, TypeOK', NEW j \in Jobs, RenderLayer(j) \/ RenderFails(j)
  PROVE  JobInv(j)'
<1> USE DEF IInv
<1> DEFINE n == NewInode(j)
<1>0. TypeOK /\ DiskInv /\ JobInv(j) /\ WholeIsFinal /\ PathsStay
  BY EveryDiskStep, Final, KeepsPaths DEF Step, Prepare, Layer
<1>1. /\ UNCHANGED <<temps, held, seen, parts, published>>
      /\ pc[j] = "render"
      /\ \/ pc'[j] = "layer" /\ verdict' = verdict
         \/ pc'[j] = "leave" /\ verdict'[j] = "failed"
      /\ LastTemp(j) = n /\ temps[j] # <<>> /\ made[j] < MaxFiles
  BY <1>0 DEF RenderLayer, RenderFails, Goto, jobVars, partVars, JobInv, TempsInv, TypeOK
<1>2. PICK content \in {Empty(j), Complete(j, 1)} :
        names' = [names EXCEPT ![n] = n] /\ file' = [file EXCEPT ![n] = content]
  BY <1>1 DEF RenderLayer, RenderFails, Create
<1>3. /\ n \in Names /\ n \in Inodes /\ n # NoInode /\ content.by = j
      /\ \A m \in Names : names[m] # n
  BY <1>0, <1>1, NewIsFree, StagedAssumption DEF Names, Empty, Complete
<1>4. TempsInv(j)'
  <2>1. ASSUME NEW k \in 1..Len(temps[j])
        PROVE  Named(temps[j][k])' /\ FileOf(temps[j][k])'.by = j
    <3>1. temps[j][k] \in Names
      BY LastOfTemps DEF Owned, Names
    <3>2. CASE temps[j][k] = n
      <4>1. names'[n] = n /\ file'[n] = content
        BY <1>2, <1>3, <1>0 DEF TypeOK
      <4> QED
        BY <4>1, <3>2, <1>1, <1>3 DEF Named, FileOf
    <3>3. CASE temps[j][k] # n
      <4>1. Named(temps[j][k]) /\ FileOf(temps[j][k]).by = j
        BY <3>3, <1>0 DEF JobInv, TempsInv
      <4>2. names'[temps[j][k]] = names[temps[j][k]] /\ names[temps[j][k]] \in Inodes \ {n}
        BY <3>1, <3>3, <4>1, <1>2, <1>3, <1>0, Typed DEF TypeOK
      <4>3. file'[names[temps[j][k]]] = file[names[temps[j][k]]]
        BY <4>2, <1>2, <1>0 DEF TypeOK
      <4> QED
        BY <4>1, <4>2, <4>3, <1>1 DEF Named, FileOf
    <3> QED
      BY <3>2, <3>3
  <2> QED
    BY <2>1, <1>0, <1>1 DEF JobInv, TempsInv
<1>5. SourceInv(j)'
  <2>1. held[j] = <<>> /\ Len(held[j]) = 0
    BY <1>0, <1>1, EmptySeq DEF JobInv, SourceInv, BeforeOpen
  <2>2. \A k \in 1..Len(In[j]) : Named(Entry[In[j][k]])'
    BY <1>0, <1>1, InputIsFile DEF PathsStay, JobInv, Started
  <2> QED
    BY <2>1, <2>2, <1>0, <1>1 DEF JobInv, SourceInv, Started
<1>6. ProgressInv(j)'
  BY <1>0, <1>1 DEF JobInv, ProgressInv, BeforeOpen
<1>7. StagedInv(j)'
  BY <1>1 DEF StagedInv
<1> QED
  BY <1>4, <1>5, <1>6, <1>7 DEF JobInv

\* mkstemp gives j a name nobody has and an empty file.
LEMMA StageJob ==
  ASSUME IInv, TypeOK', NEW j \in Jobs, Stage(j)
  PROVE  JobInv(j)'
<1> USE DEF IInv
<1> DEFINE x == NewInode(j)
<1>0. TypeOK /\ DiskInv /\ JobInv(j) /\ WholeIsFinal /\ PathsStay
  BY EveryDiskStep, Final, KeepsPaths DEF Step, Prepare
<1>1. /\ UNCHANGED <<held, seen, parts, published, verdict>>
      /\ pc[j] = "stage"
      /\ pc'[j] = CASE NeedsAnother(j) -> "stage"
                    [] Kind[j] \in Parted \cup {"author"} -> "write"
                    [] OTHER -> "open"
  BY DEF Stage, Goto, partVars, TypeOK
<1>2. PICK n \in StagingNames :
        /\ n \in TempNames /\ ~Named(n) /\ made[j] < MaxFiles
        /\ names' = [names EXCEPT ![n] = x] /\ file' = [file EXCEPT ![x] = Empty(j)]
        /\ temps'[j] = Append(temps[j], n)
  <2>1. Target(j) \in Paths
    BY <1>0, <1>1, TargetIsPath DEF JobInv, ProgressInv
  <2>2. PICK s \in Suffixes : /\ names[<<Target(j), s>>] = NoInode
                              /\ Create(j, <<Target(j), s>>, Empty(j))
                              /\ temps' = [temps EXCEPT ![j] = Append(@, <<Target(j), s>>)]
    BY DEF Stage
  <2>3. <<Target(j), s>> \in StagingNames
    BY <2>1 DEF StagingNames
  <2> QED
    BY <2>2, <2>3, <1>0 DEF Create, TempNames, Named, TypeOK
<1> DEFINE temps1 == Append(temps[j], n)
<1>3. /\ Len(temps[j]) \in Nat /\ Len(temps1) = Len(temps[j]) + 1 /\ temps1 # <<>>
      /\ \A k \in 1..Len(temps[j]) : temps1[k] = temps[j][k]
      /\ temps1[Len(temps[j]) + 1] = n
  BY <1>0, <1>2, LastOfTemps, OneMoreTemp
<1>4. /\ n \in Names /\ x \in Inodes /\ x # NoInode /\ \A m \in Names : names[m] # x
  BY <1>0, <1>2, NewIsFree, StagedAssumption DEF Names
<1>5. names'[n] = x /\ file'[x] = Empty(j)
  BY <1>0, <1>2, <1>4 DEF TypeOK
<1>6. \A k \in 1..Len(temps[j]) :
        /\ Named(temps[j][k]) /\ FileOf(temps[j][k]).by = j
        /\ temps[j][k] # n /\ temps[j][k] \in Names
        /\ names'[temps[j][k]] = names[temps[j][k]]
        /\ file'[names[temps[j][k]]] = file[names[temps[j][k]]]
        /\ names[temps[j][k]] # x
  <2> SUFFICES ASSUME NEW k \in 1..Len(temps[j])
               PROVE  /\ Named(temps[j][k]) /\ FileOf(temps[j][k]).by = j
                      /\ temps[j][k] # n /\ temps[j][k] \in Names
                      /\ names'[temps[j][k]] = names[temps[j][k]]
                      /\ file'[names[temps[j][k]]] = file[names[temps[j][k]]]
                      /\ names[temps[j][k]] # x
    OBVIOUS
  <2>1. temps[j][k] \in Names /\ Named(temps[j][k]) /\ FileOf(temps[j][k]).by = j
    BY <1>0, <1>1, LastOfTemps DEF JobInv, TempsInv, Owned, Names
  <2>2. temps[j][k] # n /\ names[temps[j][k]] # x /\ names[temps[j][k]] \in Inodes
    BY <2>1, <1>2, <1>4, <1>0, Typed
  <2>3. names'[temps[j][k]] = names[temps[j][k]]
    BY <2>1, <2>2, <1>2, <1>0 DEF TypeOK
  <2>4. file'[names[temps[j][k]]] = file[names[temps[j][k]]]
    BY <2>2, <1>2, <1>0 DEF TypeOK
  <2> QED
    BY <2>1, <2>2, <2>3, <2>4
<1> HIDE DEF x
<1>7. \/ pc'[j] = "stage" /\ Kind[j] = "chain" /\ temps[j] = <<>>
      \/ pc'[j] = "write" /\ Kind[j] \in Parted \cup {"author"}
      \/ pc'[j] = "open" /\ Kind[j] \notin Parted \cup {"author"} /\ ~NeedsAnother(j)
  BY <1>1 DEF NeedsAnother
<1>8. TempsInv(j)'
  <2>1. \A k \in 1..Len(temps1) : names'[temps1[k]] # NoInode /\ file'[names'[temps1[k]]].by = j
    <3>1. file'[names'[n]].by = j
      BY <1>5 DEF Empty
    <3>2. \A k \in 1..Len(temps[j]) : names'[temps[j][k]] # NoInode /\ file'[names'[temps[j][k]]].by = j
      BY <1>6 DEF Named, FileOf
    <3> QED
      BY <3>1, <3>2, <1>3, <1>4, <1>5
  <2>2. \A k, l \in 1..Len(temps1) : temps1[k] = temps1[l] => k = l
    BY <1>0, <1>3, <1>6 DEF JobInv, TempsInv
  <2> HIDE DEF temps1
  <2>3. temps'[j] = temps1
    BY <1>2 DEF temps1
  <2> QED
    BY <2>1, <2>2, <2>3, <1>7 DEF TempsInv, Named, FileOf
<1>9. SourceInv(j)'
  <2>1. \A k \in 1..Len(In[j]) : Named(Entry[In[j][k]])'
    BY <1>0, <1>1, InputIsFile DEF PathsStay, JobInv, Started
  <2>2. \A k \in 1..Len(held[j]) : file'[held[j][k]] = file[held[j][k]]
    <3>1. \A k \in 1..Len(held[j]) : held[j][k] \in Inodes
      BY <1>0, ElementOfSeq DEF TypeOK
    <3> QED
      BY <3>1, <1>0 DEF WholeIsFinal, JobInv, SourceInv
  <2>3. Kind[j] # "author" => Len(In[j]) \in Nat /\ Len(In[j]) > 0
    BY StagedAssumption, EmptySeq
  <2>4. Kind[j] \notin Parted => held[j] = <<>> /\ Len(held[j]) = 0
    BY <1>0, <1>1, EmptySeq DEF JobInv, SourceInv
  <2> QED
    BY <2>1, <2>2, <2>3, <2>4, <1>0, <1>1, <1>7 DEF JobInv, SourceInv, Started, Parted, Rechecks, BeforeOpen
<1>10. ProgressInv(j)'
  <2>1. Kind[j] = "images" => pc'[j] # "open"
    BY <1>7 DEF Parted
  <2> QED
    BY <2>1, <1>0, <1>1, <1>7 DEF JobInv, ProgressInv, Parted, BeforeOpen
<1>11. StagedInv(j)'
  <2>1. temps'[j] = temps1 /\ (LastTemp(j))' = n
    BY <1>2, <1>3 DEF LastTemp
  <2>2. temps'[j] # <<>> /\ ~file'[names'[n]].whole
    BY <1>2, <1>3, <1>5 DEF Empty
  <2>3. Kind[j] = "chain" /\ temps[j] = <<>> => Len(temps'[j]) = 1 /\ temps'[j][1] = n
    <3>1. temps[j] = <<>> => Len(temps[j]) = 0
      BY EmptySeq
    <3> QED
      BY <3>1, <2>1, <1>3
  <2>4. Kind[j] = "chain" /\ temps[j] # <<>> =>
          /\ Len(temps'[j]) = 2
          /\ temps'[j][2] = n
          /\ ~file'[names'[temps'[j][1]]].whole
          /\ names'[temps'[j][1]] # names'[temps'[j][2]]
    <3> SUFFICES ASSUME Kind[j] = "chain", temps[j] # <<>>
                 PROVE  /\ Len(temps'[j]) = 2
                        /\ temps'[j][2] = n
                        /\ ~file'[names'[temps'[j][1]]].whole
                        /\ names'[temps'[j][1]] # names'[temps'[j][2]]
      OBVIOUS
    <3>1. Len(temps[j]) = 1 /\ ~FileOf(temps[j][1]).whole
      BY <1>0, <1>1 DEF JobInv, StagedInv
    <3>2. temps'[j][1] = temps[j][1] /\ temps'[j][2] = n /\ Len(temps'[j]) = 2 /\ 1 \in 1..Len(temps[j])
      BY <3>1, <2>1, <1>3
    <3>3. /\ names'[temps[j][1]] = names[temps[j][1]] /\ names[temps[j][1]] # x
          /\ file'[names'[temps'[j][1]]] = file[names[temps[j][1]]]
      BY <3>2, <1>6 DEF FileOf
    <3> QED
      BY <3>1, <3>2, <3>3, <1>5 DEF FileOf
  <2> QED
    BY <2>1, <2>2, <2>3, <2>4, <1>7 DEF StagedInv, FileOf, NeedsAnother
<1> QED
  BY <1>8, <1>9, <1>10, <1>11 DEF JobInv

\* A write makes one of the staged files complete; the sources stay.
LEMMA SourcesKept ==
  ASSUME TypeOK, NEW i \in Jobs, SourceInv(i), WholeIsFinal
  PROVE  \A k \in 1..Len(held[i]) : held[i][k] \in Inodes /\ file'[held[i][k]] = file[held[i][k]]
<1>1. \A k \in 1..Len(held[i]) : held[i][k] \in Inodes
  BY ElementOfSeq DEF TypeOK
<1> QED
  BY <1>1 DEF WholeIsFinal, SourceInv

\* What a write does to the staged files of j: the k-th becomes complete.
LEMMA FillTemps ==
  ASSUME TypeOK, NEW j \in Jobs, TempsInv(j), pc[j] \in {"chain", "write"}, pc'[j] \in {"write", "publish"},
         NEW k \in 1..Len(temps[j]), NEW n \in Nat,
         UNCHANGED <<names, made, temps>>,
         file' = [file EXCEPT ![names[temps[j][k]]] = Complete(j, n)]
  PROVE  /\ names[temps[j][k]] \in Inodes
         /\ file'[names[temps[j][k]]] = Complete(j, n)
         /\ \A i \in Inodes \ {names[temps[j][k]]} : file'[i] = file[i]
         /\ TempsInv(j)'
<1>1. \A l \in 1..Len(temps[j]) : temps[j][l] \in Names /\ Named(temps[j][l]) /\ names[temps[j][l]] \in Inodes
  BY LastOfTemps, Typed DEF TempsInv, Owned, Names
<1>2. file'[names[temps[j][k]]] = Complete(j, n)
  BY <1>1 DEF TypeOK
<1>3. \A i \in Inodes \ {names[temps[j][k]]} : file'[i] = file[i]
  BY DEF TypeOK
<1>4. \A l \in 1..Len(temps[j]) : file'[names[temps[j][l]]].by = j
  BY <1>1, <1>2, <1>3 DEF Complete, TempsInv, FileOf
<1>5. TempsInv(j)'
  BY <1>1, <1>4 DEF TempsInv, Named, FileOf
<1> QED
  BY <1>1, <1>2, <1>3, <1>5

\* The first of a chain's two files is the source of the second.
LEMMA WriteIntermediateJob ==
  ASSUME IInv, TypeOK', NEW j \in Jobs, WriteIntermediate(j)
  PROVE  JobInv(j)'
<1> USE DEF IInv
<1> DEFINE t == names[temps[j][1]]
<1>0. TypeOK /\ JobInv(j) /\ PathsStay
  BY EveryDiskStep, KeepsPaths DEF Step, Commit
<1>1. /\ UNCHANGED <<names, made, temps, seen, parts, published, verdict>>
      /\ pc[j] = "chain" /\ pc'[j] = "write" /\ held'[j] = <<t>>
  BY DEF WriteIntermediate, Goto, partVars, TypeOK
<1>2. PICK n \in 1..MaxPages : file' = [file EXCEPT ![t] = Complete(j, n)]
  BY DEF WriteIntermediate
<1>3. /\ Kind[j] = "chain" /\ Len(temps[j]) = 2 /\ 1 \in 1..Len(temps[j]) /\ 2 \in 1..Len(temps[j])
      /\ t # names[temps[j][2]]
      /\ temps[j] # <<>> /\ ~FileOf(LastTemp(j)).whole
  BY <1>0, <1>1 DEF JobInv, ProgressInv, StagedInv
<1>4. /\ t \in Inodes /\ file'[t] = Complete(j, n)
      /\ \A i \in Inodes \ {t} : file'[i] = file[i]
      /\ TempsInv(j)'
  <2>1. n \in Nat
    BY StagedAssumption
  <2> QED
    BY <2>1, <1>0, <1>1, <1>2, <1>3, FillTemps DEF JobInv
<1>5. LastTemp(j) = temps[j][2] /\ names[temps[j][2]] \in Inodes
  <2>1. Named(temps[j][2]) /\ temps[j][2] \in Names
    BY <1>0, <1>1, <1>3, LastOfTemps DEF JobInv, TempsInv, Owned, Names
  <2> QED
    BY <2>1, <1>0, <1>3, Typed DEF LastTemp
<1> HIDE DEF t
<1>6. SourceInv(j)'
  <2>1. \A k \in 1..Len(held'[j]) : file'[held'[j][k]].whole
    BY <1>1, <1>4 DEF Complete
  <2>2. \A k \in 1..Len(In[j]) : Named(Entry[In[j][k]])'
    BY <1>0, <1>1, InputIsFile DEF PathsStay, JobInv, Started
  <2> QED
    BY <2>1, <2>2, <1>0, <1>1, <1>3 DEF JobInv, SourceInv, Started, Rechecks, BeforeOpen
<1>7. ProgressInv(j)'
  BY <1>0, <1>1 DEF JobInv, ProgressInv, BeforeOpen
<1>8. StagedInv(j)'
  <2>1. file'[names[temps[j][2]]] = file[names[temps[j][2]]]
    BY <1>3, <1>4, <1>5
  <2> QED
    BY <2>1, <1>1, <1>3, <1>5 DEF StagedInv, FileOf, LastTemp
<1> QED
  BY <1>4, <1>6, <1>7, <1>8 DEF JobInv

LEMMA WriteJob ==
  ASSUME IInv, TypeOK', NEW j \in Jobs, Write(j)
  PROVE  JobInv(j)'
<1> USE DEF IInv
<1> DEFINE t == names[LastTemp(j)]
<1>0. TypeOK /\ JobInv(j) /\ PathsStay /\ WholeIsFinal
  BY EveryDiskStep, KeepsPaths, Final DEF Step, Commit
<1>1. /\ UNCHANGED <<names, made, temps, held, seen, parts, published, verdict>>
      /\ pc[j] = "write" /\ pc'[j] = "publish"
  BY DEF Write, Goto, jobVars, partVars, TypeOK
<1>2. PICK n \in Produced(j) : file' = [file EXCEPT ![t] = Complete(j, n)]
  BY DEF Write
<1>3. temps[j] # <<>> /\ Len(temps[j]) \in 1..Len(temps[j])
  BY <1>0, <1>1, LastOfTemps DEF JobInv, StagedInv
<1>4. /\ held[j] # <<>> => held[j][1] \in Inodes /\ 1 \in 1..Len(held[j])
      /\ Kind[j] \in {"rewrite"} \cup Rechecks => held[j] # <<>>
  <2>1. held[j] # <<>> => 1 \in 1..Len(held[j])
    BY <1>0, EmptySeq DEF TypeOK
  <2>2. held[j] # <<>> => held[j][1] \in Inodes
    BY <2>1, <1>0, ElementOfSeq DEF TypeOK
  <2> QED
    BY <2>1, <2>2, <1>0, <1>1 DEF JobInv, SourceInv
<1>5. n \in Nat /\ (Kind[j] \in Rechecks => n = seen[j])
  <2>1. CASE Kind[j] \in Rechecks
    <3>1. n = file[held[j][1]].pages
      BY <1>2, <2>1 DEF Produced
    <3>2. n = seen[j]
      BY <3>1, <2>1, <1>0, <1>4 DEF JobInv, SourceInv
    <3> QED
      BY <3>2, <1>0 DEF TypeOK
  <2>2. CASE Kind[j] \notin Rechecks
    <3>1. n \in 1..MaxPages \/ (Kind[j] = "rewrite" /\ n = file[held[j][1]].pages)
      BY <1>2, <2>2 DEF Produced
    <3> QED
      BY <3>1, <2>2, <1>0, <1>4, Typed, StagedAssumption
  <2> QED
    BY <2>1, <2>2
<1>6. /\ t \in Inodes /\ file'[t] = Complete(j, n)
      /\ TempsInv(j)'
  BY <1>0, <1>1, <1>2, <1>3, <1>5, FillTemps DEF JobInv, LastTemp
<1>7. SourceInv(j)'
  <2>1. \A k \in 1..Len(held[j]) : file'[held[j][k]] = file[held[j][k]]
    BY <1>0, SourcesKept DEF JobInv
  <2>2. \A k \in 1..Len(In[j]) : Named(Entry[In[j][k]])'
    BY <1>0, <1>1, InputIsFile DEF PathsStay, JobInv, Started
  <2> QED
    BY <2>1, <2>2, <1>0, <1>1 DEF JobInv, SourceInv, Started, BeforeOpen
<1>8. ProgressInv(j)'
  BY <1>0, <1>1 DEF JobInv, ProgressInv, BeforeOpen
<1>9. StagedInv(j)'
  BY <1>1, <1>3, <1>5, <1>6 DEF StagedInv, FileOf, LastTemp, Complete
<1> QED
  BY <1>6, <1>7, <1>8, <1>9 DEF JobInv

\* The youngest name goes; the others are as they were.
LEMMA DropLast ==
  ASSUME TypeOK, NEW j \in Jobs, TempsInv(j), pc[j] \in {"publish", "leave"}, pc'[j] \in {"next", "leave"},
         temps[j] # <<>>, temps'[j] = ButLast(temps[j]), file' = file, made' = made,
         \A n \in TempNames \ {LastTemp(j)} : names'[n] = names[n]
  PROVE  TempsInv(j)'
<1>1. /\ Len(temps[j]) \in Nat /\ Len(temps'[j]) = Len(temps[j]) - 1
      /\ \A k \in 1..Len(temps[j]) : temps[j][k] \in TempNames
      /\ \A k \in 1..Len(temps'[j]) : temps'[j][k] = temps[j][k]
  BY LastOfTemps DEF Owned
<1>2. Len(temps[j]) \in 1..Len(temps[j])
  BY LastOfTemps
<1>3. \A k \in 1..Len(temps'[j]) : k \in 1..Len(temps[j]) /\ k # Len(temps[j])
  BY <1>1
<1>4. \A k \in 1..Len(temps'[j]) : temps[j][k] # LastTemp(j)
  BY <1>1, <1>2, <1>3 DEF TempsInv, LastTemp
<1>5. \A k \in 1..Len(temps'[j]) : names'[temps[j][k]] = names[temps[j][k]]
  BY <1>1, <1>3, <1>4
<1>6. \A k \in 1..Len(temps'[j]) : names'[temps'[j][k]] # NoInode /\ file'[names'[temps'[j][k]]].by = j
  <2>1. \A k \in 1..Len(temps[j]) : names[temps[j][k]] # NoInode /\ file[names[temps[j][k]]].by = j
    BY DEF TempsInv, Named, FileOf
  <2> SUFFICES ASSUME NEW k \in 1..Len(temps'[j])
               PROVE  names'[temps'[j][k]] # NoInode /\ file[names'[temps'[j][k]]].by = j
    OBVIOUS
  <2>2. temps'[j][k] = temps[j][k] /\ names'[temps[j][k]] = names[temps[j][k]] /\ k \in 1..Len(temps[j])
    BY <1>1, <1>3, <1>5
  <2> QED
    BY <2>1, <2>2
<1>7. \A k, l \in 1..Len(temps'[j]) : temps'[j][k] = temps'[j][l] => k = l
  BY <1>1, <1>3 DEF TempsInv
<1> QED
  BY <1>6, <1>7 DEF TempsInv, Named, FileOf

LEMMA PublishJob ==
  ASSUME IInv, TypeOK', NEW j \in Jobs, Publish(j)
  PROVE  JobInv(j)'
<1> USE DEF IInv
<1>0. TypeOK /\ JobInv(j) /\ PathsStay
  BY EveryDiskStep, KeepsPaths DEF Step, Commit
<1>1. /\ UNCHANGED <<file, made, verdict, held, seen, parts>>
      /\ pc[j] = "publish" /\ pc'[j] = "next"
      /\ temps'[j] = ButLast(temps[j]) /\ published'[j] = published[j] + 1
      /\ names' = [names EXCEPT ![Target(j)] = names[LastTemp(j)], ![LastTemp(j)] = NoInode]
  BY DEF Publish, Goto, TypeOK
<1>2. temps[j] # <<>> /\ published[j] < parts[j] /\ Target(j) \in Paths
  BY <1>0, <1>1, TargetIsPath DEF JobInv, StagedInv, ProgressInv
<1>3. \A n \in TempNames \ {LastTemp(j)} : names'[n] = names[n]
  BY <1>0, <1>1, <1>2, StagedAssumption DEF TypeOK, Names
<1>4. TempsInv(j)'
  BY <1>0, <1>1, <1>2, <1>3, DropLast DEF JobInv
<1>5. SourceInv(j)'
  <2>1. \A k \in 1..Len(In[j]) : Named(Entry[In[j][k]])'
    BY <1>0, <1>1, InputIsFile DEF PathsStay, JobInv, Started
  <2> QED
    BY <2>1, <1>0, <1>1 DEF JobInv, SourceInv, Started, BeforeOpen
<1>6. ProgressInv(j)'
  <2>1. published[j] \in Nat /\ parts[j] \in Nat
    BY <1>0 DEF TypeOK
  <2> QED
    BY <2>1, <1>0, <1>1, <1>2 DEF JobInv, ProgressInv, BeforeOpen
<1>7. StagedInv(j)'
  BY <1>1 DEF StagedInv
<1> QED
  BY <1>4, <1>5, <1>6, <1>7 DEF JobInv

LEMMA DiscardJob ==
  ASSUME IInv, TypeOK', NEW j \in Jobs, Discard(j)
  PROVE  JobInv(j)'
<1> USE DEF IInv
<1>0. TypeOK /\ JobInv(j)
  OBVIOUS
<1>1. /\ UNCHANGED <<file, made, verdict, held, seen, parts, published>>
      /\ pc[j] = "leave" /\ pc'[j] = "leave" /\ temps[j] # <<>>
      /\ temps'[j] = ButLast(temps[j])
      /\ names' = [names EXCEPT ![LastTemp(j)] = NoInode]
  BY DEF Discard, partVars, TypeOK
<1>2. \A n \in TempNames \ {LastTemp(j)} : names'[n] = names[n]
  BY <1>0, <1>1 DEF TypeOK, Names
<1>3. TempsInv(j)'
  BY <1>0, <1>1, <1>2, DropLast DEF JobInv
<1>4. SourceInv(j)'
  BY <1>0, <1>1 DEF JobInv, SourceInv, Started, BeforeOpen
<1>5. ProgressInv(j)'
  BY <1>0, <1>1 DEF JobInv, ProgressInv, BeforeOpen
<1>6. StagedInv(j)'
  BY <1>1 DEF StagedInv
<1> QED
  BY <1>3, <1>4, <1>5, <1>6 DEF JobInv

-----------------------------------------------------------------------------
(* The invariant.                                                          *)

LEMMA OthersKept ==
  ASSUME IInv, TypeOK', NEW j \in Jobs, Step(j), NEW i \in Jobs \ {j}
  PROVE  JobInv(i)'
<1> USE DEF IInv
<1>0. /\ TypeOK /\ JobInv(i)
      /\ WholeIsFinal /\ PathsStay /\ TempsStay(i)
  BY EveryDiskStep, Final, KeepsPaths, KeepsTemps
<1>1. UNCHANGED Local(i)
  BY <1>0, OthersWait
<1> USE DEF Local
<1>2. \A k \in 1..Len(temps[i]) : temps[i][k] \in Owned(i)
  BY DEF Owned
<1>3. \A k \in 1..Len(temps[i]) :
        /\ names'[temps[i][k]] = names[temps[i][k]]
        /\ Named(temps[i][k]) => file'[names[temps[i][k]]] = file[names[temps[i][k]]]
  BY <1>0, <1>2 DEF TempsStay, FileOf
<1>4. TempsInv(i)'
  BY <1>0, <1>1, <1>3 DEF JobInv, TempsInv, Named, FileOf, NewInode, LastTemp
<1>5. SourceInv(i)'
  <2>1. \A k \in 1..Len(held[i]) : file'[held[i][k]] = file[held[i][k]]
    BY <1>0, SourcesKept DEF JobInv
  <2>2. pc[i] \in Started => \A k \in 1..Len(In[i]) : Named(Entry[In[i][k]])'
    BY <1>0, InputIsFile DEF PathsStay, JobInv
  <2> QED
    BY <2>1, <2>2, <1>0, <1>1 DEF JobInv, SourceInv
<1>6. ProgressInv(i)'
  BY <1>0, <1>1 DEF JobInv, ProgressInv
<1>7. StagedInv(i)'
  <2>1. pc[i] \in {"stage", "open", "chain", "write", "publish"} =>
          \A k \in 1..Len(temps[i]) : FileOf(temps[i][k]) = file'[names'[temps[i][k]]]
    BY <1>0, <1>3 DEF JobInv, TempsInv, FileOf
  <2>2. temps[i] # <<>> => Len(temps[i]) \in 1..Len(temps[i])
    BY <1>0, LastOfTemps
  <2> QED
    BY <2>1, <2>2, <1>0, <1>1, <1>3 DEF JobInv, StagedInv, FileOf, LastTemp
<1> QED
  BY <1>4, <1>5, <1>6, <1>7 DEF JobInv

LEMMA InvariantInit == Init => IInv
<1> SUFFICES ASSUME Init PROVE IInv
  OBVIOUS
<1> USE StagedAssumption DEF Init
<1>1. TypeOK
  <2>1. <<>> \in Seq(TempNames) /\ <<>> \in Seq(Inodes)
    BY EmptySeq
  <2>2. names \in [Names -> Inodes \cup {NoInode}]
    BY DEF Inodes
  <2>3. file \in [Inodes -> [by : Jobs \cup {Nobody}, whole : BOOLEAN, pages : Nat]]
    BY DEF Inodes
  <2>4. made \in [Jobs -> 0..MaxFiles]
    OBVIOUS
  <2>5. pc \in [Jobs -> Working \cup {"never", "render", "leave", "told", "crashed"}]
    BY DEF Working
  <2> QED
    BY <2>1, <2>2, <2>3, <2>4, <2>5 DEF TypeOK
<1>2. DiskInv
  <2>1. \A p \in Paths : Named(p) => names[p] \in Originals /\ FileOf(p).whole
    BY DEF Named, FileOf, Names, Inodes
  <2>2. \A i \in Inodes : file[i].whole => file[i].pages \in Lengths
    BY DEF Lengths, Inodes
  <2>3. \A j \in Jobs, k \in 1..MaxFiles :
          /\ <<j, k>> \in Made /\ <<j, k>> \notin Originals /\ <<j, k>> # NoInode
          /\ <<j, k>> \in TempNames /\ <<j, k>> \notin Paths
    BY DEF Made, Inodes, LayerNames, TempNames
  <2>4. \A j \in Jobs, k \in 1..MaxFiles :
          /\ ~file[<<j, k>>].whole
          /\ \A n \in Names : names[n] # <<j, k>>
          /\ ~Named(<<j, k>>)
    <3>1. \A n \in Names : names[n] \in Originals \cup {NoInode}
      OBVIOUS
    <3>2. \A n \in TempNames : names[n] = NoInode
      BY DEF Names
    <3>3. \A i \in Made : i \notin Originals => ~file[i].whole
      BY DEF Inodes
    <3> QED
      BY ONLY <2>3, <3>1, <3>2, <3>3 DEF Named
  <2>5. \A n \in TempNames : ~Named(n)
    BY DEF Named, Names
  <2> QED
    BY <2>1, <2>2, <2>4, <2>5 DEF DiskInv
<1>3. ASSUME NEW j \in Jobs PROVE JobInv(j)
  <2>1. Len(temps[j]) = 0 /\ Len(held[j]) = 0 /\ Len(Out[j]) \in Nat
    BY EmptySeq, LenProperties
  <2>2. pc[j] \in {"check", "never"}
    OBVIOUS
  <2>3. TempsInv(j)
    BY <2>1, <2>2 DEF TempsInv
  <2>4. SourceInv(j)
    BY <2>1, <2>2 DEF SourceInv, Started
  <2>5. ProgressInv(j)
    BY <2>1, <2>2 DEF ProgressInv, BeforeOpen
  <2>6. StagedInv(j)
    BY <2>2 DEF StagedInv
  <2> QED
    BY <2>3, <2>4, <2>5, <2>6 DEF JobInv
<1> QED
  BY <1>1, <1>2, <1>3 DEF IInv

LEMMA InvariantStep == IInv /\ [Next]_vars => IInv'
<1> SUFFICES ASSUME IInv, [Next]_vars PROVE IInv'
  OBVIOUS
<1>1. CASE UNCHANGED vars
  <2> USE <1>1 DEF vars, diskVars, jobVars, partVars, IInv, Named, FileOf, NewInode, LastTemp
  <2>1. TypeOK'
    BY DEF TypeOK
  <2>2. DiskInv'
    BY DEF DiskInv, Owned
  <2>3. \A j \in Jobs : TempsInv(j)'
    BY DEF JobInv, TempsInv
  <2>4. \A j \in Jobs : SourceInv(j)' /\ ProgressInv(j)'
    BY DEF JobInv, SourceInv, ProgressInv
  <2>5. \A j \in Jobs : StagedInv(j)'
    BY DEF JobInv, StagedInv
  <2> QED
    BY <2>1, <2>2, <2>3, <2>4, <2>5 DEF JobInv
<1>2. ASSUME NEW j \in Jobs, Step(j) PROVE IInv'
  <2>1. TypeOK'
    BY <1>2, TypeStep
  <2>2. DiskInv'
    BY <1>2, <2>1, DiskKept
  <2>3. JobInv(j)'
    BY <1>2, <2>1, EndsJob, MovesJob, CheckJob, ReadJob, OpenJob, GuardLayerJob, RenderJob, StageJob,
      WriteIntermediateJob, WriteJob, PublishJob, DiscardJob
    DEF Step, Prepare, Layer, Commit, Leave
  <2>4. \A i \in Jobs \ {j} : JobInv(i)'
    BY <1>2, <2>1, OthersKept
  <2> QED
    BY <2>1, <2>2, <2>3, <2>4 DEF IInv
<1> QED
  BY <1>1, <1>2, NextIsStep

\* Every reachable state of any instance satisfies the invariant.
THEOREM Invariance == Spec => []IInv
<1>1. Init => IInv
  BY InvariantInit
<1>2. IInv /\ [Next]_vars => IInv'
  BY InvariantStep
<1> QED
  BY <1>1, <1>2, PTL DEF Spec

\* The variables keep their types.
THEOREM TypeCorrect == Spec => []TypeOK
<1>1. IInv => TypeOK
  BY DEF IInv
<1> QED
  BY <1>1, Invariance, PTL

\* A staged name is its owner's alone, and none is left by a call that is over
\* (AtomicPdfOutput, SplitStagedOutput and TempFileGuard remove what they made).
THEOREM StagingIsSound == Spec => []StagingSound
<1>1. ASSUME IInv PROVE StagingSound
  <2> USE <1>1 DEF IInv
  <2>1. StagingPrivate
    BY OwnNames DEF StagingPrivate, Named, FileOf, JobInv
  <2>2. ASSUME NEW n \in TempNames, Named(n)
        PROVE  \E j \in Jobs : pc[j] # "told" /\ n \in Owned(j)
    <3>1. PICK j \in Jobs : FileOf(n).by = j /\ n \in Owned(j)
      BY <2>2 DEF DiskInv
    <3>2. pc[j] # "told"
      <4>1. pc[j] = "told" => Len(temps[j]) = 0
        BY EmptySeq DEF JobInv, TempsInv
      <4> QED
        BY <3>1, <4>1 DEF Owned
    <3> QED
      BY <3>1, <3>2
  <2>3. NoLitter
    BY <2>2 DEF NoLitter, Named
  <2> QED
    BY <2>1, <2>3 DEF StagingSound
<1> QED
  BY <1>1, Invariance, PTL

\* pdf_ocr and pdf_redact publish as many pages as they first read.
THEOREM RecheckedKeepLength == Spec => []RecheckedSameLength
<1>1. IInv => RecheckedSameLength
  BY DEF IInv, JobInv, StagedInv, RecheckedSameLength, FileOf
<1> QED
  BY <1>1, Invariance, PTL

\* What a job has open does not change under it, whoever publishes.
THEOREM SourcesAreStable == Spec => SourcesStable
<1> DEFINE A == \A j \in Jobs : \A k \in 1..Len(held[j]) :
                  held'[j] = held[j] => file'[held[j][k]] = file[held[j][k]]
<1>1. IInv /\ [Next]_vars => [A]_vars
  <2> SUFFICES ASSUME IInv, Next PROVE A
    OBVIOUS
  <2>1. WholeIsFinal
    BY NextIsStep, EveryDiskStep, Final DEF IInv
  <2> QED
    BY <2>1, SourcesKept DEF IInv, JobInv
<1>2. Spec => [][A]_vars
  <2> HIDE DEF A
  <2> QED
    BY <1>1, Invariance, PTL DEF Spec
<1> QED
  BY <1>2 DEF SourcesStable

\* A guarded job's publication does not move its inputs, because none of their
\* entries is that of its destination.
THEOREM InputsAreKept == Spec => InputsKept
<1> DEFINE A == \A j \in Jobs : Kind[j] \in Guarded /\ published'[j] # published[j] =>
                  \A k \in 1..Len(In[j]) : Input(j, k)' = Input(j, k)
<1>1. IInv /\ [Next]_vars => [A]_vars
  <2> SUFFICES ASSUME IInv, Next, NEW j \in Jobs, Kind[j] \in Guarded, published'[j] # published[j],
                      NEW k \in 1..Len(In[j])
               PROVE  Input(j, k)' = Input(j, k)
    OBVIOUS
  <2>1. TypeOK /\ JobInv(j)
    BY DEF IInv
  <2>2. PICK i \in Jobs : Step(i)
    BY NextIsStep
  <2>3. i = j
    BY <2>1, <2>2, OthersWait DEF Local
  <2>4. Publish(j)
    BY <2>2, <2>3 DEF Step, Prepare, Check, Read, Geometry, Layer, GuardLayer, RenderLayer, RenderFails,
      LayersDone, Stage, Open, Commit, NextPart, AllParts, WriteIntermediate, Write, Leave, Fail, Discard,
      Tell, Crash, partVars
  <2>5. pc[j] = "publish" /\ published[j] < parts[j] /\ parts[j] <= 1 /\ temps[j] # <<>>
    BY <2>1, <2>4 DEF Publish, Goto, JobInv, ProgressInv, StagedInv, Guarded, Parted
  <2>6. published[j] = 0
    BY <2>1, <2>5 DEF TypeOK
  <2>7. Target(j) = Entry[Out[j][1]]
    BY <2>6 DEF Target
  <2>8. Entry[In[j][k]] \in Paths /\ Entry[In[j][k]] # Target(j)
    BY <2>1, <2>5, <2>7, InputIsFile DEF JobInv, SourceInv, Started
  <2>9. LastTemp(j) \in TempNames
    BY <2>1, <2>5, LastOfTemps
  <2>10. names'[Entry[In[j][k]]] = names[Entry[In[j][k]]]
    <3> DEFINE p == Entry[In[j][k]]
    <3>1. names' = [names EXCEPT ![Target(j)] = names[LastTemp(j)], ![LastTemp(j)] = NoInode]
      BY <2>4 DEF Publish
    <3>2. p \in Names /\ p # Target(j) /\ p # LastTemp(j)
      BY <2>8, <2>9, StagedAssumption DEF Names
    <3> HIDE DEF p
    <3>3. names'[p] = names[p]
      BY <2>1, <3>1, <3>2 DEF TypeOK
    <3> QED
      BY <3>3 DEF p
  <2> QED
    BY <2>10 DEF Input
<1>2. Spec => [][A]_vars
  <2> HIDE DEF A
  <2> QED
    BY <1>1, Invariance, PTL DEF Spec
<1> QED
  BY <1>2 DEF InputsKept

-----------------------------------------------------------------------------
(* The refinement of AtomicStore.                                          *)

\* What AtomicStore sees.
Targets == [j \in Jobs |-> [k \in 1..Len(Out[j]) |-> Entry[Out[j][k]]]]
Store == [p \in Paths |-> Content(names[p])]
ToldBy == [j \in Jobs |-> Told(j)]

\* The destinations of a job, one for each spelling.
LEMMA TargetsOf ==
  ASSUME NEW j \in Jobs
  PROVE  /\ Len(Targets[j]) = Len(Out[j])
         /\ \A k \in 1..Len(Out[j]) : Targets[j][k] = Entry[Out[j][k]]
<1>1. Len(Out[j]) \in Nat
  BY StagedAssumption, LenProperties
<1>2. Targets[j] = [k \in 1..Len(Out[j]) |-> Entry[Out[j][k]]]
  BY DEF Targets
<1>3. Len(Targets[j]) = Len(Out[j])
  BY <1>1, <1>2
<1> QED
  BY <1>2, <1>3

\* Only a publication changes what the paths hold.
LEMMA StoreKept ==
  ASSUME IInv, NEW j \in Jobs, Step(j), ~Publish(j)
  PROVE  Store' = Store
<1> USE DEF IInv
<1>1. TypeOK /\ DiskInv /\ DiskStep(j) /\ WholeIsFinal
  BY EveryDiskStep, Final
<1>2. \A p \in Paths : names'[p] = names[p]
  <2>1. CASE LeavesDisk(j) \/ FillsFile(j)
    BY <2>1 DEF LeavesDisk, FillsFile, diskVars
  <2>2. CASE MakesFile(j)
    <3>1. PICK n \in TempNames : names' = [names EXCEPT ![n] = NewInode(j)]
      BY <2>2 DEF MakesFile, Create
    <3> QED
      BY <3>1, <1>1, StagedAssumption DEF TypeOK, Names
  <2>3. CASE Discard(j)
    <3>1. LastTemp(j) \in TempNames /\ names' = [names EXCEPT ![LastTemp(j)] = NoInode]
      BY <2>3, LastOfTemps DEF Discard
    <3> QED
      BY <3>1, <1>1, StagedAssumption DEF TypeOK, Names
  <2> QED
    BY <1>1, <2>1, <2>2, <2>3 DEF DiskStep, RenamesFile
<1>3. \A p \in Paths : Named(p) => file'[names[p]] = file[names[p]]
  BY <1>1, Typed DEF DiskInv, WholeIsFinal, FileOf, Names
<1> QED
  BY <1>2, <1>3 DEF Store, Content, Named

\* A publication changes one of them, to a complete document of j.
LEMMA StorePublished ==
  ASSUME IInv, NEW j \in Jobs, Publish(j)
  PROVE  /\ published[j] < parts[j] /\ published[j] + 1 \in 1..Len(Out[j])
         /\ \E n \in Lengths : Store' = [Store EXCEPT ![Target(j)] = Complete(j, n)]
<1> USE DEF IInv
<1> DEFINE t == LastTemp(j)
           x == names[t]
<1>1. TypeOK /\ DiskInv /\ JobInv(j) /\ pc[j] = "publish"
  BY DEF Publish, Goto
<1>2. temps[j] # <<>> /\ FileOf(t).whole /\ published[j] < parts[j]
      /\ Target(j) \in Paths /\ published[j] + 1 \in 1..Len(Out[j])
  BY <1>1, TargetIsPath DEF JobInv, StagedInv, ProgressInv
<1>3. t \in TempNames /\ FileOf(t).by = j /\ x \in Inodes
  BY <1>1, <1>2, LastOfTemps, OwnNames DEF JobInv
<1>4. /\ names' = [names EXCEPT ![Target(j)] = x, ![t] = NoInode]
      /\ file' = file
  BY DEF Publish
<1> HIDE DEF t
<1>5. names'[Target(j)] = x /\ \A p \in Paths \ {Target(j)} : names'[p] = names[p]
  BY <1>1, <1>2, <1>3, <1>4, StagedAssumption DEF TypeOK, Names
<1>6. file[x] = Complete(j, file[x].pages) /\ file[x].pages \in Lengths
  <2>1. file[x].by = j /\ file[x].whole = TRUE /\ file[x].pages \in Lengths
    BY <1>1, <1>2, <1>3, Typed DEF FileOf, DiskInv
  <2>2. file[x] \in [by : Jobs \cup {Nobody}, whole : BOOLEAN, pages : Nat]
    BY <1>1, <1>3 DEF TypeOK
  <2> QED
    BY <2>1, <2>2 DEF Complete
<1>7. Content(x) = Complete(j, file[x].pages)
  BY <1>3, <1>6, StagedAssumption DEF Content
<1>8. Store' = [p \in Paths |-> IF p = Target(j) THEN Complete(j, file[x].pages) ELSE Store[p]]
  <2>1. file' = file
    BY <1>4
  <2>2. ASSUME NEW p \in Paths
        PROVE  Content(names[p])' = IF p = Target(j) THEN Complete(j, file[x].pages) ELSE Content(names[p])
    <3>1. CASE p = Target(j)
      BY ONLY <3>1, <2>1, <1>5, <1>7 DEF Content
    <3>2. CASE p # Target(j)
      <4>1. names'[p] = names[p]
        BY <1>5, <3>2
      <4> QED
        BY ONLY <4>1, <3>2, <2>1 DEF Content
    <3> QED
      BY <3>1, <3>2
  <2> QED
    BY <2>2 DEF Store
<1>9. Store' = [Store EXCEPT ![Target(j)] = Complete(j, file[x].pages)]
  BY <1>8 DEF Store
<1> QED
  BY <1>2, <1>6, <1>9

\* What j reports changes only for j, and only when it returns or dies.
LEMMA ToldKept ==
  ASSUME TypeOK, TypeOK', NEW j \in Jobs, Step(j), ~Tell(j), ~Crash(j)
  PROVE  ToldBy' = ToldBy
<1>1. \A i \in Jobs \ {j} : Told(i)' = Told(i)
  BY OthersWait DEF Told, Local
<1>2. pc[j] \notin {"told", "crashed"} /\ pc'[j] \notin {"told", "crashed"}
  <2>1. CASE Prepare(j)
    BY <2>1 DEF Prepare, Check, Read, Geometry, Layer, GuardLayer, RenderLayer, RenderFails,
      LayersDone, Stage, Open, Goto, FirstStep, AfterOpen, TypeOK
  <2>2. CASE Commit(j)
    BY <2>2 DEF Commit, NextPart, AllParts, WriteIntermediate, Write, Publish, Goto, TypeOK
  <2>3. CASE Fail(j) \/ Discard(j)
    BY <2>3 DEF Fail, Discard, Working, TypeOK
  <2> QED
    BY <2>1, <2>2, <2>3 DEF Step, Leave
<1>3. Told(j)' = Told(j)
  BY <1>2 DEF Told
<1> QED
  BY <1>1, <1>3 DEF ToldBy

LEMMA ToldEnds ==
  ASSUME TypeOK, NEW j \in Jobs, Tell(j) \/ Crash(j)
  PROVE  /\ Told(j) = "running"
         /\ Tell(j) => ToldBy' = [ToldBy EXCEPT ![j] = verdict[j]]
         /\ Crash(j) => ToldBy' = [ToldBy EXCEPT ![j] = "crashed"]
<1>1. \A i \in Jobs \ {j} : Told(i)' = Told(i)
  BY OthersWait DEF Told, Local, Step, Leave
<1>2. CASE Tell(j)
  <2>1. pc[j] = "leave" /\ pc'[j] = "told" /\ verdict' = verdict /\ ~Crash(j)
    BY <1>2 DEF Tell, Crash, Goto, jobVars, TypeOK
  <2> QED
    BY <2>1, <1>1 DEF Told, ToldBy
<1>3. CASE Crash(j)
  <2>1. pc[j] \notin {"told", "crashed"} /\ pc'[j] = "crashed" /\ ~Tell(j)
    BY <1>3 DEF Tell, Crash, Goto, TypeOK
  <2>2. Told(j) = "running" /\ Told(j)' = "crashed"
    BY <2>1 DEF Told
  <2> QED
    BY <2>1, <2>2, <1>1 DEF ToldBy
<1> QED
  BY <1>2, <1>3

\* Steps in which AtomicStore plans, and those it does not see.
LEMMA PlansOrNot ==
  ASSUME IInv, NEW j \in Jobs, Step(j), ~Publish(j), ~Tell(j), ~Crash(j)
  PROVE  \/ UNCHANGED <<parts, published>>
         \/ /\ published[j] = 0 /\ Told(j) = "running" /\ published' = published
            /\ \E n \in 0..Len(Out[j]) : parts' = [parts EXCEPT ![j] = n]
<1> USE DEF IInv
<1>0. TypeOK /\ JobInv(j) /\ Len(Out[j]) \in Nat \ {0}
  BY StagedAssumption, EmptySeq
<1>1. CASE Check(j)
  <2>1. pc[j] = "check" /\ published' = published /\ published[j] = 0
    BY <1>0, <1>1 DEF Check, Goto, JobInv, ProgressInv, BeforeOpen
  <2>2. parts' = [parts EXCEPT ![j] = 0] \/ parts' = [parts EXCEPT ![j] = 1]
    BY <1>1 DEF Check
  <2>3. 0 \in 0..Len(Out[j]) /\ 1 \in 0..Len(Out[j])
    BY <1>0
  <2>4. Told(j) = "running"
    BY <2>1 DEF Told
  <2> QED
    BY <2>1, <2>2, <2>3, <2>4
<1>2. CASE Read(j)
  <2>1. pc[j] = "read" /\ published' = published /\ published[j] = 0
    BY <1>0, <1>2 DEF Read, Goto, JobInv, ProgressInv, BeforeOpen
  <2>2. CASE Kind[j] \in Parted
    <3>1. PICK n \in 0..file[Input(j, 1)].pages : n <= Len(Out[j]) /\ parts' = [parts EXCEPT ![j] = n]
      BY <1>2, <2>2 DEF Read
    <3>2. n \in 0..Len(Out[j])
      BY <1>0, <3>1
    <3> QED
      BY <2>1, <3>1, <3>2 DEF Told
  <2> QED
    BY <1>2, <2>1, <2>2 DEF Read
<1>3. CASE Open(j)
  <2>1. pc[j] = "open" /\ published' = published
    BY <1>3 DEF Open, Goto
  <2>2. CASE Kind[j] = "split"
    <3>1. published[j] = 0
      BY <1>0, <2>1, <2>2 DEF JobInv, ProgressInv, Parted
    <3>2. /\ file[Input(j, Len(held[j]) + 1)].pages <= Len(Out[j])
          /\ parts' = [parts EXCEPT ![j] = file[Input(j, Len(held[j]) + 1)].pages]
      BY <1>3, <2>2 DEF Open
    <3>3. file[Input(j, Len(held[j]) + 1)].pages \in Nat
      BY <1>0, <2>1, NextSource, Typed DEF JobInv
    <3>4. file[Input(j, Len(held[j]) + 1)].pages \in 0..Len(Out[j])
      BY <1>0, <3>2, <3>3
    <3>5. Told(j) = "running"
      BY <2>1 DEF Told
    <3> QED
      BY <2>1, <3>1, <3>2, <3>4, <3>5
  <2> QED
    BY <1>3, <2>1, <2>2 DEF Open
<1> QED
  BY <1>1, <1>2, <1>3 DEF Step, Prepare, Geometry, Layer, GuardLayer, RenderLayer, RenderFails,
    LayersDone, Stage, Commit, NextPart, AllParts, WriteIntermediate, Write, Leave, Fail, Discard, partVars

LEMMA AtomicInit == Init => Promise!Init
<1> SUFFICES ASSUME Init PROVE Promise!Init
  OBVIOUS
<1>1. Store = [p \in Paths |-> IF Links[p] = NoInode THEN NoInode
                               ELSE [by |-> Nobody, whole |-> TRUE, pages |-> DiskPages[Links[p]]]]
  <2>1. \A p \in Paths : names[p] = Links[p]
    BY DEF Init, Names
  <2>2. \A p \in Paths : Links[p] # NoInode =>
          file[Links[p]] = [by |-> Nobody, whole |-> TRUE, pages |-> DiskPages[Links[p]]]
    BY StagedAssumption DEF Init, Inodes
  <2> QED
    BY <2>1, <2>2 DEF Store, Content
<1>2. ToldBy = [j \in Jobs |-> "running"]
  <2>1. \A j \in Jobs : pc[j] \in {"check", "never"}
    BY DEF Init
  <2> QED
    BY <2>1 DEF ToldBy, Told
<1> QED
  BY <1>1, <1>2 DEF Init, Promise!Init, Store, ToldBy

LEMMA AtomicStep == IInv /\ IInv' /\ [Next]_vars => [Promise!Next]_(Promise!vars)
<1> SUFFICES ASSUME IInv, IInv', [Next]_vars PROVE [Promise!Next]_(Promise!vars)
  OBVIOUS
<1>0. TypeOK /\ TypeOK'
  BY DEF IInv
<1>1. CASE UNCHANGED vars
  BY <1>1 DEF vars, diskVars, jobVars, partVars, Promise!vars, Content, Told
<1>2. ASSUME NEW j \in Jobs, Step(j) PROVE [Promise!Next]_(Promise!vars)
  <2>1. CASE Publish(j)
    <3>1. PICK n \in Lengths : Store' = [Store EXCEPT ![Target(j)] = Complete(j, n)]
      BY <2>1, StorePublished
    <3>2. published[j] < parts[j] /\ Targets[j][published[j] + 1] = Target(j)
      BY <2>1, StorePublished, TargetsOf DEF Target
    <3>3. ToldBy' = ToldBy /\ ToldBy[j] = "running"
      <4>1. ~Tell(j) /\ ~Crash(j) /\ pc[j] = "publish"
        BY <2>1, <1>0 DEF Publish, Tell, Crash, Goto, TypeOK
      <4> QED
        BY <1>0, <1>2, <4>1, ToldKept DEF ToldBy, Told
    <3>4. published' = [published EXCEPT ![j] = @ + 1] /\ parts' = parts
      BY <2>1 DEF Publish
    <3>5. Promise!Publish(j)
      BY <3>1, <3>2, <3>3, <3>4 DEF Promise!Publish, Store, Targets, ToldBy, Lengths
    <3> QED
      BY <3>5 DEF Promise!Next
  <2>2. CASE Tell(j) \/ Crash(j)
    <3>1. Store' = Store
      <4>1. ~Publish(j)
        BY <2>2, <1>0 DEF Publish, Tell, Crash, Goto, TypeOK
      <4> QED
        BY <1>2, <4>1, StoreKept
    <3>2. parts' = parts /\ published' = published /\ ToldBy[j] = "running"
      BY <2>2, <1>0, ToldEnds DEF Tell, Crash, partVars, ToldBy
    <3>3. CASE Tell(j)
      <4>1. \/ verdict[j] = "done" /\ published[j] = parts[j]
            \/ verdict[j] = "failed" /\ (published[j] < parts[j] \/ published[j] = 0)
        BY <3>3 DEF Tell, Goto, IInv, JobInv, ProgressInv
      <4>2. ToldBy' = [ToldBy EXCEPT ![j] = verdict[j]]
        BY <3>3, <1>0, ToldEnds
      <4>3. Promise!Done(j) \/ Promise!Failed(j)
        BY <3>1, <3>2, <4>1, <4>2 DEF Promise!Done, Promise!Failed, Store, ToldBy
      <4> QED
        BY <4>3 DEF Promise!Next
    <3>4. CASE Crash(j)
      <4>1. ToldBy' = [ToldBy EXCEPT ![j] = "crashed"]
        BY <3>4, <1>0, ToldEnds
      <4>2. Promise!Crashed(j)
        BY <3>1, <3>2, <4>1 DEF Promise!Crashed, Store, ToldBy
      <4> QED
        BY <4>2 DEF Promise!Next
    <3> QED
      BY <2>2, <3>3, <3>4
  <2>3. CASE ~Publish(j) /\ ~Tell(j) /\ ~Crash(j)
    <3>1. Store' = Store /\ ToldBy' = ToldBy
      BY <2>3, <1>0, <1>2, StoreKept, ToldKept
    <3>2. CASE UNCHANGED <<parts, published>>
      BY <3>1, <3>2 DEF Promise!vars, Store, ToldBy
    <3>3. CASE /\ published[j] = 0 /\ Told(j) = "running" /\ published' = published
               /\ \E n \in 0..Len(Out[j]) : parts' = [parts EXCEPT ![j] = n]
      <4>1. \E n \in 0..Len(Targets[j]) : parts' = [parts EXCEPT ![j] = n]
        BY <3>3, TargetsOf
      <4>2. Promise!Plan(j)
        BY <3>1, <3>3, <4>1 DEF Promise!Plan, Store, ToldBy, Targets
      <4> QED
        BY <4>2 DEF Promise!Next
    <3> QED
      BY <2>3, <1>2, <3>2, <3>3, PlansOrNot
  <2> QED
    BY <2>1, <2>2, <2>3
<1> QED
  BY <1>1, <1>2, NextIsStep

\* Destinations go from one complete document to the next, parts in order, and
\* what a call reports is what it did.
THEOREM PublicationIsAtomic == Spec => AtomicPublication
<1>1. Init => Promise!Init
  BY AtomicInit
<1>2. IInv /\ IInv' /\ [Next]_vars => [Promise!Next]_(Promise!vars)
  BY AtomicStep
<1> QED
  BY <1>1, <1>2, Invariance, PTL DEF Spec, AtomicPublication, Promise!Spec
=============================================================================
