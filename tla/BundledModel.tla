---------------------------- MODULE BundledModel ----------------------------
(***************************************************************************)
(* The bundled English model, extracted by the code that                   *)
(* src/scripts/embed_tessdata.py generates.  Every engine that finds no    *)
(* model elsewhere calls EnsureBundledTessdataDir: several threads, and    *)
(* several processes that share a temporary directory, extract the same    *)
(* file through the same temporary name, and nothing orders them.          *)
(*                                                                         *)
(* The stream hands the model to the system in Pieces writes; a file is    *)
(* its size and the pieces that were really written (the rest are holes).  *)
(***************************************************************************)
EXTENDS Integers, FiniteSets

CONSTANTS
  Callers, Process,   (* threads, and the process of each                   *)
  Pieces,             (* of the model                                       *)
  MaxCalls,           (* bound on the calls of each                         *)
  NoFile, Old         (* no file; the file found at the beginning           *)

ASSUME ModelAssumption ==
  /\ Pieces \in Nat \ {0} /\ MaxCalls \in [Callers -> Nat]
  /\ Old # NoFile /\ {Old, NoFile} \cap (Callers \X Nat) = {}

Inodes == {Old} \cup UNION {{c} \X (1..MaxCalls[c]) : c \in Callers}

VARIABLES
  extracting, calls,
  path, tmp,          (* the files with the two names                       *)
  size, written,      (* of each file                                       *)
  fd, offset,         (* the file a caller writes, and how far it is        *)
  reused,             (* the caller found the model there                   *)
  result, whole,      (* what the call returned, what tesseract then read   *)
  troubled            (* some call met an error of the system, or died      *)

fileVars == <<path, tmp, size, written>>
modelVars == <<extracting, calls, fileVars, fd, offset, reused, result, whole, troubled>>

\* At first there is no model, or one of another size.
ModelInit ==
  /\ extracting = [c \in Callers |-> "idle"] /\ calls = [c \in Callers |-> 0]
  /\ path \in {NoFile, Old} /\ tmp = NoFile
  /\ \E s \in 0..Pieces - 1 : size = [i \in Inodes |-> IF i = Old THEN s ELSE 0]
  /\ written = [i \in Inodes |-> 1..size[i]]
  /\ fd = [c \in Callers |-> NoFile] /\ offset = [c \in Callers |-> 0]
  /\ reused = [c \in Callers |-> FALSE]
  /\ result = [c \in Callers |-> "none"] /\ whole = [c \in Callers |-> TRUE]
  /\ troubled = FALSE

Advance(c, from, to) ==
  /\ extracting[c] = from
  /\ extracting' = [extracting EXCEPT ![c] = to]

Call(c) ==
  /\ calls[c] < MaxCalls[c] /\ Advance(c, "idle", "check")
  /\ calls' = [calls EXCEPT ![c] = @ + 1]
  /\ reused' = [reused EXCEPT ![c] = FALSE]
  /\ result' = [result EXCEPT ![c] = "none"]
  /\ UNCHANGED <<fileVars, fd, offset, whole, troubled>>

\* Mutant: any file will do.
AnyFile == path # NoFile

\* Only the size tells whether the model is there.
RightSize == path # NoFile /\ size[path] = Pieces

Check(c) ==
  /\ Advance(c, "check", IF RightSize THEN "init" ELSE "open")
  /\ reused' = [reused EXCEPT ![c] = RightSize]
  /\ UNCHANGED <<calls, fileVars, fd, offset, result, whole, troubled>>

\* The temporary file is created, or truncated if somebody has created it.
Open(c) ==
  LET i == IF tmp = NoFile THEN <<c, calls[c]>> ELSE tmp IN
    /\ Advance(c, "open", "write")
    /\ tmp' = i
    /\ size' = [size EXCEPT ![i] = 0] /\ written' = [written EXCEPT ![i] = {}]
    /\ fd' = [fd EXCEPT ![c] = i] /\ offset' = [offset EXCEPT ![c] = 0]
    /\ UNCHANGED <<calls, path, reused, result, whole, troubled>>

Larger(a, b) == IF a > b THEN a ELSE b

\* A writer goes on where it was, whatever others did to the file.
Write(c) ==
  LET i == fd[c]  at == offset[c] + 1 IN
    /\ extracting[c] = "write" /\ at <= Pieces
    /\ size' = [size EXCEPT ![i] = Larger(@, at)]
    /\ written' = [written EXCEPT ![i] = @ \cup {at}]
    /\ offset' = [offset EXCEPT ![c] = at]
    /\ UNCHANGED <<extracting, calls, path, tmp, fd, reused, result, whole, troubled>>

Close(c) ==
  /\ offset[c] = Pieces /\ Advance(c, "write", "rename")
  /\ fd' = [fd EXCEPT ![c] = NoFile]
  /\ UNCHANGED <<calls, fileVars, offset, reused, result, whole, troubled>>

\* What the stream still holds is written when it is destroyed, where an error
\* goes unnoticed.
CloseFails(c) ==
  /\ offset[c] = Pieces - 1 /\ Advance(c, "write", "rename")
  /\ fd' = [fd EXCEPT ![c] = NoFile]
  /\ troubled' = TRUE
  /\ UNCHANGED <<calls, fileVars, offset, reused, result, whole>>

Return(c, from, r) ==
  /\ Advance(c, from, "idle")
  /\ result' = [result EXCEPT ![c] = r]

\* The file cannot be created or written; what there is of it stays.
WriteFails(c) ==
  /\ \E from \in {"open", "write"} : Return(c, from, "empty")
  /\ fd' = [fd EXCEPT ![c] = NoFile]
  /\ troubled' = TRUE
  /\ UNCHANGED <<calls, fileVars, offset, reused, whole>>

\* Mutant: the old file is removed first, as the Windows branch has to.
RenameAfterUnlink(c) ==
  /\ path' = tmp /\ tmp' = NoFile
  /\ Advance(c, "rename", IF tmp = NoFile THEN "remove" ELSE "init")
  /\ UNCHANGED <<calls, size, written, fd, offset, reused, result, whole, troubled>>

\* Whatever has the temporary name becomes the model; rename fails if nothing has.
Rename(c) ==
  /\ Advance(c, "rename", IF tmp = NoFile THEN "remove" ELSE "init")
  /\ path' = IF tmp = NoFile THEN path ELSE tmp
  /\ tmp' = NoFile
  /\ UNCHANGED <<calls, size, written, fd, offset, reused, result, whole, troubled>>

\* By then the temporary file may be somebody else's.
Remove(c) ==
  /\ Return(c, "remove", "empty")
  /\ tmp' = NoFile
  /\ UNCHANGED <<calls, path, size, written, fd, offset, reused, whole, troubled>>

Whole(i) == size[i] = Pieces /\ written[i] = 1..Pieces

\* The directory is returned and tesseract reads the model there.
InitEngine(c) ==
  /\ Return(c, "init", "directory")
  /\ whole' = [whole EXCEPT ![c] = Whole(path)]
  /\ UNCHANGED <<calls, fileVars, fd, offset, reused, troubled>>

\* A process dies; another like it may take its place.
Die(p) ==
  LET Gone == {c \in Callers : Process[c] = p /\ extracting[c] # "idle"} IN
    /\ Gone # {}
    /\ extracting' = [c \in Callers |-> IF c \in Gone THEN "idle" ELSE extracting[c]]
    /\ fd' = [c \in Callers |-> IF c \in Gone THEN NoFile ELSE fd[c]]
    /\ troubled' = TRUE
    /\ UNCHANGED <<calls, fileVars, offset, reused, result, whole>>

ModelNext ==
  \/ \E c \in Callers :
       \/ Call(c) \/ Check(c) \/ Open(c) \/ Write(c) \/ Close(c) \/ CloseFails(c)
       \/ WriteFails(c) \/ Rename(c) \/ Remove(c) \/ InitEngine(c)
  \/ \E p \in {Process[c] : c \in Callers} : Die(p)

ModelSpec == ModelInit /\ [][ModelNext]_modelVars

-----------------------------------------------------------------------------
(* Properties.                                                             *)

\* The model never disappears, so an engine that has checked that it exists
\* finds it (comment at ocr_ops.cpp:500): what no step may do.
ModelStays == [][path # NoFile => path' # NoFile]_modelVars

\* Extractions that race but meet no error leave a whole model behind, whatever
\* tesseract read in the meantime.
WholeWhenQuiet ==
  (\A c \in Callers : extracting[c] = "idle") /\ (\E c \in Callers : calls[c] > 0) /\ ~troubled =>
    path # NoFile /\ Whole(path)

\* A lone caller, after whatever errors and crashes, takes no file for the model
\* but a whole one (embed_tessdata.py:189: partial extracts are not reused).
PartialNotReused ==
  \A c \in Callers : (\A d \in Callers \ {c} : calls[d] = 0) =>
    (result[c] = "directory" /\ reused[c] => whole[c])

\* What is left of an extraction is whole, or is not taken for the model.
NoPartialModel == WholeWhenQuiet /\ PartialNotReused
=============================================================================
