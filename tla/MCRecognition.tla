---------------------------- MODULE MCRecognition ----------------------------
(***************************************************************************)
(* What the threads of a process share: engines, plugins and standard      *)
(* error (OcrEngine), the file of the bundled model (BundledModel), and    *)
(* the flag of missing fonts (MissingFonts). None of the three reads what  *)
(* another writes, so each is explored by itself: a topic.                 *)
(***************************************************************************)
EXTENDS MCOcrEngine, BundledModel, MissingFonts

CONSTANTS a, b, c, ours, theirs

VARIABLE topic

TwoProcesses == a :> ours @@ b :> ours @@ c :> theirs
FirstOften == a :> 2 @@ b :> 1 @@ c :> 1

\* A topic that is not explored stays where it began.
QuietModel == ModelInit /\ path = NoFile /\ size[Old] = 0
ProcessInit ==
  /\ topic \in {"engines", "model", "fonts"}
  /\ Init
  /\ IF topic = "model" THEN ModelInit ELSE QuietModel
  /\ FontInit

ProcessNext ==
  \/ topic = "engines" /\ Next /\ UNCHANGED <<topic, modelVars, fontVars>>
  \/ topic = "model" /\ ModelNext /\ UNCHANGED <<topic, vars, fontVars>>
  \/ topic = "fonts" /\ FontNext /\ UNCHANGED <<topic, vars, modelVars>>

ProcessSpec == ProcessInit /\ [][ProcessNext]_<<topic, vars, modelVars, fontVars>>
=============================================================================
