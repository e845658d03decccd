------------------------------ MODULE OcrEngine ------------------------------
(***************************************************************************)
(* Recognition of a page or an image in src/src/ocr_ops.cpp by threads of  *)
(* one process.  Each thread keeps a tesseract engine from one page to the *)
(* next (EnsureTesseract); all threads share standard error, which is      *)
(* redirected while engines start and images are decoded (StderrSilence),  *)
(* and one loaded plugin (LoadPlugin).                                     *)
(*                                                                         *)
(* What tesseract, leptonica and a plugin compute is not modelled; each of *)
(* them may fail.                                                          *)
(***************************************************************************)
EXTENDS Integers, FiniteSets

CONSTANTS
  Threads,
  Requests,
  Models,        (* languages and engine modes                              *)
  Settings,      (* configuration file and variables, by their fingerprint  *)
  Dirs,          (* directories that may hold the model                     *)
  Plugins,
  None

NoMode == -1
Modes == 0..13
Labels == Models \X Dirs \X Settings

ASSUME OcrAssumption ==
  /\ IsFiniteSet(Threads)
  /\ Requests \subseteq [kind : {"text", "words", "layer", "blob"}, external : BOOLEAN,
                         model : Models, settings : Settings, psm : Modes,
                         plugin : Plugins \cup {None}, bestEffort : BOOLEAN]
  /\ None \notin Plugins \cup Threads \cup Labels \cup Requests
  /\ None # "terminal"

VARIABLES
  pc, request, outcome,
  target,        (* what EnsureTesseract is about to load                   *)
  engine,        (* ThreadTessEngine: ready, label, psm                     *)
  api,           (* tesseract: what it was started with, its mode, its page *)
  depth, saved, fd2,           (* StderrSilence, and where fd 2 points      *)
  pluginMutex, cached, held,   (* PluginMutex, CachedPlugin, a copy of it   *)
  handles        (* how often each library is open                          *)

engineVars == <<target, engine, api>>
stderrVars == <<depth, saved, fd2>>
pluginVars == <<pluginMutex, cached, held, handles>>
vars == <<pc, request, outcome, engineVars, stderrVars, pluginVars>>

NoEngine == [ready |-> FALSE, label |-> None, psm |-> NoMode]
NotStarted == [label |-> None, psm |-> NoMode, page |-> FALSE]

Init ==
  /\ pc = [t \in Threads |-> "idle"]
  /\ request = [t \in Threads |-> None]
  /\ outcome = [t \in Threads |-> "none"]
  /\ target = [t \in Threads |-> None]
  /\ engine = [t \in Threads |-> NoEngine]
  /\ api = [t \in Threads |-> NotStarted]
  /\ depth = 0 /\ saved = None /\ fd2 = "terminal"
  /\ pluginMutex = None /\ cached = None
  /\ held = [t \in Threads |-> None]
  /\ handles = [p \in Plugins |-> 0]

Goto(t, from, to) ==
  /\ pc[t] = from
  /\ pc' = [pc EXCEPT ![t] = to]

Finish(t, from, result) ==
  /\ Goto(t, from, "idle")
  /\ outcome' = [outcome EXCEPT ![t] = result]

\* Best effort makes an empty result of a failure.
Failure(t) == IF request[t] # None /\ request[t].bestEffort THEN "empty" ELSE "error"

-----------------------------------------------------------------------------
(* RecognizeText, RecognizeWords, RenderSearchablePdf, RecognizeImageBlob. *)

\* A text layer is always tesseract's.
FirstStage(r) ==
  IF r.kind = "blob" THEN "decode"
  ELSE IF r.external /\ r.kind # "layer" THEN "plugin" ELSE "ensure"

Begin(t, r) ==
  /\ Goto(t, "idle", FirstStage(r))
  /\ request' = [request EXCEPT ![t] = r]
  /\ outcome' = [outcome EXCEPT ![t] = "none"]
  /\ UNCHANGED <<engineVars, stderrVars, pluginVars>>

\* The page has no image.
NoImage(t) ==
  /\ \E stage \in {"plugin", "ensure"} : Finish(t, stage, "empty")
  /\ UNCHANGED <<request, engineVars, stderrVars, pluginVars>>

\* The image is empty, or is to go to a plugin.
BlobRefused(t) ==
  /\ Finish(t, "decode", Failure(t))
  /\ UNCHANGED <<request, engineVars, stderrVars, pluginVars>>

-----------------------------------------------------------------------------
(* StderrSilence.                                                          *)

\* The first guard in redirects; /dev/null may not open, and dup and dup2 may fail.
EnterSilence(t) ==
  /\ depth' = depth + 1
  /\ \/ depth = 0 /\ saved' = fd2 /\ fd2' \in {"null", fd2}
     \/ UNCHANGED <<saved, fd2>>

\* Mutant: the closed copy is not forgotten.
LeaveStale(t) ==
  /\ depth' = depth - 1
  /\ UNCHANGED saved
  /\ fd2' = IF depth > 1 \/ saved = None THEN fd2 ELSE saved

\* The last guard out restores.
LeaveSilence(t) ==
  /\ depth' = depth - 1
  /\ IF depth > 1 \/ saved = None THEN UNCHANGED <<saved, fd2>>
     ELSE fd2' = saved /\ saved' = None

Decode(t) ==
  /\ Goto(t, "decode", "decoding") /\ ~request[t].external
  /\ EnterSilence(t)
  /\ UNCHANGED <<request, outcome, engineVars, pluginVars>>

Decoded(t) ==
  /\ \/ Goto(t, "decoding", "ensure") /\ UNCHANGED outcome
     \/ Finish(t, "decoding", Failure(t))
  /\ LeaveSilence(t)
  /\ UNCHANGED <<request, engineVars, pluginVars>>

-----------------------------------------------------------------------------
(* EnsureTesseract.                                                        *)

\* No directory holds every model of the language.
ModelMissing(t) ==
  /\ Finish(t, "ensure", Failure(t))
  /\ UNCHANGED <<request, engineVars, stderrVars, pluginVars>>

LabelOf(r, d) == <<r.model, d, r.settings>>

\* Mutant: the fingerprint of the settings is not compared.
NeedInitForModel(t, label) ==
  engine[t].ready => engine[t].label[1] # label[1] \/ engine[t].label[2] # label[2]

NeedInit(t, label) == engine[t].ready => engine[t].label # label

\* The directory is found anew for every page.
Reuse(t, d) ==
  /\ Goto(t, "ensure", "mode") /\ ~NeedInit(t, LabelOf(request[t], d))
  /\ target' = [target EXCEPT ![t] = LabelOf(request[t], d)]
  /\ UNCHANGED <<request, outcome, engine, api, stderrVars, pluginVars>>

\* Another engine is ended before the new one is started.
Restart(t, d) ==
  /\ Goto(t, "ensure", "init") /\ NeedInit(t, LabelOf(request[t], d))
  /\ target' = [target EXCEPT ![t] = LabelOf(request[t], d)]
  /\ engine' = [engine EXCEPT ![t].ready = FALSE]
  /\ api' = [api EXCEPT ![t] = IF engine[t].ready THEN NotStarted ELSE @]
  /\ UNCHANGED <<request, outcome, stderrVars, pluginVars>>

StartInit(t) ==
  /\ Goto(t, "init", "initialising")
  /\ EnterSilence(t)
  /\ UNCHANGED <<request, outcome, engineVars, pluginVars>>

Started(label) == [label |-> label, psm |-> NoMode, page |-> FALSE]

\* Mutant: the mode of the ended engine is still believed.
InitEndsKeepingMode(t) ==
  /\ Goto(t, "initialising", "mode")
  /\ api' = [api EXCEPT ![t] = Started(target[t])]
  /\ engine' = [engine EXCEPT ![t].ready = TRUE, ![t].label = target[t]]
  /\ LeaveSilence(t)
  /\ UNCHANGED <<request, outcome, target, pluginVars>>

\* The settings are applied and what was loaded is noted.
InitEnds(t) ==
  /\ Goto(t, "initialising", "mode")
  /\ api' = [api EXCEPT ![t] = Started(target[t])]
  /\ engine' = [engine EXCEPT ![t] = [ready |-> TRUE, label |-> target[t], psm |-> NoMode]]
  /\ LeaveSilence(t)
  /\ UNCHANGED <<request, outcome, target, pluginVars>>

InitFails(t) ==
  /\ Finish(t, "initialising", Failure(t))
  /\ LeaveSilence(t)
  /\ UNCHANGED <<request, engineVars, pluginVars>>

\* The mode is set when it changes, then the page.
SetPage(t) ==
  /\ Goto(t, "mode", "recognise")
  /\ api' = [api EXCEPT ![t].page = TRUE,
                        ![t].psm = IF engine[t].psm # request[t].psm THEN request[t].psm ELSE @]
  /\ engine' = [engine EXCEPT ![t].psm = request[t].psm]
  /\ UNCHANGED <<request, outcome, target, stderrVars, pluginVars>>

-----------------------------------------------------------------------------
(* Recognition.                                                            *)

Clear(t) == api' = [api EXCEPT ![t].page = FALSE]

Recognized(t) ==
  /\ Finish(t, "recognise", "text")
  /\ Clear(t)
  /\ UNCHANGED <<request, target, engine, stderrVars, pluginVars>>

\* Words are then missing; a text layer is an error even under best effort.
RecognizeFails(t) ==
  /\ \/ Finish(t, "recognise", "empty") /\ request[t].kind = "words"
     \/ Finish(t, "recognise", "error") /\ request[t].kind = "layer"
  /\ Clear(t)
  /\ UNCHANGED <<request, target, engine, stderrVars, pluginVars>>

-----------------------------------------------------------------------------
(* RecognizeExternal and LoadPlugin.                                       *)

NoPlugin(t) ==
  /\ pc[t] = "plugin" /\ request[t].plugin = None
  /\ Finish(t, "plugin", Failure(t))
  /\ UNCHANGED <<request, engineVars, stderrVars, pluginVars>>

\* Mutant: plugins are loaded and called without the mutex.
LockIgnored(t) ==
  /\ Goto(t, "plugin", "load") /\ request[t].plugin # None
  /\ pluginMutex' = t
  /\ UNCHANGED <<request, outcome, engineVars, stderrVars, cached, held, handles>>

LockPlugins(t) ==
  /\ Goto(t, "plugin", "load") /\ request[t].plugin # None /\ pluginMutex = None
  /\ pluginMutex' = t
  /\ UNCHANGED <<request, outcome, engineVars, stderrVars, cached, held, handles>>

PluginCached(t) ==
  /\ Goto(t, "load", "call") /\ cached = request[t].plugin
  /\ held' = [held EXCEPT ![t] = cached]
  /\ UNCHANGED <<request, outcome, engineVars, stderrVars, pluginMutex, cached, handles>>

Closed(p) == IF p = None THEN handles ELSE [handles EXCEPT ![p] = @ - 1]

\* Another plugin is closed before this one is opened.
ClosePlugin(t) ==
  /\ Goto(t, "load", "open") /\ cached # request[t].plugin
  /\ handles' = Closed(cached)
  /\ cached' = None
  /\ UNCHANGED <<request, outcome, engineVars, stderrVars, pluginMutex, held>>

OpenPlugin(t) ==
  LET p == request[t].plugin IN
    /\ Goto(t, "open", "call")
    /\ handles' = [handles EXCEPT ![p] = @ + 1]
    /\ cached' = p /\ held' = [held EXCEPT ![t] = p]
    /\ UNCHANGED <<request, outcome, engineVars, stderrVars, pluginMutex>>

\* The library cannot be opened, or lacks a symbol and is closed again.
OpenFails(t) ==
  /\ Finish(t, "open", "error")
  /\ pluginMutex' = None
  /\ UNCHANGED <<request, engineVars, stderrVars, cached, held, handles>>

\* The plugin answers, or returns an error code; its text is freed either way.
CallPlugin(t) ==
  /\ \E result \in {"text", Failure(t)} : Finish(t, "call", result)
  /\ pluginMutex' = None
  /\ held' = [held EXCEPT ![t] = None]
  /\ UNCHANGED <<request, engineVars, stderrVars, cached, handles>>

\* A thread ends and another begins: its engine goes with it.
ThreadExits(t) ==
  /\ pc[t] = "idle" /\ engine[t].ready
  /\ engine' = [engine EXCEPT ![t] = NoEngine]
  /\ api' = [api EXCEPT ![t] = NotStarted]
  /\ UNCHANGED <<pc, request, outcome, target, stderrVars, pluginVars>>

Next ==
  \E t \in Threads :
    \/ \E r \in Requests : Begin(t, r)
    \/ NoImage(t) \/ BlobRefused(t) \/ Decode(t) \/ Decoded(t)
    \/ ModelMissing(t) \/ (\E d \in Dirs : Reuse(t, d)) \/ (\E d \in Dirs : Restart(t, d))
    \/ StartInit(t) \/ InitEnds(t) \/ InitFails(t) \/ SetPage(t)
    \/ Recognized(t) \/ RecognizeFails(t)
    \/ NoPlugin(t) \/ LockPlugins(t) \/ PluginCached(t) \/ ClosePlugin(t)
    \/ OpenPlugin(t) \/ OpenFails(t) \/ CallPlugin(t) \/ ThreadExits(t)

Spec == Init /\ [][Next]_vars

-----------------------------------------------------------------------------
(* Properties.                                                             *)

Stages == {"idle", "decode", "decoding", "ensure", "init", "initialising", "mode",
           "recognise", "plugin", "load", "open", "call"}

Engines == [ready : BOOLEAN, label : Labels \cup {None}, psm : Modes \cup {NoMode}]
Apis == [label : Labels \cup {None}, psm : Modes \cup {NoMode}, page : BOOLEAN]

TypeOK ==
  /\ pc \in [Threads -> Stages]
  /\ request \in [Threads -> Requests \cup {None}]
  /\ outcome \in [Threads -> {"none", "text", "empty", "error"}]
  /\ target \in [Threads -> Labels \cup {None}]
  /\ engine \in [Threads -> Engines]
  /\ api \in [Threads -> Apis]
  /\ depth \in Nat
  /\ saved \in {None, "terminal"} /\ fd2 \in {"terminal", "null"}
  /\ pluginMutex \in Threads \cup {None} /\ cached \in Plugins \cup {None}
  /\ held \in [Threads -> Plugins \cup {None}]
  /\ handles \in [Plugins -> Int]

Silenced == {t \in Threads : pc[t] \in {"decoding", "initialising"}}

\* Standard error is what it was whenever no thread silences it, whatever the
\* order in which the guards came and went (comment at ocr_ops.cpp:401).
StderrRestored == Silenced = {} => depth = 0 /\ fd2 = "terminal" /\ saved = None

\* A page is recognised with the model, the directory, the settings and the
\* mode its own query asked for, whatever the thread recognised before.
EngineIsTheRequested ==
  \A t \in Threads : pc[t] = "recognise" =>
    /\ api[t].label = target[t]
    /\ target[t][1] = request[t].model /\ target[t][3] = request[t].settings
    /\ api[t].psm = request[t].psm

\* Between requests an engine keeps its models but no page.
NoPageKept == \A t \in Threads : pc[t] # "recognise" => ~api[t].page

\* A plugin is called while it is loaded, and it is the one of the query.
PluginIsTheRequested ==
  \A t \in Threads : pc[t] = "call" =>
    held[t] = request[t].plugin /\ held[t] # None /\ handles[held[t]] > 0

\* Every library ever opened is closed again, but for the cached one.
OneLibraryOpen == \A p \in Plugins : handles[p] = IF cached = p THEN 1 ELSE 0
=============================================================================
