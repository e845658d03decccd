-------------------------- MODULE RecognitionProofs --------------------------
(***************************************************************************)
(* What the threads of a process share, for any number of threads,         *)
(* processes, calls, requests, models and plugins: standard error, engines *)
(* and plugins (OcrEngine), the file of the bundled model, of which racing *)
(* extractions leave no part that is taken for it (BundledModel), and the  *)
(* flag of missing fonts, for which no redacted page lacks one             *)
(* (MissingFonts).                                                         *)
(***************************************************************************)
EXTENDS OcrEngine, BundledModel, MissingFonts, FiniteSetTheorems, TLAPS

-----------------------------------------------------------------------------
(* OcrEngine: IInv adds what each program point knows; its three parts do  *)
(* not depend on one another.                                              *)

\* depth counts the threads inside a guard, and fd 2 is redirected only while
\* something is saved, which needs a guard.
SilenceInv ==
  /\ depth = Cardinality(Silenced)
  /\ saved = None => fd2 = "terminal"
  /\ depth = 0 => saved = None

\* What EnsureTesseract looked up belongs to the request.
TargetFits(t) ==
  /\ target[t] \in Labels
  /\ target[t][1] = request[t].model
  /\ target[t][3] = request[t].settings

\* A ready engine describes tesseract; on its way to recognition it comes to
\* describe the request too.
EngineInv(t) ==
  /\ pc[t] # "idle" => request[t] \in Requests
  /\ engine[t].ready => engine[t].label \in Labels /\ api[t].label = engine[t].label
                        /\ api[t].psm = engine[t].psm
  /\ pc[t] \in {"init", "initialising"} => ~engine[t].ready /\ TargetFits(t)
  /\ pc[t] \in {"mode", "recognise"} => engine[t].ready /\ engine[t].label = target[t] /\ TargetFits(t)
  /\ pc[t] = "recognise" => engine[t].psm = request[t].psm
  /\ api[t].page => pc[t] = "recognise"

\* Whoever loads or calls a plugin holds the mutex, so the cache is its own.
PluginInv ==
  /\ \A t \in Threads : pc[t] \in {"load", "open", "call"} =>
       pluginMutex = t /\ request[t].plugin \in Plugins
  /\ \A t \in Threads : pc[t] = "open" => cached = None
  /\ \A t \in Threads : pc[t] = "call" => cached = request[t].plugin /\ held[t] = cached
  /\ OneLibraryOpen

IInv == TypeOK /\ SilenceInv /\ (\A t \in Threads : EngineInv(t)) /\ PluginInv

\* A step of thread t.
EngineMove(t) ==
  \/ \E r \in Requests : Begin(t, r)
  \/ NoImage(t) \/ BlobRefused(t) \/ Decode(t) \/ Decoded(t)
  \/ ModelMissing(t) \/ (\E d \in Dirs : Reuse(t, d)) \/ (\E d \in Dirs : Restart(t, d))
  \/ StartInit(t) \/ InitEnds(t) \/ InitFails(t) \/ SetPage(t)
  \/ Recognized(t) \/ RecognizeFails(t)
  \/ NoPlugin(t) \/ LockPlugins(t) \/ PluginCached(t) \/ ClosePlugin(t)
  \/ OpenPlugin(t) \/ OpenFails(t) \/ CallPlugin(t) \/ ThreadExits(t)

LEMMA NextIsMove == Next <=> \E t \in Threads : EngineMove(t)
BY DEF Next, EngineMove

-----------------------------------------------------------------------------
\* A thread inside a guard is counted in depth; the set of these changes by one
\* thread when one comes or goes.
LEMMA SilencedCount ==
  ASSUME NEW S \in SUBSET Threads, NEW t \in Threads
  PROVE  /\ Cardinality(S) \in Nat
         /\ t \notin S => Cardinality(S \cup {t}) = Cardinality(S) + 1
         /\ t \in S => Cardinality(S) > 0 /\ Cardinality(S \ {t}) = Cardinality(S) - 1
<1>1. IsFiniteSet(S)
  BY FS_Subset, OcrAssumption
<1>2. Cardinality(S) \in Nat
  BY <1>1, FS_CardinalityType
<1>3. t \in S => Cardinality(S) > 0
  BY <1>1, <1>2, FS_EmptySet
<1>4. t \notin S => Cardinality(S \cup {t}) = Cardinality(S) + 1
  BY <1>1, FS_AddElement
<1>5. t \in S => Cardinality(S \ {t}) = Cardinality(S) - 1
  BY <1>1, FS_RemoveElement
<1> QED
  BY <1>2, <1>3, <1>4, <1>5

LEMMA LabelTyped ==
  ASSUME NEW r \in Requests, NEW d \in Dirs
  PROVE  LabelOf(r, d) \in Labels /\ LabelOf(r, d)[1] = r.model /\ LabelOf(r, d)[3] = r.settings
BY OcrAssumption DEF LabelOf, Labels

\* Every action keeps the types; depth stays natural because a guard that
\* leaves had come in.
LEMMA TypeStep == IInv /\ [Next]_vars => TypeOK'
<1> SUFFICES ASSUME IInv, [Next]_vars PROVE TypeOK'
  OBVIOUS
<1> USE OcrAssumption DEF IInv, TypeOK, Stages
<1>1. CASE UNCHANGED vars
  BY <1>1 DEF vars, engineVars, stderrVars, pluginVars
<1>2. ASSUME NEW t \in Threads, EngineMove(t) PROVE TypeOK'
  <2> USE DEF EngineInv
  <2>0. pc[t] \in {"decoding", "initialising"} => depth - 1 \in Nat
    <3>1. Silenced \in SUBSET Threads
      BY DEF Silenced
    <3>2. pc[t] \in {"decoding", "initialising"} => Cardinality(Silenced) > 0
      BY <3>1, SilencedCount DEF Silenced
    <3> QED
      BY <3>2 DEF SilenceInv
  <2>00. depth = 0 => fd2 = "terminal"
    BY DEF SilenceInv
  <2>1. ASSUME NEW r \in Requests, Begin(t, r) PROVE TypeOK'
    BY <2>1 DEF Begin, FirstStage, Goto, engineVars, stderrVars, pluginVars
  <2>2. ASSUME NoImage(t) PROVE TypeOK'
    BY <2>2 DEF NoImage, Finish, Goto, engineVars, stderrVars, pluginVars
  <2>3. ASSUME BlobRefused(t) PROVE TypeOK'
    BY <2>3 DEF BlobRefused, Finish, Failure, Goto, engineVars, stderrVars, pluginVars
  <2>4. ASSUME Decode(t) PROVE TypeOK'
    BY <2>4, <2>00 DEF Decode, EnterSilence, Goto, engineVars, stderrVars, pluginVars
  <2>5. ASSUME Decoded(t) PROVE TypeOK'
    BY <2>5, <2>0 DEF Decoded, Finish, Failure, LeaveSilence, Goto, engineVars, stderrVars,
       pluginVars
  <2>6. ASSUME ModelMissing(t) PROVE TypeOK'
    BY <2>6 DEF ModelMissing, Finish, Failure, Goto, engineVars, stderrVars, pluginVars
  <2>7. ASSUME NEW d \in Dirs, Reuse(t, d) PROVE TypeOK'
    BY <2>7 DEF Reuse, NeedInit, LabelOf, Goto, engineVars, stderrVars, pluginVars
  <2>8. ASSUME NEW d \in Dirs, Restart(t, d) PROVE TypeOK'
    <3>0. engine' = [engine EXCEPT ![t].ready = FALSE]
      BY <2>8 DEF Restart
    <3>01. engine[t] \in Engines
      OBVIOUS
    <3>02. [engine[t] EXCEPT !.ready = FALSE] \in Engines
      BY <3>01 DEF Engines
    <3>1. engine'[t] \in Engines /\ engine' = [engine EXCEPT ![t] = engine'[t]]
      BY <3>0, <3>01, <3>02
    <3>2. api'[t] \in Apis /\ api' = [api EXCEPT ![t] = api'[t]]
      BY <2>8 DEF Restart, Goto, engineVars, stderrVars, pluginVars, Engines, Apis, NoEngine,
         NotStarted
    <3> QED
      BY <2>8, <3>1, <3>2, LabelTyped DEF Restart, Goto, engineVars, stderrVars, pluginVars
  <2>9. ASSUME StartInit(t) PROVE TypeOK'
    BY <2>9, <2>00 DEF StartInit, EnterSilence, Goto, engineVars, stderrVars, pluginVars
  <2>10. ASSUME InitEnds(t) PROVE TypeOK'
    <3>1. engine'[t] \in Engines /\ engine' = [engine EXCEPT ![t] = engine'[t]]
      BY <2>10 DEF InitEnds, LeaveSilence, Started, Goto, engineVars, stderrVars, pluginVars,
         Engines, Apis, NoEngine, NotStarted
    <3>2. api'[t] \in Apis /\ api' = [api EXCEPT ![t] = api'[t]]
      BY <2>10 DEF InitEnds, LeaveSilence, Started, Goto, engineVars, stderrVars, pluginVars,
         Engines, Apis, NoEngine, NotStarted
    <3> QED
      BY <2>10, <3>1, <3>2, <2>0 DEF InitEnds, LeaveSilence, Started, Goto, engineVars, stderrVars,
         pluginVars
  <2>11. ASSUME InitFails(t) PROVE TypeOK'
    BY <2>11, <2>0 DEF InitFails, Finish, Failure, LeaveSilence, Goto, engineVars, stderrVars,
       pluginVars
  <2>12. ASSUME SetPage(t) PROVE TypeOK'
    <3>1. engine'[t] \in Engines /\ engine' = [engine EXCEPT ![t] = engine'[t]]
      BY <2>12 DEF SetPage, Goto, engineVars, stderrVars, pluginVars, Engines, Apis, NoEngine,
         NotStarted
    <3>2. PICK asked \in Modes : request[t].psm = asked
      BY <2>12 DEF SetPage, Goto
    <3>3. PICK m \in Modes \cup {NoMode} : api' = [api EXCEPT ![t].page = TRUE, ![t].psm = m]
      <4>1. api[t] \in Apis
        OBVIOUS
      <4>2. api[t].psm \in Modes \cup {NoMode}
        BY <4>1 DEF Apis
      <4> QED
        BY <2>12, <3>2, <4>1, <4>2 DEF SetPage
    <3>4. [api[t] EXCEPT !.page = TRUE, !.psm = m] \in Apis
      <4>1. api[t] \in Apis
        OBVIOUS
      <4> QED
        BY <4>1 DEF Apis
    <3>5. api'[t] \in Apis /\ api' = [api EXCEPT ![t] = api'[t]]
      BY <3>3, <3>4
    <3> QED
      BY <2>12, <3>1, <3>5 DEF SetPage, Goto, engineVars, stderrVars, pluginVars
  <2>13. ASSUME Recognized(t) PROVE TypeOK'
    <3>1. engine'[t] \in Engines /\ engine' = [engine EXCEPT ![t] = engine'[t]]
      BY <2>13 DEF Recognized, Finish, Clear, Goto, engineVars, stderrVars, pluginVars, Engines,
         Apis, NoEngine, NotStarted
    <3>2. api'[t] \in Apis /\ api' = [api EXCEPT ![t] = api'[t]]
      BY <2>13 DEF Recognized, Finish, Clear, Goto, engineVars, stderrVars, pluginVars, Engines,
         Apis, NoEngine, NotStarted
    <3> QED
      BY <2>13, <3>1, <3>2 DEF Recognized, Finish, Clear, Goto, engineVars, stderrVars, pluginVars
  <2>14. ASSUME RecognizeFails(t) PROVE TypeOK'
    <3>1. engine'[t] \in Engines /\ engine' = [engine EXCEPT ![t] = engine'[t]]
      BY <2>14 DEF RecognizeFails, Engines, engineVars
    <3>2. api'[t] \in Apis /\ api' = [api EXCEPT ![t] = api'[t]]
      BY <2>14 DEF RecognizeFails, Clear, Apis
    <3> QED
      BY <2>14, <3>1, <3>2 DEF RecognizeFails, Finish, Clear, Goto, engineVars, stderrVars,
         pluginVars
  <2>15. ASSUME NoPlugin(t) PROVE TypeOK'
    BY <2>15 DEF NoPlugin, Finish, Failure, Goto, engineVars, stderrVars, pluginVars
  <2>16. ASSUME LockPlugins(t) PROVE TypeOK'
    BY <2>16 DEF LockPlugins, Goto, engineVars, stderrVars, pluginVars
  <2>17. ASSUME PluginCached(t) PROVE TypeOK'
    BY <2>17 DEF PluginCached, Goto, engineVars, stderrVars, pluginVars
  <2>18. ASSUME ClosePlugin(t) PROVE TypeOK'
    BY <2>18 DEF ClosePlugin, Closed, Goto, engineVars, stderrVars, pluginVars
  <2>19. ASSUME OpenPlugin(t) PROVE TypeOK'
    BY <2>19 DEF OpenPlugin, PluginInv, Goto, engineVars, stderrVars, pluginVars
  <2>20. ASSUME OpenFails(t) PROVE TypeOK'
    BY <2>20 DEF OpenFails, Finish, Goto, engineVars, stderrVars, pluginVars
  <2>21. ASSUME CallPlugin(t) PROVE TypeOK'
    BY <2>21 DEF CallPlugin, Finish, Failure, Goto, engineVars, stderrVars, pluginVars
  <2>22. ASSUME ThreadExits(t) PROVE TypeOK'
    <3>1. engine'[t] \in Engines /\ engine' = [engine EXCEPT ![t] = engine'[t]]
      BY <2>22 DEF ThreadExits, Goto, engineVars, stderrVars, pluginVars, Engines, Apis, NoEngine,
         NotStarted
    <3>2. api'[t] \in Apis /\ api' = [api EXCEPT ![t] = api'[t]]
      BY <2>22 DEF ThreadExits, Goto, engineVars, stderrVars, pluginVars, Engines, Apis, NoEngine,
         NotStarted
    <3> QED
      BY <2>22, <3>1, <3>2 DEF ThreadExits, Goto, engineVars, stderrVars, pluginVars
  <2> QED
    BY <1>2, <2>1, <2>2, <2>3, <2>4, <2>5, <2>6, <2>7, <2>8, <2>9, <2>10, <2>11, <2>12, <2>13, <2>14, <2>15, <2>16, <2>17, <2>18, <2>19, <2>20, <2>21, <2>22 DEF EngineMove
<1> QED
  BY <1>1, <1>2, NextIsMove

\* The threads inside a guard change only with depth.
LEMMA SilenceStep == IInv /\ [Next]_vars => SilenceInv'
<1> SUFFICES ASSUME IInv, [Next]_vars PROVE SilenceInv'
  OBVIOUS
<1> USE OcrAssumption DEF IInv, SilenceInv
<1>0. pc \in [Threads -> Stages] /\ saved \in {None, "terminal"} /\ fd2 \in {"terminal", "null"} /\ depth \in Nat
  BY DEF TypeOK
<1>1. CASE UNCHANGED vars
  BY <1>1 DEF vars, stderrVars, Silenced
<1>2. ASSUME NEW t \in Threads, EnterSilence(t), t \notin Silenced, Silenced' = Silenced \cup {t}
      PROVE SilenceInv'
  <2>1. Silenced \in SUBSET Threads
    BY DEF Silenced
  <2>2. depth' = Cardinality(Silenced') /\ depth' # 0
    BY <1>2, <2>1, SilencedCount DEF EnterSilence
  <2> QED
    BY <1>0, <1>2, <2>2 DEF EnterSilence
<1>3. ASSUME NEW t \in Threads, LeaveSilence(t), t \in Silenced, Silenced' = Silenced \ {t}
      PROVE SilenceInv'
  <2>1. Silenced \in SUBSET Threads
    BY DEF Silenced
  <2>2. depth' = Cardinality(Silenced') /\ depth > 0
    BY <1>3, <2>1, SilencedCount DEF LeaveSilence
  <2> QED
    BY <1>0, <1>3, <2>2 DEF LeaveSilence
<1>4. ASSUME UNCHANGED stderrVars, Silenced' = Silenced PROVE SilenceInv'
  BY <1>4 DEF stderrVars
<1>5. ASSUME NEW t \in Threads, EngineMove(t) PROVE SilenceInv'
  <2>1. ASSUME NEW r \in Requests, Begin(t, r) PROVE SilenceInv'
    <3>1. UNCHANGED stderrVars /\ Silenced' = Silenced
      BY <1>0, <2>1 DEF Begin, FirstStage, Goto, Silenced, stderrVars
    <3> QED
      BY <1>4, <3>1
  <2>2. ASSUME NoImage(t) PROVE SilenceInv'
    <3>1. UNCHANGED stderrVars /\ Silenced' = Silenced
      BY <1>0, <2>2 DEF NoImage, Finish, Goto, Silenced, stderrVars
    <3> QED
      BY <1>4, <3>1
  <2>3. ASSUME BlobRefused(t) PROVE SilenceInv'
    <3>1. UNCHANGED stderrVars /\ Silenced' = Silenced
      BY <1>0, <2>3 DEF BlobRefused, Finish, Goto, Silenced, stderrVars
    <3> QED
      BY <1>4, <3>1
  <2>4. ASSUME Decode(t) PROVE SilenceInv'
    <3>1. EnterSilence(t) /\ t \notin Silenced /\ Silenced' = Silenced \cup {t}
      BY <1>0, <2>4 DEF Decode, Goto, Silenced
    <3> QED
      BY <1>2, <3>1
  <2>5. ASSUME Decoded(t) PROVE SilenceInv'
    <3>1. LeaveSilence(t) /\ t \in Silenced /\ Silenced' = Silenced \ {t}
      BY <1>0, <2>5 DEF Decoded, Finish, Goto, Silenced
    <3> QED
      BY <1>3, <3>1
  <2>6. ASSUME ModelMissing(t) PROVE SilenceInv'
    <3>1. UNCHANGED stderrVars /\ Silenced' = Silenced
      BY <1>0, <2>6 DEF ModelMissing, Finish, Goto, Silenced, stderrVars
    <3> QED
      BY <1>4, <3>1
  <2>7. ASSUME NEW d \in Dirs, Reuse(t, d) PROVE SilenceInv'
    <3>1. UNCHANGED stderrVars /\ Silenced' = Silenced
      BY <1>0, <2>7 DEF Reuse, Goto, Silenced, stderrVars
    <3> QED
      BY <1>4, <3>1
  <2>8. ASSUME NEW d \in Dirs, Restart(t, d) PROVE SilenceInv'
    <3>1. UNCHANGED stderrVars /\ Silenced' = Silenced
      BY <1>0, <2>8 DEF Restart, Goto, Silenced, stderrVars
    <3> QED
      BY <1>4, <3>1
  <2>9. ASSUME StartInit(t) PROVE SilenceInv'
    <3>1. EnterSilence(t) /\ t \notin Silenced /\ Silenced' = Silenced \cup {t}
      BY <1>0, <2>9 DEF StartInit, Goto, Silenced
    <3> QED
      BY <1>2, <3>1
  <2>10. ASSUME InitEnds(t) PROVE SilenceInv'
    <3>1. LeaveSilence(t) /\ t \in Silenced /\ Silenced' = Silenced \ {t}
      BY <1>0, <2>10 DEF InitEnds, Goto, Silenced
    <3> QED
      BY <1>3, <3>1
  <2>11. ASSUME InitFails(t) PROVE SilenceInv'
    <3>1. LeaveSilence(t) /\ t \in Silenced /\ Silenced' = Silenced \ {t}
      BY <1>0, <2>11 DEF InitFails, Finish, Goto, Silenced
    <3> QED
      BY <1>3, <3>1
  <2>12. ASSUME SetPage(t) PROVE SilenceInv'
    <3>1. UNCHANGED stderrVars /\ Silenced' = Silenced
      BY <1>0, <2>12 DEF SetPage, Goto, Silenced, stderrVars
    <3> QED
      BY <1>4, <3>1
  <2>13. ASSUME Recognized(t) PROVE SilenceInv'
    <3>1. UNCHANGED stderrVars /\ Silenced' = Silenced
      BY <1>0, <2>13 DEF Recognized, Finish, Goto, Silenced, stderrVars
    <3> QED
      BY <1>4, <3>1
  <2>14. ASSUME RecognizeFails(t) PROVE SilenceInv'
    <3>1. UNCHANGED stderrVars /\ Silenced' = Silenced
      BY <1>0, <2>14 DEF RecognizeFails, Finish, Goto, Silenced, stderrVars
    <3> QED
      BY <1>4, <3>1
  <2>15. ASSUME NoPlugin(t) PROVE SilenceInv'
    <3>1. UNCHANGED stderrVars /\ Silenced' = Silenced
      BY <1>0, <2>15 DEF NoPlugin, Finish, Goto, Silenced, stderrVars
    <3> QED
      BY <1>4, <3>1
  <2>16. ASSUME LockPlugins(t) PROVE SilenceInv'
    <3>1. UNCHANGED stderrVars /\ Silenced' = Silenced
      BY <1>0, <2>16 DEF LockPlugins, Goto, Silenced, stderrVars
    <3> QED
      BY <1>4, <3>1
  <2>17. ASSUME PluginCached(t) PROVE SilenceInv'
    <3>1. UNCHANGED stderrVars /\ Silenced' = Silenced
      BY <1>0, <2>17 DEF PluginCached, Goto, Silenced, stderrVars
    <3> QED
      BY <1>4, <3>1
  <2>18. ASSUME ClosePlugin(t) PROVE SilenceInv'
    <3>1. UNCHANGED stderrVars /\ Silenced' = Silenced
      BY <1>0, <2>18 DEF ClosePlugin, Goto, Silenced, stderrVars
    <3> QED
      BY <1>4, <3>1
  <2>19. ASSUME OpenPlugin(t) PROVE SilenceInv'
    <3>1. UNCHANGED stderrVars /\ Silenced' = Silenced
      BY <1>0, <2>19 DEF OpenPlugin, Goto, Silenced, stderrVars
    <3> QED
      BY <1>4, <3>1
  <2>20. ASSUME OpenFails(t) PROVE SilenceInv'
    <3>1. UNCHANGED stderrVars /\ Silenced' = Silenced
      BY <1>0, <2>20 DEF OpenFails, Finish, Goto, Silenced, stderrVars
    <3> QED
      BY <1>4, <3>1
  <2>21. ASSUME CallPlugin(t) PROVE SilenceInv'
    <3>1. UNCHANGED stderrVars /\ Silenced' = Silenced
      BY <1>0, <2>21 DEF CallPlugin, Finish, Goto, Silenced, stderrVars
    <3> QED
      BY <1>4, <3>1
  <2>22. ASSUME ThreadExits(t) PROVE SilenceInv'
    <3>1. UNCHANGED stderrVars /\ Silenced' = Silenced
      BY <1>0, <2>22 DEF ThreadExits, Goto, Silenced, stderrVars
    <3> QED
      BY <1>4, <3>1
  <2> QED
    BY <1>5, <2>1, <2>2, <2>3, <2>4, <2>5, <2>6, <2>7, <2>8, <2>9, <2>10, <2>11, <2>12, <2>13, <2>14, <2>15, <2>16, <2>17, <2>18, <2>19, <2>20, <2>21, <2>22 DEF EngineMove
<1> QED
  BY <1>1, <1>5, NextIsMove

\* A step of one thread leaves what the other threads know alone.
LEMMA OtherThreads ==
  ASSUME TypeOK, NEW t \in Threads, EngineMove(t), NEW u \in Threads, u # t
  PROVE  /\ pc'[u] = pc[u] /\ request'[u] = request[u] /\ target'[u] = target[u]
         /\ engine'[u] = engine[u] /\ api'[u] = api[u] /\ held'[u] = held[u]
<1> USE DEF TypeOK
<1> DEFINE Same == /\ pc'[u] = pc[u] /\ request'[u] = request[u] /\ target'[u] = target[u]
                   /\ engine'[u] = engine[u] /\ api'[u] = api[u] /\ held'[u] = held[u]
<1>1. ASSUME NEW r \in Requests, Begin(t, r) PROVE Same
  BY <1>1 DEF Begin, Goto, engineVars, stderrVars, pluginVars
<1>2. ASSUME NoImage(t) PROVE Same
  BY <1>2 DEF NoImage, Finish, Goto, engineVars, stderrVars, pluginVars
<1>3. ASSUME BlobRefused(t) PROVE Same
  BY <1>3 DEF BlobRefused, Finish, Goto, engineVars, stderrVars, pluginVars
<1>4. ASSUME Decode(t) PROVE Same
  BY <1>4 DEF Decode, Goto, engineVars, stderrVars, pluginVars
<1>5. ASSUME Decoded(t) PROVE Same
  BY <1>5 DEF Decoded, Finish, Goto, engineVars, stderrVars, pluginVars
<1>6. ASSUME ModelMissing(t) PROVE Same
  BY <1>6 DEF ModelMissing, Finish, Goto, engineVars, stderrVars, pluginVars
<1>7. ASSUME NEW d \in Dirs, Reuse(t, d) PROVE Same
  BY <1>7 DEF Reuse, Goto, engineVars, stderrVars, pluginVars
<1>8. ASSUME NEW d \in Dirs, Restart(t, d) PROVE Same
  BY <1>8 DEF Restart, Goto, engineVars, stderrVars, pluginVars
<1>9. ASSUME StartInit(t) PROVE Same
  BY <1>9 DEF StartInit, Goto, engineVars, stderrVars, pluginVars
<1>10. ASSUME InitEnds(t) PROVE Same
  BY <1>10 DEF InitEnds, Goto, engineVars, stderrVars, pluginVars
<1>11. ASSUME InitFails(t) PROVE Same
  BY <1>11 DEF InitFails, Finish, Goto, engineVars, stderrVars, pluginVars
<1>12. ASSUME SetPage(t) PROVE Same
  BY <1>12 DEF SetPage, Goto, engineVars, stderrVars, pluginVars
<1>13. ASSUME Recognized(t) PROVE Same
  BY <1>13 DEF Recognized, Finish, Clear, Goto, engineVars, stderrVars, pluginVars
<1>14. ASSUME RecognizeFails(t) PROVE Same
  BY <1>14 DEF RecognizeFails, Finish, Clear, Goto, engineVars, stderrVars, pluginVars
<1>15. ASSUME NoPlugin(t) PROVE Same
  BY <1>15 DEF NoPlugin, Finish, Goto, engineVars, stderrVars, pluginVars
<1>16. ASSUME LockPlugins(t) PROVE Same
  BY <1>16 DEF LockPlugins, Goto, engineVars, stderrVars, pluginVars
<1>17. ASSUME PluginCached(t) PROVE Same
  BY <1>17 DEF PluginCached, Goto, engineVars, stderrVars, pluginVars
<1>18. ASSUME ClosePlugin(t) PROVE Same
  BY <1>18 DEF ClosePlugin, Goto, engineVars, stderrVars, pluginVars
<1>19. ASSUME OpenPlugin(t) PROVE Same
  BY <1>19 DEF OpenPlugin, Goto, engineVars, stderrVars, pluginVars
<1>20. ASSUME OpenFails(t) PROVE Same
  BY <1>20 DEF OpenFails, Finish, Goto, engineVars, stderrVars, pluginVars
<1>21. ASSUME CallPlugin(t) PROVE Same
  BY <1>21 DEF CallPlugin, Finish, Goto, engineVars, stderrVars, pluginVars
<1>22. ASSUME ThreadExits(t) PROVE Same
  BY <1>22 DEF ThreadExits, Goto, engineVars, stderrVars, pluginVars
<1> QED
  BY <1>1, <1>2, <1>3, <1>4, <1>5, <1>6, <1>7, <1>8, <1>9, <1>10, <1>11, <1>12, <1>13, <1>14, <1>15, <1>16, <1>17, <1>18, <1>19, <1>20, <1>21, <1>22 DEF EngineMove

\* What a thread knows of its engine survives every step.
LEMMA EngineStep == IInv /\ [Next]_vars => \A u \in Threads : EngineInv(u)'
<1> SUFFICES ASSUME IInv, [Next]_vars, NEW u \in Threads PROVE EngineInv(u)'
  OBVIOUS
<1>0. TypeOK /\ EngineInv(u)
  BY DEF IInv
<1>1. CASE UNCHANGED vars
  BY <1>0, <1>1 DEF vars, engineVars, EngineInv, TargetFits
<1>2. ASSUME NEW t \in Threads, EngineMove(t), u # t PROVE EngineInv(u)'
  BY <1>0, <1>2, OtherThreads DEF EngineInv, TargetFits
<1>3. ASSUME NEW t \in Threads, EngineMove(t), u = t PROVE EngineInv(u)'
  <2> USE <1>0, <1>3, OcrAssumption DEF TypeOK, Engines, Apis, EngineInv, TargetFits
  <2>1. ASSUME NEW r \in Requests, Begin(t, r) PROVE EngineInv(t)'
    BY <2>1 DEF Begin, FirstStage, Goto, engineVars, stderrVars, pluginVars
  <2>2. ASSUME NoImage(t) PROVE EngineInv(t)'
    BY <2>2 DEF NoImage, Finish, Goto, engineVars, stderrVars, pluginVars
  <2>3. ASSUME BlobRefused(t) PROVE EngineInv(t)'
    BY <2>3 DEF BlobRefused, Finish, Goto, engineVars, stderrVars, pluginVars
  <2>4. ASSUME Decode(t) PROVE EngineInv(t)'
    BY <2>4 DEF Decode, Goto, engineVars, stderrVars, pluginVars
  <2>5. ASSUME Decoded(t) PROVE EngineInv(t)'
    BY <2>5 DEF Decoded, Finish, Goto, engineVars, stderrVars, pluginVars
  <2>6. ASSUME ModelMissing(t) PROVE EngineInv(t)'
    BY <2>6 DEF ModelMissing, Finish, Goto, engineVars, stderrVars, pluginVars
  <2>7. ASSUME NEW d \in Dirs, Reuse(t, d) PROVE EngineInv(t)'
    BY <2>7, LabelTyped DEF Reuse, NeedInit, Goto, engineVars, stderrVars, pluginVars
  <2>8. ASSUME NEW d \in Dirs, Restart(t, d) PROVE EngineInv(t)'
    BY <2>8, LabelTyped DEF Restart, NoEngine, NotStarted, Goto, engineVars, stderrVars, pluginVars
  <2>9. ASSUME StartInit(t) PROVE EngineInv(t)'
    BY <2>9 DEF StartInit, Goto, engineVars, stderrVars, pluginVars
  <2>10. ASSUME InitEnds(t) PROVE EngineInv(t)'
    BY <2>10 DEF InitEnds, Started, NoEngine, NotStarted, Goto, engineVars, stderrVars, pluginVars
  <2>11. ASSUME InitFails(t) PROVE EngineInv(t)'
    BY <2>11 DEF InitFails, Finish, Goto, engineVars, stderrVars, pluginVars
  <2>12. ASSUME SetPage(t) PROVE EngineInv(t)'
    BY <2>12 DEF SetPage, Goto, engineVars, stderrVars, pluginVars
  <2>13. ASSUME Recognized(t) PROVE EngineInv(t)'
    BY <2>13 DEF Recognized, Finish, Clear, Goto, engineVars, stderrVars, pluginVars
  <2>14. ASSUME RecognizeFails(t) PROVE EngineInv(t)'
    BY <2>14 DEF RecognizeFails, Finish, Clear, Goto, engineVars, stderrVars, pluginVars
  <2>15. ASSUME NoPlugin(t) PROVE EngineInv(t)'
    BY <2>15 DEF NoPlugin, Finish, Goto, engineVars, stderrVars, pluginVars
  <2>16. ASSUME LockPlugins(t) PROVE EngineInv(t)'
    BY <2>16 DEF LockPlugins, Goto, engineVars, stderrVars, pluginVars
  <2>17. ASSUME PluginCached(t) PROVE EngineInv(t)'
    BY <2>17 DEF PluginCached, Goto, engineVars, stderrVars, pluginVars
  <2>18. ASSUME ClosePlugin(t) PROVE EngineInv(t)'
    BY <2>18 DEF ClosePlugin, Goto, engineVars, stderrVars, pluginVars
  <2>19. ASSUME OpenPlugin(t) PROVE EngineInv(t)'
    BY <2>19 DEF OpenPlugin, Goto, engineVars, stderrVars, pluginVars
  <2>20. ASSUME OpenFails(t) PROVE EngineInv(t)'
    BY <2>20 DEF OpenFails, Finish, Goto, engineVars, stderrVars, pluginVars
  <2>21. ASSUME CallPlugin(t) PROVE EngineInv(t)'
    BY <2>21 DEF CallPlugin, Finish, Goto, engineVars, stderrVars, pluginVars
  <2>22. ASSUME ThreadExits(t) PROVE EngineInv(t)'
    BY <2>22 DEF ThreadExits, NoEngine, NotStarted, Goto, engineVars, stderrVars, pluginVars
  <2> QED
    BY <1>3, <2>1, <2>2, <2>3, <2>4, <2>5, <2>6, <2>7, <2>8, <2>9, <2>10, <2>11, <2>12, <2>13, <2>14, <2>15, <2>16, <2>17, <2>18, <2>19, <2>20, <2>21, <2>22 DEF EngineMove
<1> QED
  BY <1>1, <1>2, <1>3, NextIsMove

\* Only the thread that holds the mutex touches the cache and the libraries.
LEMMA PluginStep == IInv /\ [Next]_vars => PluginInv'
<1> SUFFICES ASSUME IInv, [Next]_vars PROVE PluginInv'
  OBVIOUS
<1>0. TypeOK /\ PluginInv
  BY DEF IInv
<1>1. CASE UNCHANGED vars
  BY <1>0, <1>1 DEF vars, pluginVars, PluginInv, OneLibraryOpen
<1>2. ASSUME NEW t \in Threads, EngineMove(t) PROVE PluginInv'
  <2> DEFINE Others == \A u \in Threads \ {t} :
                         pc'[u] = pc[u] /\ request'[u] = request[u] /\ held'[u] = held[u]
  <2>0. Others
    BY <1>0, <1>2, OtherThreads
  <2> USE <1>0, <2>0, OcrAssumption DEF TypeOK, PluginInv, OneLibraryOpen
  <2>1. ASSUME NEW r \in Requests, Begin(t, r) PROVE PluginInv'
    BY <2>1 DEF Begin, FirstStage, Goto, pluginVars
  <2>2. ASSUME NoImage(t) PROVE PluginInv'
    BY <2>2 DEF NoImage, Finish, Goto, pluginVars
  <2>3. ASSUME BlobRefused(t) PROVE PluginInv'
    BY <2>3 DEF BlobRefused, Finish, Goto, pluginVars
  <2>4. ASSUME Decode(t) PROVE PluginInv'
    BY <2>4 DEF Decode, Goto, pluginVars
  <2>5. ASSUME Decoded(t) PROVE PluginInv'
    BY <2>5 DEF Decoded, Finish, Goto, pluginVars
  <2>6. ASSUME ModelMissing(t) PROVE PluginInv'
    BY <2>6 DEF ModelMissing, Finish, Goto, pluginVars
  <2>7. ASSUME NEW d \in Dirs, Reuse(t, d) PROVE PluginInv'
    BY <2>7 DEF Reuse, Goto, pluginVars
  <2>8. ASSUME NEW d \in Dirs, Restart(t, d) PROVE PluginInv'
    BY <2>8 DEF Restart, Goto, pluginVars
  <2>9. ASSUME StartInit(t) PROVE PluginInv'
    BY <2>9 DEF StartInit, Goto, pluginVars
  <2>10. ASSUME InitEnds(t) PROVE PluginInv'
    BY <2>10 DEF InitEnds, Goto, pluginVars
  <2>11. ASSUME InitFails(t) PROVE PluginInv'
    BY <2>11 DEF InitFails, Finish, Goto, pluginVars
  <2>12. ASSUME SetPage(t) PROVE PluginInv'
    BY <2>12 DEF SetPage, Goto, pluginVars
  <2>13. ASSUME Recognized(t) PROVE PluginInv'
    BY <2>13 DEF Recognized, Finish, Goto, pluginVars
  <2>14. ASSUME RecognizeFails(t) PROVE PluginInv'
    BY <2>14 DEF RecognizeFails, Finish, Goto, pluginVars
  <2>15. ASSUME NoPlugin(t) PROVE PluginInv'
    BY <2>15 DEF NoPlugin, Finish, Goto, pluginVars
  <2>16. ASSUME LockPlugins(t) PROVE PluginInv'
    <3>1. \A u \in Threads : pc[u] \notin {"load", "open", "call"}
      BY <2>16 DEF LockPlugins
    <3>2. request[t] \in Requests
      BY <2>16 DEF LockPlugins, Goto, IInv, EngineInv
    <3>3. request[t].plugin \in Plugins
      BY <2>16, <3>2 DEF LockPlugins
    <3> QED
      BY <2>16, <3>1, <3>3 DEF LockPlugins, Goto, pluginVars
  <2>17. ASSUME PluginCached(t) PROVE PluginInv'
    BY <2>17 DEF PluginCached, Goto, pluginVars
  <2>18. ASSUME ClosePlugin(t) PROVE PluginInv'
    BY <2>18 DEF ClosePlugin, Closed, Goto, pluginVars
  <2>19. ASSUME OpenPlugin(t) PROVE PluginInv'
    BY <2>19 DEF OpenPlugin, Goto, pluginVars
  <2>20. ASSUME OpenFails(t) PROVE PluginInv'
    BY <2>20 DEF OpenFails, Finish, Goto, pluginVars
  <2>21. ASSUME CallPlugin(t) PROVE PluginInv'
    BY <2>21 DEF CallPlugin, Finish, Goto, pluginVars
  <2>22. ASSUME ThreadExits(t) PROVE PluginInv'
    BY <2>22 DEF ThreadExits, Goto, pluginVars
  <2> QED
    BY <1>2, <2>1, <2>2, <2>3, <2>4, <2>5, <2>6, <2>7, <2>8, <2>9, <2>10, <2>11, <2>12, <2>13, <2>14, <2>15, <2>16, <2>17, <2>18, <2>19, <2>20, <2>21, <2>22 DEF EngineMove
<1> QED
  BY <1>1, <1>2, NextIsMove

LEMMA InitInv == Init => IInv
<1> SUFFICES ASSUME Init PROVE IInv
  OBVIOUS
<1> USE OcrAssumption DEF Init
<1>1. TypeOK
  BY DEF TypeOK, Stages, Engines, Apis, NoEngine, NotStarted
<1>2. SilenceInv
  <2>1. Silenced = {}
    BY DEF Silenced
  <2> QED
    BY <2>1, FS_EmptySet DEF SilenceInv
<1>3. \A t \in Threads : EngineInv(t)
  BY DEF EngineInv, NoEngine, NotStarted
<1>4. PluginInv
  BY DEF PluginInv, OneLibraryOpen
<1> QED
  BY <1>1, <1>2, <1>3, <1>4 DEF IInv

\* IInv is inductive.
THEOREM Invariance == Spec => []IInv
<1>1. IInv /\ [Next]_vars => IInv'
  BY TypeStep, SilenceStep, EngineStep, PluginStep DEF IInv
<1> QED
  BY <1>1, InitInv, PTL DEF Spec

\* The variables keep their types.
THEOREM TypeCorrect == Spec => []TypeOK
<1>1. IInv => TypeOK
  BY DEF IInv
<1> QED
  BY <1>1, Invariance, PTL

\* However many threads start engines and decode images at once, standard error
\* is restored when the last of them is through.
THEOREM StderrComesBack == Spec => []StderrRestored
<1>1. IInv => StderrRestored
  BY FS_EmptySet DEF IInv, SilenceInv, StderrRestored
<1> QED
  BY <1>1, Invariance, PTL

\* Recognition runs on the engine its query asked for, and leaves no page in it.
THEOREM RightEngine == Spec => [](EngineIsTheRequested /\ NoPageKept)
<1>1. IInv => EngineIsTheRequested /\ NoPageKept
  BY DEF IInv, EngineInv, TargetFits, EngineIsTheRequested, NoPageKept
<1> QED
  BY <1>1, Invariance, PTL

\* A plugin is open, and the requested one, while it is called; no library is
\* left open but the cached one.
THEOREM RightPlugin == Spec => [](PluginIsTheRequested /\ OneLibraryOpen)
<1>1. IInv => PluginIsTheRequested /\ OneLibraryOpen
  BY OcrAssumption DEF IInv, TypeOK, PluginInv, OneLibraryOpen, PluginIsTheRequested
<1> QED
  BY <1>1, Invariance, PTL

-----------------------------------------------------------------------------
(* The invariant of BundledModel.                                          *)

Extracting == {"idle", "check", "open", "write", "rename", "remove", "init"}

ModelTypes ==
  /\ extracting \in [Callers -> Extracting]
  /\ calls \in [Callers -> Nat] /\ \A c \in Callers : calls[c] <= MaxCalls[c]
  /\ path \in Inodes \cup {NoFile} /\ tmp \in (Inodes \ {Old}) \cup {NoFile}
  /\ size \in [Inodes -> 0..Pieces] /\ written \in [Inodes -> SUBSET (1..Pieces)]
  /\ fd \in [Callers -> (Inodes \ {Old}) \cup {NoFile}] /\ offset \in [Callers -> 0..Pieces]
  /\ reused \in [Callers -> BOOLEAN] /\ whole \in [Callers -> BOOLEAN]
  /\ result \in [Callers -> {"none", "empty", "directory"}]
  /\ troubled \in BOOLEAN

\* A caller that is busy was called, has a file open while it writes, and goes
\* straight to the engine when it found the model.
CallerInv ==
  \A c \in Callers :
    /\ extracting[c] # "idle" => calls[c] > 0
    /\ reused[c] => extracting[c] \in {"idle", "init"}
    /\ extracting[c] = "write" <=> fd[c] # NoFile

\* A file ends with the last piece somebody wrote; nobody writes the old one.
FileInv == (\A i \in Inodes : written[i] \subseteq 1..size[i]) /\ size[Old] < Pieces

\* Whoever truncated a file last is still writing it from the beginning, or the
\* file is complete: later writes of others put nothing but pieces of the model.
Completing(i) ==
  \/ written[i] = 1..Pieces
  \/ \E c \in Callers : extracting[c] = "write" /\ fd[c] = i /\ 1..offset[c] \subseteq written[i]

\* Somebody has renamed an extracted file.
Renamed == path \notin {NoFile, Old}

\* Nobody gets past its rename, or finds nothing to rename, before somebody has renamed.
Waits(c) ==
  \/ extracting[c] = "idle" /\ calls[c] = 0
  \/ extracting[c] \in {"check", "open"}
  \/ extracting[c] \in {"write", "rename"} /\ tmp # NoFile

RaceInv ==
  ~troubled =>
    /\ \A i \in {path, tmp} \ {NoFile, Old} : Completing(i)
    /\ Renamed \/ \A c \in Callers : Waits(c)

\* What a caller has left behind that nobody else disturbed: no file has a hole,
\* so one of the right size is whole.
Lone(c) == \A d \in Callers \ {c} : calls[d] = 0
LoneInv(c) ==
  Lone(c) =>
    /\ \A i \in Inodes : written[i] = 1..size[i]
    /\ extracting[c] = "write" => size[fd[c]] = offset[c]
    /\ extracting[c] = "init" /\ reused[c] => RightSize
    /\ extracting[c] # "idle" => result[c] = "none"
    /\ result[c] = "directory" /\ reused[c] => whole[c]

ModelInv == ModelTypes /\ CallerInv /\ FileInv /\ RaceInv /\ \A c \in Callers : LoneInv(c)

-----------------------------------------------------------------------------
(* The invariant of MissingFonts: PopplerMutex is held from the reset of   *)
(* the flag to its last reading, so only the reader's own drawing, or a    *)
(* report that makes it refuse, can have come in between.                  *)

Resting == {"idle", "taken", "refused"}
Holding == {"reset", "draw", "check", "reset again", "draw again", "check again"}

FontInv ==
  /\ step \in [Redactors -> Resting \cup Holding]
  /\ poppler \in Redactors \cup {Nobody}
  /\ flag \in BOOLEAN /\ blank \in [Redactors -> BOOLEAN]
  /\ \A r \in Redactors :
       /\ step[r] \in Holding <=> poppler = r
       /\ step[r] \in {"check", "check again"} /\ blank[r] => flag
       /\ step[r] = "taken" => ~blank[r]

-----------------------------------------------------------------------------
(* MissingFonts.                                                           *)

LEMMA FontInvInit == FontInit => FontInv
  BY FontAssumption DEF FontInit, FontInv, Resting, Holding

LEMMA FontInvStep == FontInv /\ [FontNext]_fontVars => FontInv'
<1> SUFFICES ASSUME FontInv, [FontNext]_fontVars PROVE FontInv'
  OBVIOUS
<1> USE FontAssumption DEF FontInv, Resting, Holding, Step
<1>1. ASSUME NEW r \in Redactors, Lock(r) PROVE FontInv'
  BY <1>1 DEF Lock
<1>2. ASSUME NEW r \in Redactors, ResetPopplerMissingDisplayFont(r) PROVE FontInv'
  BY <1>2 DEF ResetPopplerMissingDisplayFont
<1>3. ASSUME NEW r \in Redactors, Draw(r) PROVE FontInv'
  BY <1>3 DEF Draw
<1>4. ASSUME NEW r \in Redactors, Accept(r) PROVE FontInv'
  BY <1>4 DEF Accept
<1>5. ASSUME NEW r \in Redactors, Retry(r) PROVE FontInv'
  BY <1>5 DEF Retry
<1>6. ASSUME NEW r \in Redactors, Refuse(r) PROVE FontInv'
  BY <1>6 DEF Refuse
<1>7. ASSUME NEW r \in Redactors, Again(r) PROVE FontInv'
  BY <1>7 DEF Again
<1>8. ASSUME NEW d, DrawOther(d) \/ ReadUnlocked(d) PROVE FontInv'
  BY <1>8 DEF DrawOther, ReadUnlocked
<1>9. CASE UNCHANGED fontVars
  BY <1>9 DEF fontVars
<1> QED
  BY <1>1, <1>2, <1>3, <1>4, <1>5, <1>6, <1>7, <1>8, <1>9 DEF FontNext

\* A redacted page that is taken was drawn with all of its fonts, whatever any
\* number of other threads report to the flag meanwhile (RenderRedactedPage).
THEOREM FontsArePresent == FontSpec => []FontsPresent
<1>1. FontInv => FontsPresent
  BY DEF FontInv, FontsPresent
<1> QED
  BY <1>1, FontInvInit, FontInvStep, PTL DEF FontSpec

-----------------------------------------------------------------------------
(* BundledModel: types, callers and files.                                 *)

LEMMA InodeFacts ==
  /\ Old \in Inodes /\ NoFile \notin Inodes
  /\ \A c \in Callers : \A n \in 1..MaxCalls[c] : <<c, n>> \in Inodes \ {Old}
  BY ModelAssumption DEF Inodes

CallerStep(c) ==
  \/ Call(c) \/ Check(c) \/ Open(c) \/ Write(c) \/ Close(c) \/ CloseFails(c)
  \/ WriteFails(c) \/ Rename(c) \/ Remove(c) \/ InitEngine(c)

LEMMA StepsOf ==
  ModelNext <=> (\E c \in Callers : CallerStep(c)) \/ \E p \in {Process[c] : c \in Callers} : Die(p)
  BY DEF ModelNext, CallerStep

\* The file that a caller writes or creates.
LEMMA OpenedFile ==
  ASSUME ModelInv, NEW c \in Callers
  PROVE  /\ extracting[c] = "write" => fd[c] \in Inodes \ {Old}
         /\ extracting[c] = "open" => (IF tmp = NoFile THEN <<c, calls[c]>> ELSE tmp) \in Inodes \ {Old}
<1>1. extracting[c] = "open" => calls[c] \in 1..MaxCalls[c]
  BY ModelAssumption DEF ModelInv, ModelTypes, CallerInv
<1> QED
  BY <1>1, InodeFacts DEF ModelInv, ModelTypes, CallerInv

LEMMA TypesKept ==
  ASSUME ModelInv, NEW c \in Callers, CallerStep(c)
  PROVE  ModelTypes' /\ CallerInv'
<1> USE DEF ModelInv, CallerInv
<1>0. ModelTypes /\ Pieces \in Nat \ {0} /\ MaxCalls[c] \in Nat
  BY ModelAssumption
<1>1. CASE Call(c)
  BY <1>0, <1>1, ModelAssumption DEF Call, Advance, ModelTypes, Extracting, fileVars
<1>2. CASE Check(c)
  BY <1>0, <1>2 DEF Check, Advance, ModelTypes, Extracting, fileVars, RightSize
<1>3. CASE Open(c)
  <2> DEFINE i == IF tmp = NoFile THEN <<c, calls[c]>> ELSE tmp
  <2>1. i \in Inodes \ {Old} /\ i # NoFile
    BY <1>3, OpenedFile, InodeFacts DEF Open, Advance
  <2>2. /\ extracting[c] = "open" /\ extracting' = [extracting EXCEPT ![c] = "write"] /\ tmp' = i
        /\ size' = [size EXCEPT ![i] = 0] /\ written' = [written EXCEPT ![i] = {}]
        /\ fd' = [fd EXCEPT ![c] = i] /\ offset' = [offset EXCEPT ![c] = 0]
        /\ UNCHANGED <<calls, path, reused, result, whole, troubled>>
    BY <1>3 DEF Open, Advance
  <2> QED
    BY <1>0, <2>1, <2>2 DEF ModelTypes, Extracting
<1>4. CASE Write(c)
  <2> DEFINE i == fd[c]
             at == offset[c] + 1
  <2>1. /\ extracting[c] = "write" /\ at <= Pieces /\ size' = [size EXCEPT ![i] = Larger(@, at)]
        /\ written' = [written EXCEPT ![i] = @ \cup {at}] /\ offset' = [offset EXCEPT ![c] = at]
        /\ UNCHANGED <<extracting, calls, path, tmp, fd, reused, result, whole, troubled>>
    BY <1>4 DEF Write
  <2>2. i \in Inodes /\ at \in 1..Pieces
    BY <1>0, <2>1, OpenedFile DEF ModelTypes
  <2>3. Larger(size[i], at) \in 0..Pieces /\ written[i] \cup {at} \subseteq 1..Pieces
    BY <1>0, <2>2 DEF ModelTypes, Larger
  <2> QED
    BY <1>0, <2>1, <2>2, <2>3 DEF ModelTypes
<1>5. CASE Close(c) \/ CloseFails(c) \/ WriteFails(c)
  <2>1. PICK next \in {"rename", "idle"} :
          /\ extracting' = [extracting EXCEPT ![c] = next] /\ fd' = [fd EXCEPT ![c] = NoFile]
          /\ troubled' \in {troubled, TRUE} /\ result' \in {result, [result EXCEPT ![c] = "empty"]}
          /\ UNCHANGED <<calls, fileVars, offset, reused, whole>>
    BY <1>5 DEF Close, CloseFails, WriteFails, Return, Advance
  <2>2. ModelTypes'
    BY <1>0, <2>1 DEF ModelTypes, Extracting, fileVars
  <2>3. \A d \in Callers \ {c} : extracting'[d] = extracting[d] /\ fd'[d] = fd[d]
    BY <1>0, <2>1 DEF ModelTypes
  <2>4. extracting'[c] = next /\ fd'[c] = NoFile /\ UNCHANGED <<calls, reused>>
    BY <1>0, <2>1 DEF ModelTypes
  <2>5. (calls'[c] > 0 \/ extracting'[c] = "idle") /\ ~reused'[c]
    BY <1>0, <1>5, <2>4 DEF Close, CloseFails, WriteFails, Return, Advance, ModelTypes
  <2>6. CallerInv'
    BY <2>3, <2>4, <2>5
  <2> QED
    BY <2>2, <2>6
<1>6. CASE Rename(c)
  BY <1>0, <1>6 DEF Rename, Advance, ModelTypes, Extracting
<1>7. CASE Remove(c) \/ InitEngine(c)
  BY <1>0, <1>7 DEF Remove, InitEngine, Return, Advance, ModelTypes, Extracting, fileVars, Whole
<1> QED
  BY <1>1, <1>2, <1>3, <1>4, <1>5, <1>6, <1>7 DEF CallerStep

LEMMA FilesKept ==
  ASSUME ModelInv, NEW c \in Callers, CallerStep(c)
  PROVE  FileInv'
<1>0. ModelTypes /\ FileInv /\ Pieces \in Nat \ {0}
  BY ModelAssumption DEF ModelInv
<1>1. CASE Open(c)
  <2> DEFINE i == IF tmp = NoFile THEN <<c, calls[c]>> ELSE tmp
  <2>1. i \in Inodes \ {Old}
    BY <1>1, OpenedFile DEF Open, Advance
  <2>2. size' = [size EXCEPT ![i] = 0] /\ written' = [written EXCEPT ![i] = {}]
    BY <1>1 DEF Open
  <2> QED
    BY <1>0, <2>1, <2>2, InodeFacts DEF ModelTypes, FileInv
<1>2. CASE Write(c)
  <2> DEFINE i == fd[c]
             at == offset[c] + 1
  <2>1. /\ extracting[c] = "write" /\ at <= Pieces
        /\ size' = [size EXCEPT ![i] = Larger(@, at)] /\ written' = [written EXCEPT ![i] = @ \cup {at}]
    BY <1>2 DEF Write
  <2>2. i \in Inodes \ {Old} /\ at \in 1..Pieces /\ size[i] \in 0..Pieces
    <3>1. i \in Inodes \ {Old}
      BY <2>1, OpenedFile
    <3>2. offset[c] \in 0..Pieces /\ size[i] \in 0..Pieces
      BY <1>0, <3>1 DEF ModelTypes
    <3> QED
      BY <1>0, <2>1, <3>1, <3>2
  <2>3. written[i] \cup {at} \subseteq 1..Larger(size[i], at)
    BY <1>0, <2>2 DEF FileInv, Larger
  <2>4. \A j \in Inodes \ {i} : size'[j] = size[j] /\ written'[j] = written[j]
    BY <1>0, <2>1 DEF ModelTypes
  <2>5. written'[i] \subseteq 1..size'[i]
    BY <1>0, <2>1, <2>2, <2>3 DEF ModelTypes
  <2> QED
    BY <1>0, <2>2, <2>4, <2>5, InodeFacts DEF FileInv
<1>3. CASE ~(Open(c) \/ Write(c))
  <2>1. UNCHANGED <<size, written>>
    BY <1>3 DEF CallerStep, Call, Check, Close, CloseFails, WriteFails, Rename, Remove, InitEngine, fileVars
  <2> QED
    BY <1>0, <2>1 DEF FileInv
<1> QED
  BY <1>1, <1>2, <1>3

-----------------------------------------------------------------------------
(* BundledModel: extractions that race.                                    *)

\* Without an error, a file stays complete, or whoever truncated it last goes on
\* writing it until it is.
LEMMA CompletingKept ==
  ASSUME ModelInv, NEW c \in Callers, CallerStep(c), ~troubled', NEW i \in Inodes, Completing(i)
  PROVE  Completing(i)'
<1>0. ModelTypes /\ Pieces \in Nat \ {0}
  BY ModelAssumption DEF ModelInv
<1>1. CASE Open(c)
  <2> DEFINE new == IF tmp = NoFile THEN <<c, calls[c]>> ELSE tmp
  <2>1. /\ extracting[c] = "open" /\ extracting' = [extracting EXCEPT ![c] = "write"]
        /\ written' = [written EXCEPT ![new] = {}]
        /\ fd' = [fd EXCEPT ![c] = new] /\ offset' = [offset EXCEPT ![c] = 0]
    BY <1>1 DEF Open, Advance
  <2>2. CASE i = new
    <3>1. extracting'[c] = "write" /\ fd'[c] = i /\ 1..offset'[c] \subseteq written'[i]
      BY <1>0, <2>1, <2>2 DEF ModelTypes
    <3> QED
      BY <3>1 DEF Completing
  <2>3. CASE i # new
    BY <1>0, <2>1, <2>3 DEF ModelTypes, Completing
  <2> QED
    BY <2>2, <2>3
<1>2. CASE Write(c)
  <2> DEFINE at == offset[c] + 1
  <2>1. /\ at <= Pieces /\ offset' = [offset EXCEPT ![c] = at]
        /\ written' = [written EXCEPT ![fd[c]] = @ \cup {at}]
        /\ UNCHANGED <<extracting, fd>>
    BY <1>2 DEF Write
  <2>2. offset[c] \in Nat /\ at \in 1..Pieces /\ written[i] \subseteq 1..Pieces /\ written[i] \subseteq written'[i]
    BY <1>0, <2>1 DEF ModelTypes
  <2>3. CASE written[i] = 1..Pieces
    <3>1. written'[i] \subseteq written[i] \cup {at}
      BY <1>0, <2>1 DEF ModelTypes
    <3> QED
      BY <2>2, <2>3, <3>1 DEF Completing
  <2>4. ASSUME NEW d \in Callers, extracting[d] = "write", fd[d] = i, 1..offset[d] \subseteq written[i]
        PROVE  1..offset'[d] \subseteq written'[i]
    <3>1. CASE d = c
      <4>1. written'[i] = written[i] \cup {at} /\ offset'[d] = at
        BY <1>0, <2>1, <2>4, <3>1 DEF ModelTypes
      <4>2. 1..at \subseteq 1..offset[c] \cup {at}
        BY <2>2
      <4> QED
        BY <2>4, <3>1, <4>1, <4>2
    <3>2. CASE d # c
      BY <1>0, <2>1, <2>2, <2>4, <3>2 DEF ModelTypes
    <3> QED
      BY <3>1, <3>2
  <2> QED
    BY <2>1, <2>3, <2>4 DEF Completing
<1>3. CASE Close(c)
  <2>1. /\ offset[c] = Pieces /\ extracting' = [extracting EXCEPT ![c] = "rename"]
        /\ fd' = [fd EXCEPT ![c] = NoFile] /\ UNCHANGED <<written, offset>>
    BY <1>3 DEF Close, Advance, fileVars
  <2>2. CASE written[i] = 1..Pieces
    BY <2>1, <2>2 DEF Completing
  <2>3. ASSUME NEW d \in Callers, extracting[d] = "write", fd[d] = i, 1..offset[d] \subseteq written[i]
        PROVE  Completing(i)'
    <3>1. CASE d = c
      <4>1. written[i] = 1..Pieces
        BY <1>0, <2>1, <2>3, <3>1 DEF ModelTypes
      <4> QED
        BY <2>2, <4>1
    <3>2. CASE d # c
      BY <1>0, <2>1, <2>3, <3>2 DEF ModelTypes, Completing
    <3> QED
      BY <3>1, <3>2
  <2> QED
    BY <2>2, <2>3 DEF Completing
<1>4. CASE Call(c) \/ Check(c) \/ Rename(c) \/ Remove(c) \/ InitEngine(c)
  <2>1. /\ extracting[c] # "write" /\ \A d \in Callers \ {c} : extracting'[d] = extracting[d]
        /\ UNCHANGED <<written, fd, offset>>
    BY <1>0, <1>4 DEF Call, Check, Rename, Remove, InitEngine, Return, Advance, fileVars, ModelTypes
  <2> QED
    BY <2>1 DEF Completing
<1> QED
  BY <1>1, <1>2, <1>3, <1>4 DEF CallerStep, CloseFails, WriteFails

LEMMA RaceKept ==
  ASSUME ModelInv, NEW c \in Callers, CallerStep(c)
  PROVE  RaceInv'
<1> SUFFICES ASSUME ~troubled'
             PROVE  /\ \A i \in {path', tmp'} \ {NoFile, Old} : Completing(i)'
                    /\ Renamed' \/ \A d \in Callers : Waits(d)'
  BY DEF RaceInv
<1>0. /\ ModelTypes /\ Pieces \in Nat \ {0} /\ FileInv /\ ~troubled
      /\ \A i \in {path, tmp} \ {NoFile, Old} : Completing(i)
      /\ Renamed \/ \A d \in Callers : Waits(d)
  <2>1. ~troubled
    BY DEF CallerStep, Call, Check, Open, Write, Close, CloseFails, WriteFails, Rename, Remove, InitEngine
  <2> QED
    BY <2>1, ModelAssumption DEF ModelInv, RaceInv
<1>1. ASSUME NEW i \in {path', tmp'} \ {NoFile, Old}
      PROVE  Completing(i)'
  <2>1. CASE i \in {path, tmp}
    <3>1. i \in Inodes
      BY <1>1, <2>1, <1>0 DEF ModelTypes
    <3> QED
      BY <1>0, <1>1, <2>1, <3>1, CompletingKept
  <2>2. CASE i \notin {path, tmp}
    <3>1. Open(c) /\ i = tmp'
      BY <1>1, <2>2 DEF CallerStep, Call, Check, Open, Write, Close, CloseFails, WriteFails, Rename, Remove,
        InitEngine, fileVars
    <3>2. i \in Inodes
      BY <3>1, OpenedFile DEF Open, Advance
    <3>3. /\ extracting' = [extracting EXCEPT ![c] = "write"] /\ written' = [written EXCEPT ![i] = {}]
          /\ fd' = [fd EXCEPT ![c] = i] /\ offset' = [offset EXCEPT ![c] = 0]
      BY <3>1 DEF Open, Advance
    <3>4. extracting'[c] = "write" /\ fd'[c] = i /\ 1..offset'[c] \subseteq written'[i]
      BY <1>0, <3>2, <3>3 DEF ModelTypes
    <3> QED
      BY <3>4 DEF Completing
  <2> QED
    BY <2>1, <2>2
<1>2. CASE Renamed
  <2>1. path' \in {path, tmp} /\ path' # NoFile
    BY <1>2 DEF Renamed, CallerStep, Call, Check, Open, Write, Close, CloseFails, WriteFails, Rename, Remove,
      InitEngine, fileVars
  <2>2. Renamed'
    BY <1>0, <1>2, <2>1 DEF Renamed, ModelTypes
  <2> QED
    BY <1>1, <2>2
<1>3. CASE ~Renamed /\ \A d \in Callers : Waits(d)
  <2>1. ~RightSize
    BY <1>0, <1>3 DEF Renamed, RightSize, FileInv
  <2>2. CASE Rename(c)
    <3>1. path' = tmp /\ tmp # NoFile
      BY <1>3, <2>2 DEF Waits, Rename, Advance
    <3>2. Renamed'
      BY <1>0, <3>1 DEF Renamed, ModelTypes
    <3> QED
      BY <1>1, <3>2
  <2>3. CASE Open(c)
    <3>1. tmp' \in Inodes /\ tmp' # NoFile /\ extracting' = [extracting EXCEPT ![c] = "write"] /\ calls' = calls
      BY <2>3, OpenedFile, InodeFacts DEF Open, Advance
    <3>2. \A d \in Callers : Waits(d)'
      BY <1>0, <1>3, <3>1 DEF Waits, ModelTypes
    <3> QED
      BY <1>1, <3>2
  <2>4. CASE Call(c) \/ Check(c) \/ Write(c) \/ Close(c)
    <3>1. /\ tmp' = tmp /\ \A d \in Callers \ {c} : extracting'[d] = extracting[d] /\ calls'[d] = calls[d]
          /\ \/ extracting'[c] \in {"check", "open"}
             \/ extracting[c] = "write" /\ extracting'[c] \in {"write", "rename"}
      BY <1>0, <2>1, <2>4 DEF Call, Check, Write, Close, Advance, fileVars, ModelTypes
    <3>2. \A d \in Callers : Waits(d)'
      BY <1>3, <3>1 DEF Waits
    <3> QED
      BY <1>1, <3>2
  <2> QED
    BY <1>3, <2>2, <2>3, <2>4 DEF CallerStep, CloseFails, WriteFails, Remove, InitEngine, Return, Advance, Waits
<1> QED
  BY <1>0, <1>2, <1>3

-----------------------------------------------------------------------------
(* BundledModel: a caller that nobody disturbed.                           *)

LEMMA CallsGrow ==
  ASSUME ModelInv, NEW c \in Callers, CallerStep(c)
  PROVE  calls'[c] > 0 /\ \A d \in Callers \ {c} : calls'[d] = calls[d]
<1>0. ModelTypes /\ CallerInv
  BY DEF ModelInv
<1>1. CASE Call(c)
  BY <1>0, <1>1 DEF Call, ModelTypes
<1>2. CASE ~Call(c)
  <2>1. calls' = calls /\ extracting[c] # "idle"
    BY <1>2 DEF CallerStep, Check, Open, Write, Close, CloseFails, WriteFails, Rename, Remove, InitEngine,
      Return, Advance
  <2> QED
    BY <1>0, <2>1 DEF CallerInv
<1> QED
  BY <1>1, <1>2

LEMMA LoneKept ==
  ASSUME ModelInv, NEW c \in Callers, CallerStep(c)
  PROVE  LoneInv(c)'
<1> SUFFICES ASSUME Lone(c)' PROVE LoneInv(c)'
  BY DEF LoneInv
<1>0. /\ ModelTypes /\ Pieces \in Nat \ {0} /\ (reused[c] => extracting[c] \in {"idle", "init"})
      /\ \A i \in Inodes : written[i] = 1..size[i]
      /\ extracting[c] = "write" => size[fd[c]] = offset[c]
      /\ extracting[c] = "init" /\ reused[c] => RightSize
      /\ extracting[c] # "idle" => result[c] = "none"
      /\ result[c] = "directory" /\ reused[c] => whole[c]
  <2>1. Lone(c)
    BY CallsGrow DEF Lone
  <2> QED
    BY <2>1, ModelAssumption DEF ModelInv, CallerInv, LoneInv
<1>1. CASE Call(c)
  <2>1. /\ UNCHANGED <<size, written>> /\ extracting'[c] = "check" /\ result'[c] = "none"
    BY <1>0, <1>1 DEF Call, Advance, fileVars, ModelTypes
  <2> QED
    BY <1>0, <2>1 DEF LoneInv
<1>2. CASE Check(c)
  <2>1. /\ UNCHANGED <<fileVars, result>> /\ extracting'[c] \in {"init", "open"} /\ reused'[c] = RightSize
        /\ extracting[c] = "check"
    BY <1>0, <1>2 DEF Check, Advance, fileVars, ModelTypes
  <2> QED
    BY <1>0, <2>1 DEF LoneInv, RightSize, fileVars
<1>3. CASE Open(c)
  <2> DEFINE i == IF tmp = NoFile THEN <<c, calls[c]>> ELSE tmp
  <2>1. i \in Inodes
    BY <1>3, OpenedFile DEF Open, Advance
  <2>2. /\ extracting[c] = "open" /\ extracting' = [extracting EXCEPT ![c] = "write"]
        /\ size' = [size EXCEPT ![i] = 0] /\ written' = [written EXCEPT ![i] = {}]
        /\ fd' = [fd EXCEPT ![c] = i] /\ offset' = [offset EXCEPT ![c] = 0]
        /\ UNCHANGED <<reused, result>>
    BY <1>3 DEF Open, Advance
  <2>3. extracting'[c] = "write" /\ size'[fd'[c]] = offset'[c]
    BY <1>0, <2>1, <2>2 DEF ModelTypes
  <2>4. \A j \in Inodes : written'[j] = 1..size'[j]
    BY <1>0, <2>1, <2>2 DEF ModelTypes
  <2> QED
    BY <1>0, <2>2, <2>3, <2>4 DEF LoneInv
<1>4. CASE Write(c)
  <2> DEFINE i == fd[c]
             at == offset[c] + 1
  <2>1. /\ extracting[c] = "write" /\ size' = [size EXCEPT ![i] = Larger(@, at)]
        /\ written' = [written EXCEPT ![i] = @ \cup {at}] /\ offset' = [offset EXCEPT ![c] = at]
        /\ UNCHANGED <<extracting, fd, reused, result>>
    BY <1>4 DEF Write
  <2>2. i \in Inodes /\ offset[c] \in Nat
    <3>1. i \in Inodes
      BY <2>1, OpenedFile
    <3> QED
      BY <1>0, <3>1 DEF ModelTypes
  <2>3. size[i] = offset[c] /\ Larger(size[i], at) = at
    BY <1>0, <2>1, <2>2 DEF Larger
  <2>4. size'[i] = at /\ offset'[c] = at /\ written'[i] = 1..offset[c] \cup {at}
    BY <1>0, <2>1, <2>2, <2>3 DEF ModelTypes
  <2>5. 1..offset[c] \cup {at} = 1..at
    BY <2>2
  <2>6. \A j \in Inodes \ {i} : written'[j] = written[j] /\ size'[j] = size[j]
    BY <1>0, <2>1 DEF ModelTypes
  <2>7. \A j \in Inodes : written'[j] = 1..size'[j]
    BY <1>0, <2>4, <2>5, <2>6
  <2> QED
    BY <1>0, <2>1, <2>4, <2>7 DEF LoneInv
<1>5. CASE Close(c) \/ CloseFails(c) \/ WriteFails(c) \/ Rename(c) \/ Remove(c)
  <2>1. /\ UNCHANGED <<size, written, reused>> /\ extracting[c] \in {"open", "write", "rename", "remove"}
        /\ \/ extracting'[c] = "idle" /\ result'[c] = "empty"
           \/ extracting'[c] \in {"rename", "remove", "init"} /\ result' = result
    BY <1>0, <1>5 DEF Close, CloseFails, WriteFails, Rename, Remove, Return, Advance, fileVars, ModelTypes
  <2> QED
    BY <1>0, <2>1 DEF LoneInv
<1>6. CASE InitEngine(c)
  <2>1. /\ UNCHANGED <<fileVars, reused>> /\ extracting[c] = "init" /\ extracting'[c] = "idle"
        /\ whole'[c] = Whole(path)
    BY <1>0, <1>6 DEF InitEngine, Return, Advance, ModelTypes
  <2>2. reused[c] => Whole(path)
    BY <1>0, <2>1 DEF RightSize, Whole, ModelTypes
  <2> QED
    BY <1>0, <2>1, <2>2 DEF LoneInv, fileVars
<1> QED
  BY <1>1, <1>2, <1>3, <1>4, <1>5, <1>6 DEF CallerStep

-----------------------------------------------------------------------------
(* BundledModel: a process dies; the invariant and what follows from it.   *)

LEMMA DeathKeeps ==
  ASSUME ModelInv, NEW p, Die(p)
  PROVE  ModelInv'
<1>0. /\ ModelTypes /\ CallerInv /\ FileInv /\ \A c \in Callers : LoneInv(c)
      /\ troubled' = TRUE /\ UNCHANGED <<calls, path, tmp, size, written, offset, reused, result, whole>>
  BY DEF ModelInv, Die, fileVars
<1>1. /\ extracting' \in [Callers -> Extracting] /\ fd' \in [Callers -> (Inodes \ {Old}) \cup {NoFile}]
      /\ \A c \in Callers : \/ extracting'[c] = "idle" /\ fd'[c] = NoFile
                            \/ extracting'[c] = extracting[c] /\ fd'[c] = fd[c]
  <2> DEFINE Gone == {c \in Callers : Process[c] = p /\ extracting[c] # "idle"}
  <2>1. /\ extracting' = [c \in Callers |-> IF c \in Gone THEN "idle" ELSE extracting[c]]
        /\ fd' = [c \in Callers |-> IF c \in Gone THEN NoFile ELSE fd[c]]
    BY DEF Die
  <2> HIDE DEF Gone
  <2> QED
    BY <1>0, <2>1 DEF ModelTypes, Extracting
<1>2. ModelTypes' /\ FileInv' /\ RaceInv'
  BY <1>0, <1>1 DEF ModelTypes, FileInv, RaceInv
<1>3. CallerInv'
  BY <1>0, <1>1 DEF CallerInv
<1>4. ASSUME NEW c \in Callers PROVE LoneInv(c)'
  BY <1>0, <1>1 DEF LoneInv, Lone, RightSize
<1> QED
  BY <1>2, <1>3, <1>4 DEF ModelInv

LEMMA ModelInvInit == ModelInit => ModelInv
<1> SUFFICES ASSUME ModelInit PROVE ModelInv
  OBVIOUS
<1>1. PICK n \in 0..Pieces - 1 : size = [i \in Inodes |-> IF i = Old THEN n ELSE 0]
  BY DEF ModelInit
<1>2. n \in 0..Pieces /\ n < Pieces /\ Pieces \in Nat
  BY <1>1, ModelAssumption
<1>3. size \in [Inodes -> 0..Pieces] /\ size[Old] < Pieces
  BY <1>1, <1>2, InodeFacts
<1>4. written \in [Inodes -> SUBSET (1..Pieces)] /\ \A i \in Inodes : written[i] = 1..size[i]
  BY <1>2, <1>3 DEF ModelInit
<1>5. ModelTypes
  <2>1. path \in Inodes \cup {NoFile} /\ tmp \in (Inodes \ {Old}) \cup {NoFile}
    BY InodeFacts DEF ModelInit
  <2>2. calls \in [Callers -> Nat] /\ \A c \in Callers : calls[c] <= MaxCalls[c]
    BY ModelAssumption DEF ModelInit
  <2>3. offset \in [Callers -> 0..Pieces]
    BY <1>2 DEF ModelInit
  <2> QED
    BY <1>3, <1>4, <2>1, <2>2, <2>3 DEF ModelInit, ModelTypes, Extracting
<1> QED
  BY <1>3, <1>4, <1>5 DEF ModelInit, ModelInv, CallerInv, FileInv, RaceInv, LoneInv, Renamed, Waits

LEMMA ModelInvStep == ModelInv /\ [ModelNext]_modelVars => ModelInv'
<1> SUFFICES ASSUME ModelInv, [ModelNext]_modelVars PROVE ModelInv'
  OBVIOUS
<1>1. ASSUME NEW c \in Callers, CallerStep(c) PROVE ModelInv'
  <2>1. ASSUME NEW d \in Callers \ {c} PROVE LoneInv(d)'
    <3>1. ~Lone(d)'
      BY <1>1, <2>1, CallsGrow DEF Lone
    <3> QED
      BY <3>1 DEF LoneInv
  <2> QED
    BY <1>1, <2>1, TypesKept, FilesKept, RaceKept, LoneKept DEF ModelInv
<1>2. CASE UNCHANGED modelVars
  BY <1>2 DEF modelVars, fileVars, ModelInv, ModelTypes, CallerInv, FileInv, RaceInv, LoneInv, Lone, Renamed,
    Waits, Completing, RightSize
<1> QED
  BY <1>1, <1>2, DeathKeeps, StepsOf

\* Extractions that race without an error leave a whole model, and a lone caller
\* takes nothing else for one after any errors and crashes (WriteFileIfNeeded).
THEOREM ModelIsWhole == ModelSpec => []NoPartialModel
<1>1. ASSUME ModelInv PROVE WholeWhenQuiet
  <2> SUFFICES ASSUME \A c \in Callers : extracting[c] = "idle", NEW d \in Callers, calls[d] > 0, ~troubled
               PROVE  path # NoFile /\ Whole(path)
    BY DEF WholeWhenQuiet
  <2>1. path \in Inodes \ {Old} /\ path # NoFile
    BY <1>1 DEF ModelInv, ModelTypes, RaceInv, Waits, Renamed
  <2>2. written[path] = 1..Pieces
    BY <1>1, <2>1 DEF ModelInv, RaceInv, Completing
  <2>3. Pieces \in 1..size[path] /\ size[path] \in 0..Pieces
    BY <1>1, <2>1, <2>2, ModelAssumption DEF ModelInv, ModelTypes, FileInv
  <2> QED
    BY <2>1, <2>2, <2>3 DEF Whole
<1>2. ModelInv => PartialNotReused
  BY DEF ModelInv, LoneInv, Lone, PartialNotReused
<1>3. ModelInv => NoPartialModel
  BY <1>1, <1>2 DEF NoPartialModel
<1> QED
  BY <1>3, ModelInvInit, ModelInvStep, PTL DEF ModelSpec

\* Whatever races, fails or dies, no step takes the model away from an engine that
\* found it (comment at ocr_ops.cpp:500).
THEOREM ModelIsNeverRemoved == ModelSpec => ModelStays
<1>1. [ModelNext]_modelVars => [path # NoFile => path' # NoFile]_modelVars
  BY DEF ModelNext, Call, Check, Open, Write, Close, CloseFails, WriteFails, Rename, Remove, InitEngine, Die,
    fileVars
<1> QED
  BY <1>1, PTL DEF ModelSpec, ModelStays
=============================================================================
