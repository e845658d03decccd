--------------------------- MODULE PageScanProofs ---------------------------
(***************************************************************************)
(* Theorems of PageScan for any number of threads, files and pages. The    *)
(* argument: IInv (PageScanInv) is inductive. Each lemma below shows that  *)
(* every step preserves one part of it, for one thread or file at a time,  *)
(* from the parts it depends on; the steps that cannot disturb the part    *)
(* are collected in its last two steps. InductiveStep puts them together.  *)
(***************************************************************************)
EXTENDS PageScanInv, TLAPS

\* The page range of a file is a range of its pages, and it is the range
\* the options ask for.
LEMMA RangeFacts ==
  ASSUME NEW f \in Files
  PROVE  /\ FirstOf(f) \in Nat /\ LastOf(f) \in Nat
         /\ FirstOf(f) <= LastOf(f) /\ LastOf(f) <= PageCount[f]
  BY ScanAssumption DEF Files, FirstOf, LastOf, FirstOption

LEMMA WantedRange ==
  ASSUME NEW f \in Files
  PROVE  Promise!Wanted(f) = { p \in 0..(PageCount[f] - 1) : FirstOf(f) <= p /\ p < LastOf(f) }
  BY ScanAssumption DEF Files, FirstOf, LastOf, FirstOption, Promise!Wanted

\* The steps of the specification, one disjunct per action.
LEMMA ActionCases ==
  ASSUME [Next]_vars
  PROVE  \/ Interrupt
         \/ \E f \in Files : OpenFile(f)
         \/ \E f \in Files : OpenInterrupted(f)
         \/ \E t \in IoThreads, f \in Files : ScheduleIO(t, f)
         \/ \E t \in Threads : LoadCheck(t)
         \/ \E t \in Threads : LoadAlready(t)
         \/ \E t \in Threads : LoadAcquire(t)
         \/ \E t \in Threads : ReadHandle(t)
         \/ \E t \in Threads : LoadFinish(t)
         \/ \E t \in Threads : Throw(t)
         \/ \E w \in Workers : AdmitScan(w)
         \/ \E w \in Workers : RefuseScan(w)
         \/ \E w \in Workers : Retire(w)
         \/ \E w \in Workers : InitDecode(w)
         \/ \E w \in Workers : DecodeInterrupted(w)
         \/ \E w \in Workers : DecodeUnloaded(w)
         \/ \E w \in Workers : DecodeLoaded(w)
         \/ \E w \in Workers : LockSlot(w)
         \/ \E w \in Workers : LockSlotLoaded(w)
         \/ \E w \in Workers : LoadSlot(w)
         \/ \E w \in Workers : LoadSlotFails(w)
         \/ \E w \in Workers : PublishSlot(w)
         \/ \E w \in Workers : PublishFailure(w)
         \/ \E w \in Workers : ClaimCheck(w)
         \/ \E w \in Workers : ClaimFetch(w)
         \/ \E w \in Workers : ProcessPage(w)
         \/ \E w \in Workers : PageFails(w)
         \/ \E w \in Workers : ReturnChunk(w)
         \/ Finish
         \/ UNCHANGED vars
  BY DEF Next, IoStep, WorkerStep, LoadInput, ReadPdfScan, Stopped, Threads

-----------------------------------------------------------------------------
(* Type correctness, one lemma per group of variables.                     *)

LEMMA InputTypesStep ==
  ASSUME InputTypes, [Next]_vars
  PROVE  InputTypes'
<1> USE DEF InputTypes, queryVars, inputVars, claimVars, slotVars, localVars
<1>1. ASSUME NEW f \in Files, OpenFile(f) PROVE InputTypes'
  BY <1>1 DEF OpenFile
<1>2. ASSUME NEW t \in Threads, LoadAcquire(t) PROVE InputTypes'
  BY <1>2 DEF LoadAcquire, Goto
<1>3. ASSUME NEW t \in Threads, ReadHandle(t) PROVE InputTypes'
  BY <1>3 DEF ReadHandle, Goto
<1>4. ASSUME NEW t \in Threads, LoadFinish(t) PROVE InputTypes'
  BY <1>4 DEF LoadFinish, Raise, Goto, AfterLoad
<1>5. CASE UNCHANGED <<opened, inputError, inputLoaded, inputMutex>>
  BY <1>5
<1> HIDE DEF InputTypes
<1> QED BY <1>1, <1>2, <1>3, <1>4, <1>5, ActionCases
    DEF Interrupt, OpenInterrupted, ScheduleIO, LoadCheck, LoadAlready, Throw,
        AdmitScan, RefuseScan, Retire, InitDecode, DecodeInterrupted, DecodeUnloaded,
        DecodeLoaded, LockSlot, LockSlotLoaded, LoadSlot, LoadSlotFails, PublishSlot,
        PublishFailure, ClaimCheck, ClaimFetch, ProcessPage, PageFails, ReturnChunk,
        Finish, ReleaseSlot, SlotAnswer, NoMorePages, Raise, vars

LEMMA ClaimTypesStep ==
  ASSUME ClaimTypes, [Next]_vars
  PROVE  ClaimTypes'
<1> USE DEF ClaimTypes, queryVars, inputVars, claimVars, slotVars, localVars
<1>1. ASSUME NEW w \in Workers, AdmitScan(w) PROVE ClaimTypes'
  BY <1>1 DEF AdmitScan, Goto
<1>2. ASSUME NEW w \in Workers, RefuseScan(w) PROVE ClaimTypes'
  BY <1>2 DEF RefuseScan
<1>3. ASSUME NEW w \in Workers, InitDecode(w) PROVE ClaimTypes'
  BY <1>3 DEF InitDecode, Goto
<1>4. ASSUME NEW w \in Workers, ReturnChunk(w) PROVE ClaimTypes'
  BY <1>4 DEF ReturnChunk, Goto
<1>5. CASE UNCHANGED <<claimed, done, decodeGlobal>>
  BY <1>5
<1> HIDE DEF ClaimTypes
<1> QED BY <1>1, <1>2, <1>3, <1>4, <1>5, ActionCases
    DEF Interrupt, OpenFile, OpenInterrupted, ScheduleIO, LoadCheck, LoadAlready,
        LoadAcquire, ReadHandle, LoadFinish, Throw, Retire, DecodeInterrupted,
        DecodeUnloaded, DecodeLoaded, LockSlot, LockSlotLoaded, LoadSlot,
        LoadSlotFails, PublishSlot, PublishFailure, ClaimCheck, ClaimFetch,
        ProcessPage, PageFails, Finish, ReleaseSlot, SlotAnswer, NoMorePages, Raise,
        vars

LEMMA DocType ==
  ASSUME LocalTypes, NEW w \in Workers, NEW from, NoMorePages(w, from)
  PROVE  doc' \in [Threads -> 0..NFiles]
  BY ScanAssumption DEF LocalTypes, NoMorePages, NoFile, Threads

LEMMA SlotTypesStep ==
  ASSUME SlotTypes, LocalTypes, pc \in [Threads -> ProgramPoints], ThreadsInPlace,
         [Next]_vars
  PROVE  SlotTypes'
<1> USE DEF SlotTypes, LocalTypes, ThreadsInPlace, ScanPoints, DecodePoints, Threads,
    queryVars, inputVars, claimVars, slotVars, localVars
<1>1. ASSUME NEW w \in Workers, InitDecode(w) PROVE SlotTypes'
  <2> USE <1>1 DEF InitDecode
  <2>1. CASE decodeGlobal[reader[w]]
    BY <2>1
  <2>2. CASE ~decodeGlobal[reader[w]]
    <3>1. loadDone' \in [Files -> BOOLEAN] /\ loadFailed' \in [Files -> BOOLEAN]
      BY <2>2
    <3>2. loadMutex' \in [Files -> Workers \cup {NoThread}]
      BY <2>2
    <3>3. nextPage' \in [Files -> Nat] /\ lastPage' \in [Files -> Nat]
      BY <2>2
    <3> QED BY <3>1, <3>2, <3>3
  <2> QED BY <2>1, <2>2
<1>2. ASSUME NEW w \in Workers, LockSlot(w) PROVE SlotTypes'
  BY <1>2 DEF LockSlot, Goto
<1>3. ASSUME NEW w \in Workers, LoadSlot(w) PROVE SlotTypes'
  BY <1>3, RangeFacts DEF LoadSlot, Goto
<1>4. ASSUME NEW w \in Workers, LoadSlotFails(w) PROVE SlotTypes'
  BY <1>4 DEF LoadSlotFails, Goto
<1>5. ASSUME NEW w \in Workers, PublishSlot(w) PROVE SlotTypes'
  BY <1>5 DEF PublishSlot, ReleaseSlot, Goto
<1>6. ASSUME NEW w \in Workers, PublishFailure(w) PROVE SlotTypes'
  BY <1>6 DEF PublishFailure, ReleaseSlot, NoMorePages, Raise, Goto
<1>7. ASSUME NEW w \in Workers, ClaimFetch(w) PROVE SlotTypes'
  BY <1>7 DEF ClaimFetch, NoMorePages, Goto
<1>8. CASE UNCHANGED <<loadDone, loadFailed, loadMutex, nextPage, lastPage>>
  BY <1>8
<1> HIDE DEF SlotTypes, LocalTypes, ThreadsInPlace, ScanPoints, DecodePoints, Threads
<1> QED BY <1>1, <1>2, <1>3, <1>4, <1>5, <1>6, <1>7, <1>8, ActionCases
    DEF Interrupt, OpenFile, OpenInterrupted, ScheduleIO, LoadCheck, LoadAlready,
        LoadAcquire, ReadHandle, LoadFinish, Throw, AdmitScan, RefuseScan, Retire,
        DecodeInterrupted, DecodeUnloaded, DecodeLoaded, LockSlotLoaded, ClaimCheck,
        ProcessPage, PageFails, ReturnChunk, Finish, ReleaseSlot, SlotAnswer,
        NoMorePages, Raise, vars

LEMMA LocalTypesStep ==
  ASSUME LocalTypes, QueryTypes, SlotTypes, pc \in [Threads -> ProgramPoints],
         ThreadsInPlace, [Next]_vars
  PROVE  LocalTypes'
<1> USE DEF LocalTypes, SlotTypes, QueryTypes, Threads, Files, NoFile, Faults,
    ThreadsInPlace, ScanPoints, DecodePoints, queryVars, inputVars, claimVars,
    slotVars, localVars
<1>1. ASSUME NEW t \in IoThreads, NEW f \in Files, ScheduleIO(t, f) PROVE LocalTypes'
  BY <1>1 DEF ScheduleIO, Goto
<1>2. ASSUME NEW t \in Threads, LoadCheck(t) PROVE LocalTypes'
  BY <1>2 DEF LoadCheck, Raise, Goto
<1>3. ASSUME NEW t \in Threads, LoadFinish(t) PROVE LocalTypes'
  BY <1>3 DEF LoadFinish, Raise, Goto, AfterLoad
<1>4. ASSUME NEW w \in Workers, AdmitScan(w) PROVE LocalTypes'
  BY SMTT(30), <1>4, ScanAssumption, DocType DEF AdmitScan, Goto
<1>5. ASSUME NEW w \in Workers, DecodeInterrupted(w) PROVE LocalTypes'
  BY <1>5 DEF DecodeInterrupted, Raise, Goto
<1>6. ASSUME NEW w \in Workers, DecodeLoaded(w) PROVE LocalTypes'
  BY ZenonT(40), <1>6, ScanAssumption, DocType DEF DecodeLoaded, SlotAnswer
<1>7. ASSUME NEW w \in Workers, LockSlotLoaded(w) PROVE LocalTypes'
  BY <1>7, ScanAssumption, DocType DEF LockSlotLoaded, SlotAnswer
<1>8. ASSUME NEW w \in Workers, PublishFailure(w) PROVE LocalTypes'
  BY ZenonT(40), <1>8, ScanAssumption, DocType DEF PublishFailure, ReleaseSlot, Raise
<1>9. ASSUME NEW w \in Workers, ClaimCheck(w) PROVE LocalTypes'
  BY <1>9, ScanAssumption, DocType DEF ClaimCheck
<1>10. ASSUME NEW w \in Workers, ClaimFetch(w) PROVE LocalTypes'
  BY ZenonT(40), <1>10, ScanAssumption, DocType DEF ClaimFetch
<1>11. ASSUME NEW w \in Workers, ProcessPage(w) PROVE LocalTypes'
  BY <1>11 DEF ProcessPage, Goto
<1>12. ASSUME NEW w \in Workers, PageFails(w) PROVE LocalTypes'
  BY <1>12 DEF PageFails, Raise, Goto
<1>13. ASSUME NEW w \in Workers, ReturnChunk(w) PROVE LocalTypes'
  BY <1>13 DEF ReturnChunk, Goto
<1>14. CASE UNCHANGED <<reader, doc, page, chunk, fault>>
  BY <1>14
<1> HIDE DEF LocalTypes, SlotTypes, QueryTypes, Threads, Files, NoFile, Faults,
    ThreadsInPlace, ScanPoints, DecodePoints
<1> QED BY <1>1, <1>2, <1>3, <1>4, <1>5, <1>6, <1>7, <1>8, <1>9, <1>10, <1>11, <1>12,
    <1>13, <1>14, ActionCases
    DEF Interrupt, OpenFile, OpenInterrupted, LoadAlready, LoadAcquire, ReadHandle,
        Throw, RefuseScan, Retire, InitDecode, DecodeUnloaded, LockSlot, LoadSlot,
        LoadSlotFails, PublishSlot, Finish, ReleaseSlot, SlotAnswer, NoMorePages,
        Raise, vars

LEMMA QueryTypesStep ==
  ASSUME QueryTypes, LocalTypes, ThreadsInPlace, [Next]_vars
  PROVE  QueryTypes'
<1> USE DEF QueryTypes, LocalTypes, Faults, Threads, ThreadsInPlace, Files, queryVars,
    inputVars, claimVars, slotVars, localVars
<1>1. ASSUME Interrupt PROVE QueryTypes'
  BY <1>1 DEF Interrupt
<1>2. ASSUME NEW f \in Files, OpenInterrupted(f) PROVE QueryTypes'
  BY <1>2 DEF OpenInterrupted
<1>3. ASSUME NEW t \in Threads, Throw(t) PROVE QueryTypes'
  BY <1>3 DEF Throw, Goto
<1>4. ASSUME NEW w \in Workers, RefuseScan(w) PROVE QueryTypes'
  <2>1. current \in 1..NFiles /\ current' = current + 1
    BY <1>4 DEF RefuseScan
  <2>2. current' \in 1..(NFiles + 1)
    BY <2>1, ScanAssumption
  <2> QED BY <1>4, <2>2 DEF RefuseScan
<1>5. ASSUME NEW w \in Workers, ReturnChunk(w) PROVE QueryTypes'
  BY <1>5 DEF ReturnChunk, Goto
<1>6. ASSUME Finish PROVE QueryTypes'
  BY <1>6 DEF Finish
<1>7. CASE UNCHANGED <<query, interrupted, current, delivered>>
  BY <1>7
<1> HIDE DEF QueryTypes, LocalTypes, Faults, Threads, ThreadsInPlace, Files
<1> QED BY <1>1, <1>2, <1>3, <1>4, <1>5, <1>6, <1>7, ActionCases
    DEF OpenFile, ScheduleIO, LoadCheck, LoadAlready, LoadAcquire, ReadHandle,
        LoadFinish, AdmitScan, Retire, InitDecode, DecodeInterrupted, DecodeUnloaded,
        DecodeLoaded, LockSlot, LockSlotLoaded, LoadSlot, LoadSlotFails, PublishSlot,
        PublishFailure, ClaimCheck, ClaimFetch, ProcessPage, PageFails, ReleaseSlot,
        SlotAnswer, NoMorePages, Raise, vars

LEMMA PcTypeStep ==
  ASSUME pc \in [Threads -> ProgramPoints], [Next]_vars
  PROVE  (pc \in [Threads -> ProgramPoints])'
<1> USE DEF ProgramPoints, queryVars, inputVars, claimVars, slotVars, localVars
<1>1. ASSUME NEW t \in IoThreads, NEW f \in Files, ScheduleIO(t, f)
      PROVE  (pc \in [Threads -> ProgramPoints])'
  BY <1>1 DEF ScheduleIO, Goto
<1>2. ASSUME NEW t \in Threads, LoadCheck(t) PROVE (pc \in [Threads -> ProgramPoints])'
  BY <1>2 DEF LoadCheck, Raise, Goto
<1>3. ASSUME NEW t \in Threads, LoadAlready(t) PROVE (pc \in [Threads -> ProgramPoints])'
  BY <1>3 DEF LoadAlready, Goto, AfterLoad
<1>4. ASSUME NEW t \in Threads, LoadAcquire(t) PROVE (pc \in [Threads -> ProgramPoints])'
  BY <1>4 DEF LoadAcquire, Goto
<1>5. ASSUME NEW t \in Threads, ReadHandle(t) PROVE (pc \in [Threads -> ProgramPoints])'
  BY <1>5 DEF ReadHandle, Goto
<1>6. ASSUME NEW t \in Threads, LoadFinish(t) PROVE (pc \in [Threads -> ProgramPoints])'
  BY <1>6 DEF LoadFinish, Raise, Goto, AfterLoad
<1>7. ASSUME NEW t \in Threads, Throw(t) PROVE (pc \in [Threads -> ProgramPoints])'
  BY <1>7 DEF Throw, Goto
<1>8. ASSUME NEW w \in Workers, AdmitScan(w) PROVE (pc \in [Threads -> ProgramPoints])'
  BY <1>8 DEF AdmitScan, Goto
<1>9. ASSUME NEW w \in Workers, Retire(w) PROVE (pc \in [Threads -> ProgramPoints])'
  BY <1>9 DEF Retire, Goto
<1>10. ASSUME NEW w \in Workers, InitDecode(w) PROVE (pc \in [Threads -> ProgramPoints])'
  BY <1>10 DEF InitDecode, Goto
<1>11. ASSUME NEW w \in Workers, DecodeInterrupted(w)
      PROVE  (pc \in [Threads -> ProgramPoints])'
  BY <1>11 DEF DecodeInterrupted, Raise, Goto
<1>12. ASSUME NEW w \in Workers, DecodeUnloaded(w) PROVE (pc \in [Threads -> ProgramPoints])'
  BY <1>12 DEF DecodeUnloaded, Goto
<1>13. ASSUME NEW w \in Workers, DecodeLoaded(w) PROVE (pc \in [Threads -> ProgramPoints])'
  BY <1>13 DEF DecodeLoaded, SlotAnswer, NoMorePages, Goto
<1>14. ASSUME NEW w \in Workers, LockSlot(w) PROVE (pc \in [Threads -> ProgramPoints])'
  BY <1>14 DEF LockSlot, Goto
<1>15. ASSUME NEW w \in Workers, LockSlotLoaded(w) PROVE (pc \in [Threads -> ProgramPoints])'
  BY <1>15 DEF LockSlotLoaded, SlotAnswer, NoMorePages, Goto
<1>16. ASSUME NEW w \in Workers, LoadSlot(w) PROVE (pc \in [Threads -> ProgramPoints])'
  BY <1>16 DEF LoadSlot, Goto
<1>17. ASSUME NEW w \in Workers, LoadSlotFails(w) PROVE (pc \in [Threads -> ProgramPoints])'
  BY <1>17 DEF LoadSlotFails, Goto
<1>18. ASSUME NEW w \in Workers, PublishSlot(w) PROVE (pc \in [Threads -> ProgramPoints])'
  BY <1>18 DEF PublishSlot, ReleaseSlot, Goto
<1>19. ASSUME NEW w \in Workers, PublishFailure(w) PROVE (pc \in [Threads -> ProgramPoints])'
  BY <1>19 DEF PublishFailure, ReleaseSlot, NoMorePages, Raise, Goto
<1>20. ASSUME NEW w \in Workers, ClaimCheck(w) PROVE (pc \in [Threads -> ProgramPoints])'
  BY <1>20 DEF ClaimCheck, NoMorePages, Goto
<1>21. ASSUME NEW w \in Workers, ClaimFetch(w) PROVE (pc \in [Threads -> ProgramPoints])'
  BY <1>21 DEF ClaimFetch, NoMorePages, Goto
<1>22. ASSUME NEW w \in Workers, ProcessPage(w) PROVE (pc \in [Threads -> ProgramPoints])'
  BY <1>22 DEF ProcessPage, Goto
<1>23. ASSUME NEW w \in Workers, PageFails(w) PROVE (pc \in [Threads -> ProgramPoints])'
  BY <1>23 DEF PageFails, Raise, Goto
<1>24. ASSUME NEW w \in Workers, ReturnChunk(w) PROVE (pc \in [Threads -> ProgramPoints])'
  BY <1>24 DEF ReturnChunk, Goto
<1>25. CASE UNCHANGED <<pc>>
  BY <1>25
<1> HIDE DEF ProgramPoints
<1> QED BY <1>1, <1>2, <1>3, <1>4, <1>5, <1>6, <1>7, <1>8, <1>9, <1>10, <1>11, <1>12,
    <1>13, <1>14, <1>15, <1>16, <1>17, <1>18, <1>19, <1>20, <1>21, <1>22, <1>23, <1>24,
    <1>25, ActionCases
    DEF Interrupt, OpenFile, OpenInterrupted, RefuseScan, Finish, ReleaseSlot,
        SlotAnswer, NoMorePages, Raise, vars

-----------------------------------------------------------------------------
(* Threads, slots and claims.                                              *)

LEMMA ThreadsInPlaceStep ==
  ASSUME pc \in [Threads -> ProgramPoints], LocalTypes, QueryTypes, ThreadsInPlace,
         [Next]_vars
  PROVE  ThreadsInPlace'
<1> USE DEF LocalTypes, Threads, Files, NoFile, ScanPoints, LoadPoints, DecodePoints,
    QueryTypes, ThreadsInPlace, queryVars, inputVars, claimVars, slotVars, localVars
<1>1. ASSUME NEW t \in IoThreads, NEW f \in Files, ScheduleIO(t, f) PROVE ThreadsInPlace'
  BY <1>1, ScanAssumption DEF ScheduleIO, Goto
<1>2. ASSUME NEW t \in Threads, LoadCheck(t) PROVE ThreadsInPlace'
  BY ZenonT(40), <1>2, ScanAssumption DEF LoadCheck, Raise, Goto
<1>3. ASSUME NEW t \in Threads, LoadAlready(t) PROVE ThreadsInPlace'
  BY <1>3, ScanAssumption DEF LoadAlready, Goto, AfterLoad
<1>4. ASSUME NEW t \in Threads, LoadAcquire(t) PROVE ThreadsInPlace'
  BY <1>4, ScanAssumption DEF LoadAcquire, Goto
<1>5. ASSUME NEW t \in Threads, ReadHandle(t) PROVE ThreadsInPlace'
  BY <1>5, ScanAssumption DEF ReadHandle, Goto
<1>6. ASSUME NEW t \in Threads, LoadFinish(t) PROVE ThreadsInPlace'
  BY ZenonT(40), <1>6, ScanAssumption DEF LoadFinish, Raise, Goto, AfterLoad
<1>7. ASSUME NEW t \in Threads, Throw(t) PROVE ThreadsInPlace'
  BY <1>7, ScanAssumption DEF Throw, Goto
<1>8. ASSUME NEW w \in Workers, AdmitScan(w) PROVE ThreadsInPlace'
  BY <1>8, ScanAssumption DEF AdmitScan, Goto
<1>9. ASSUME NEW w \in Workers, Retire(w) PROVE ThreadsInPlace'
  BY <1>9, ScanAssumption DEF Retire, Goto
<1>10. ASSUME NEW w \in Workers, InitDecode(w) PROVE ThreadsInPlace'
  BY <1>10, ScanAssumption DEF InitDecode, Goto
<1>11. ASSUME NEW w \in Workers, DecodeInterrupted(w) PROVE ThreadsInPlace'
  BY <1>11, ScanAssumption DEF DecodeInterrupted, Raise, Goto
<1>12. ASSUME NEW w \in Workers, DecodeUnloaded(w) PROVE ThreadsInPlace'
  BY <1>12, ScanAssumption DEF DecodeUnloaded, Goto
<1>13. ASSUME NEW w \in Workers, DecodeLoaded(w) PROVE ThreadsInPlace'
  BY ZenonT(40), <1>13, ScanAssumption DEF DecodeLoaded, SlotAnswer, NoMorePages, Goto
<1>14. ASSUME NEW w \in Workers, LockSlot(w) PROVE ThreadsInPlace'
  BY <1>14, ScanAssumption DEF LockSlot, Goto
<1>15. ASSUME NEW w \in Workers, LockSlotLoaded(w) PROVE ThreadsInPlace'
  BY ZenonT(40), <1>15, ScanAssumption DEF LockSlotLoaded, SlotAnswer, NoMorePages, Goto
<1>16. ASSUME NEW w \in Workers, LoadSlot(w) PROVE ThreadsInPlace'
  BY <1>16, ScanAssumption DEF LoadSlot, Goto
<1>17. ASSUME NEW w \in Workers, LoadSlotFails(w) PROVE ThreadsInPlace'
  BY <1>17, ScanAssumption DEF LoadSlotFails, Goto
<1>18. ASSUME NEW w \in Workers, PublishSlot(w) PROVE ThreadsInPlace'
  BY <1>18, ScanAssumption DEF PublishSlot, ReleaseSlot, Goto
<1>19. ASSUME NEW w \in Workers, PublishFailure(w) PROVE ThreadsInPlace'
  BY ZenonT(40), <1>19, ScanAssumption DEF PublishFailure, ReleaseSlot, NoMorePages, Raise, Goto
<1>20. ASSUME NEW w \in Workers, ClaimCheck(w) PROVE ThreadsInPlace'
  BY <1>20, ScanAssumption DEF ClaimCheck, NoMorePages, Goto
<1>21. ASSUME NEW w \in Workers, ClaimFetch(w) PROVE ThreadsInPlace'
  BY <1>21, ScanAssumption DEF ClaimFetch, NoMorePages, Goto
<1>22. ASSUME NEW w \in Workers, ProcessPage(w) PROVE ThreadsInPlace'
  BY <1>22, ScanAssumption DEF ProcessPage, Goto
<1>23. ASSUME NEW w \in Workers, PageFails(w) PROVE ThreadsInPlace'
  BY <1>23, ScanAssumption DEF PageFails, Raise, Goto
<1>24. ASSUME NEW w \in Workers, ReturnChunk(w) PROVE ThreadsInPlace'
  BY <1>24, ScanAssumption DEF ReturnChunk, Goto
<1>25. CASE UNCHANGED <<pc, reader, doc, fault>>
  BY <1>25
<1> HIDE DEF LocalTypes, Threads, Files, NoFile, ScanPoints, LoadPoints, DecodePoints,
    QueryTypes, ThreadsInPlace
<1> QED BY <1>1, <1>2, <1>3, <1>4, <1>5, <1>6, <1>7, <1>8, <1>9, <1>10, <1>11, <1>12,
    <1>13, <1>14, <1>15, <1>16, <1>17, <1>18, <1>19, <1>20, <1>21, <1>22, <1>23, <1>24,
    <1>25, ActionCases
    DEF Interrupt, OpenFile, OpenInterrupted, RefuseScan, Finish, ReleaseSlot,
        SlotAnswer, NoMorePages, Raise, vars

\* A reader's decode state is untouched until it is created, and created once.
LEMMA DecodeStatesStep ==
  ASSUME pc \in [Threads -> ProgramPoints], LocalTypes, SlotTypes, ClaimTypes,
         ThreadsInPlace, DecodeStates, SlotLoading, [Next]_vars
  PROVE  DecodeStates'
<1> USE DEF LocalTypes, SlotTypes, ClaimTypes, DecodeStates, SlotLoading, LoadingAt,
    SlotAt, ThreadsInPlace, Threads, ScanPoints, DecodePoints, queryVars, inputVars,
    claimVars, slotVars, localVars
<1>1. ASSUME NEW t \in IoThreads, NEW f \in Files, ScheduleIO(t, f) PROVE DecodeStates'
  BY <1>1 DEF ScheduleIO, Goto
<1>2. ASSUME NEW t \in Threads, LoadCheck(t) PROVE DecodeStates'
  BY <1>2 DEF LoadCheck, Raise, Goto
<1>3. ASSUME NEW t \in Threads, LoadAlready(t) PROVE DecodeStates'
  BY <1>3 DEF LoadAlready, Goto, AfterLoad
<1>4. ASSUME NEW t \in Threads, LoadAcquire(t) PROVE DecodeStates'
  BY <1>4 DEF LoadAcquire, Goto
<1>5. ASSUME NEW t \in Threads, ReadHandle(t) PROVE DecodeStates'
  BY <1>5 DEF ReadHandle, Goto
<1>6. ASSUME NEW t \in Threads, LoadFinish(t) PROVE DecodeStates'
  BY <1>6 DEF LoadFinish, Raise, Goto, AfterLoad
<1>7. ASSUME NEW t \in Threads, Throw(t) PROVE DecodeStates'
  BY <1>7 DEF Throw, Goto
<1>8. ASSUME NEW w \in Workers, AdmitScan(w) PROVE DecodeStates'
  BY <1>8 DEF AdmitScan, Goto
<1>9. ASSUME NEW w \in Workers, Retire(w) PROVE DecodeStates'
  BY <1>9 DEF Retire, Goto
<1>10. ASSUME NEW w \in Workers, InitDecode(w) PROVE DecodeStates'
  BY <1>10 DEF InitDecode, Goto
<1>11. ASSUME NEW w \in Workers, DecodeInterrupted(w) PROVE DecodeStates'
  BY <1>11 DEF DecodeInterrupted, Raise, Goto
<1>12. ASSUME NEW w \in Workers, DecodeUnloaded(w) PROVE DecodeStates'
  BY <1>12 DEF DecodeUnloaded, Goto
<1>13. ASSUME NEW w \in Workers, DecodeLoaded(w) PROVE DecodeStates'
  BY <1>13 DEF DecodeLoaded, SlotAnswer, NoMorePages, Goto
<1>14. ASSUME NEW w \in Workers, LockSlot(w) PROVE DecodeStates'
  BY <1>14 DEF LockSlot, Goto
<1>15. ASSUME NEW w \in Workers, LockSlotLoaded(w) PROVE DecodeStates'
  BY <1>15 DEF LockSlotLoaded, SlotAnswer, NoMorePages, Goto
<1>16. ASSUME NEW w \in Workers, LoadSlot(w) PROVE DecodeStates'
  BY <1>16 DEF LoadSlot, Goto
<1>17. ASSUME NEW w \in Workers, LoadSlotFails(w) PROVE DecodeStates'
  BY <1>17 DEF LoadSlotFails, Goto
<1>18. ASSUME NEW w \in Workers, PublishSlot(w) PROVE DecodeStates'
  BY <1>18 DEF PublishSlot, ReleaseSlot, Goto
<1>19. ASSUME NEW w \in Workers, PublishFailure(w) PROVE DecodeStates'
  BY <1>19 DEF PublishFailure, ReleaseSlot, NoMorePages, Raise, Goto
<1>20. ASSUME NEW w \in Workers, ClaimCheck(w) PROVE DecodeStates'
  BY <1>20 DEF ClaimCheck, NoMorePages, Goto
<1>21. ASSUME NEW w \in Workers, ClaimFetch(w) PROVE DecodeStates'
  BY <1>21 DEF ClaimFetch, NoMorePages, Goto
<1>22. ASSUME NEW w \in Workers, ProcessPage(w) PROVE DecodeStates'
  BY <1>22 DEF ProcessPage, Goto
<1>23. ASSUME NEW w \in Workers, PageFails(w) PROVE DecodeStates'
  BY <1>23 DEF PageFails, Raise, Goto
<1>24. ASSUME NEW w \in Workers, ReturnChunk(w) PROVE DecodeStates'
  BY <1>24 DEF ReturnChunk, Goto
<1>25. CASE UNCHANGED <<pc, reader, decodeGlobal, loadDone, loadFailed, loadMutex>>
  BY <1>25
<1> HIDE DEF LocalTypes, SlotTypes, ClaimTypes, DecodeStates, SlotLoading, LoadingAt,
    SlotAt, ThreadsInPlace, Threads, ScanPoints, DecodePoints
<1> QED BY <1>1, <1>2, <1>3, <1>4, <1>5, <1>6, <1>7, <1>8, <1>9, <1>10, <1>11, <1>12,
    <1>13, <1>14, <1>15, <1>16, <1>17, <1>18, <1>19, <1>20, <1>21, <1>22, <1>23, <1>24,
    <1>25, ActionCases
    DEF Interrupt, OpenFile, OpenInterrupted, RefuseScan, Finish, ReleaseSlot,
        SlotAnswer, NoMorePages, Raise, vars

\* The double-checked load: mutual exclusion, and load_done last.
LEMMA LoadingStep ==
  ASSUME pc \in [Threads -> ProgramPoints], LocalTypes, SlotTypes, ThreadsInPlace,
         DecodeStates, SlotLoading, ClaimPoints, NEW v \in Workers, [Next]_vars
  PROVE  LoadingAt(v)'
<1> USE DEF LocalTypes, SlotTypes, DecodeStates, SlotLoading, ClaimPoints, ClaimAt,
    Readable, LoadingAt, ThreadsInPlace, Threads, ScanPoints, DecodePoints, queryVars,
    inputVars, claimVars, slotVars, localVars
<1>1. ASSUME NEW t \in IoThreads, NEW f \in Files, ScheduleIO(t, f) PROVE LoadingAt(v)'
  BY <1>1 DEF ScheduleIO, Goto
<1>2. ASSUME NEW t \in Threads, LoadCheck(t) PROVE LoadingAt(v)'
  BY <1>2 DEF LoadCheck, Raise, Goto
<1>3. ASSUME NEW t \in Threads, LoadAlready(t) PROVE LoadingAt(v)'
  BY <1>3 DEF LoadAlready, Goto, AfterLoad
<1>4. ASSUME NEW t \in Threads, LoadAcquire(t) PROVE LoadingAt(v)'
  BY <1>4 DEF LoadAcquire, Goto
<1>5. ASSUME NEW t \in Threads, ReadHandle(t) PROVE LoadingAt(v)'
  BY <1>5 DEF ReadHandle, Goto
<1>6. ASSUME NEW t \in Threads, LoadFinish(t) PROVE LoadingAt(v)'
  BY <1>6 DEF LoadFinish, Raise, Goto, AfterLoad
<1>7. ASSUME NEW t \in Threads, Throw(t) PROVE LoadingAt(v)'
  BY <1>7 DEF Throw, Goto
<1>8. ASSUME NEW w \in Workers, AdmitScan(w) PROVE LoadingAt(v)'
  BY <1>8 DEF AdmitScan, Goto
<1>9. ASSUME NEW w \in Workers, Retire(w) PROVE LoadingAt(v)'
  BY <1>9 DEF Retire, Goto
<1>10. ASSUME NEW w \in Workers, InitDecode(w) PROVE LoadingAt(v)'
  BY <1>10 DEF InitDecode, Goto
<1>11. ASSUME NEW w \in Workers, DecodeInterrupted(w) PROVE LoadingAt(v)'
  BY <1>11 DEF DecodeInterrupted, Raise, Goto
<1>12. ASSUME NEW w \in Workers, DecodeUnloaded(w) PROVE LoadingAt(v)'
  BY <1>12 DEF DecodeUnloaded, Goto
<1>13. ASSUME NEW w \in Workers, DecodeLoaded(w) PROVE LoadingAt(v)'
  BY <1>13 DEF DecodeLoaded, SlotAnswer, NoMorePages, Goto
<1>14. ASSUME NEW w \in Workers, LockSlot(w) PROVE LoadingAt(v)'
  BY SMTT(30), <1>14, ScanAssumption DEF LockSlot, Goto
<1>15. ASSUME NEW w \in Workers, LockSlotLoaded(w) PROVE LoadingAt(v)'
  BY <1>15 DEF LockSlotLoaded, SlotAnswer, NoMorePages, Goto
<1>16. ASSUME NEW w \in Workers, LoadSlot(w) PROVE LoadingAt(v)'
  BY <1>16 DEF LoadSlot, Goto
<1>17. ASSUME NEW w \in Workers, LoadSlotFails(w) PROVE LoadingAt(v)'
  BY <1>17 DEF LoadSlotFails, Goto
<1>18. ASSUME NEW w \in Workers, PublishSlot(w) PROVE LoadingAt(v)'
  BY <1>18 DEF PublishSlot, ReleaseSlot, Goto
<1>19. ASSUME NEW w \in Workers, PublishFailure(w) PROVE LoadingAt(v)'
  BY <1>19 DEF PublishFailure, ReleaseSlot, NoMorePages, Raise, Goto
<1>20. ASSUME NEW w \in Workers, ClaimCheck(w) PROVE LoadingAt(v)'
  BY <1>20 DEF ClaimCheck, NoMorePages, Goto
<1>21. ASSUME NEW w \in Workers, ClaimFetch(w) PROVE LoadingAt(v)'
  BY <1>21 DEF ClaimFetch, NoMorePages, Goto
<1>22. ASSUME NEW w \in Workers, ProcessPage(w) PROVE LoadingAt(v)'
  BY <1>22 DEF ProcessPage, Goto
<1>23. ASSUME NEW w \in Workers, PageFails(w) PROVE LoadingAt(v)'
  BY <1>23 DEF PageFails, Raise, Goto
<1>24. ASSUME NEW w \in Workers, ReturnChunk(w) PROVE LoadingAt(v)'
  BY <1>24 DEF ReturnChunk, Goto
<1>25. CASE UNCHANGED <<pc, reader, loadDone, loadFailed, loadMutex, nextPage, lastPage>>
  BY <1>25
<1> HIDE DEF LocalTypes, SlotTypes, DecodeStates, SlotLoading, ClaimPoints, ClaimAt,
    Readable, LoadingAt, ThreadsInPlace, Threads, ScanPoints, DecodePoints
<1> QED BY <1>1, <1>2, <1>3, <1>4, <1>5, <1>6, <1>7, <1>8, <1>9, <1>10, <1>11, <1>12,
    <1>13, <1>14, <1>15, <1>16, <1>17, <1>18, <1>19, <1>20, <1>21, <1>22, <1>23, <1>24,
    <1>25, ActionCases
    DEF Interrupt, OpenFile, OpenInterrupted, RefuseScan, Finish, ReleaseSlot,
        SlotAnswer, NoMorePages, Raise, vars

LEMMA SlotStep ==
  ASSUME pc \in [Threads -> ProgramPoints], LocalTypes, SlotTypes, ThreadsInPlace,
         DecodeStates, SlotLoading, NEW s \in Files, [Next]_vars
  PROVE  SlotAt(s)'
<1> USE DEF LocalTypes, SlotTypes, DecodeStates, SlotLoading, LoadingAt, SlotAt,
    Readable, ThreadsInPlace, Threads, ScanPoints, DecodePoints, queryVars, inputVars,
    claimVars, slotVars, localVars
<1>1. ASSUME NEW t \in IoThreads, NEW f \in Files, ScheduleIO(t, f) PROVE SlotAt(s)'
  BY <1>1 DEF ScheduleIO, Goto
<1>2. ASSUME NEW t \in Threads, LoadCheck(t) PROVE SlotAt(s)'
  BY <1>2 DEF LoadCheck, Raise, Goto
<1>3. ASSUME NEW t \in Threads, LoadAlready(t) PROVE SlotAt(s)'
  BY <1>3 DEF LoadAlready, Goto, AfterLoad
<1>4. ASSUME NEW t \in Threads, LoadAcquire(t) PROVE SlotAt(s)'
  BY <1>4 DEF LoadAcquire, Goto
<1>5. ASSUME NEW t \in Threads, ReadHandle(t) PROVE SlotAt(s)'
  BY <1>5 DEF ReadHandle, Goto
<1>6. ASSUME NEW t \in Threads, LoadFinish(t) PROVE SlotAt(s)'
  BY <1>6 DEF LoadFinish, Raise, Goto, AfterLoad
<1>7. ASSUME NEW t \in Threads, Throw(t) PROVE SlotAt(s)'
  BY <1>7 DEF Throw, Goto
<1>8. ASSUME NEW w \in Workers, AdmitScan(w) PROVE SlotAt(s)'
  BY <1>8 DEF AdmitScan, Goto
<1>9. ASSUME NEW w \in Workers, Retire(w) PROVE SlotAt(s)'
  BY <1>9 DEF Retire, Goto
<1>10. ASSUME NEW w \in Workers, InitDecode(w) PROVE SlotAt(s)'
  BY <1>10 DEF InitDecode, Goto
<1>11. ASSUME NEW w \in Workers, DecodeInterrupted(w) PROVE SlotAt(s)'
  BY <1>11 DEF DecodeInterrupted, Raise, Goto
<1>12. ASSUME NEW w \in Workers, DecodeUnloaded(w) PROVE SlotAt(s)'
  BY <1>12 DEF DecodeUnloaded, Goto
<1>13. ASSUME NEW w \in Workers, DecodeLoaded(w) PROVE SlotAt(s)'
  BY <1>13 DEF DecodeLoaded, SlotAnswer, NoMorePages, Goto
<1>14. ASSUME NEW w \in Workers, LockSlot(w) PROVE SlotAt(s)'
  BY <1>14 DEF LockSlot, Goto
<1>15. ASSUME NEW w \in Workers, LockSlotLoaded(w) PROVE SlotAt(s)'
  BY <1>15 DEF LockSlotLoaded, SlotAnswer, NoMorePages, Goto
<1>16. ASSUME NEW w \in Workers, LoadSlot(w) PROVE SlotAt(s)'
  BY <1>16 DEF LoadSlot, Goto
<1>17. ASSUME NEW w \in Workers, LoadSlotFails(w) PROVE SlotAt(s)'
  BY <1>17 DEF LoadSlotFails, Goto
<1>18. ASSUME NEW w \in Workers, PublishSlot(w) PROVE SlotAt(s)'
  BY <1>18, RangeFacts DEF PublishSlot, ReleaseSlot, Goto
<1>19. ASSUME NEW w \in Workers, PublishFailure(w) PROVE SlotAt(s)'
  BY <1>19 DEF PublishFailure, ReleaseSlot, NoMorePages, Raise, Goto
<1>20. ASSUME NEW w \in Workers, ClaimCheck(w) PROVE SlotAt(s)'
  BY <1>20 DEF ClaimCheck, NoMorePages, Goto
<1>21. ASSUME NEW w \in Workers, ClaimFetch(w) PROVE SlotAt(s)'
  BY <1>21, RangeFacts DEF ClaimFetch, NoMorePages, Goto
<1>22. ASSUME NEW w \in Workers, ProcessPage(w) PROVE SlotAt(s)'
  BY <1>22 DEF ProcessPage, Goto
<1>23. ASSUME NEW w \in Workers, PageFails(w) PROVE SlotAt(s)'
  BY <1>23 DEF PageFails, Raise, Goto
<1>24. ASSUME NEW w \in Workers, ReturnChunk(w) PROVE SlotAt(s)'
  BY <1>24 DEF ReturnChunk, Goto
<1>25. CASE UNCHANGED <<pc, reader, loadDone, loadFailed, loadMutex, nextPage, lastPage>>
  BY <1>25
<1> HIDE DEF LocalTypes, SlotTypes, DecodeStates, SlotLoading, LoadingAt, SlotAt,
    Readable, ThreadsInPlace, Threads, ScanPoints, DecodePoints
<1> QED BY <1>1, <1>2, <1>3, <1>4, <1>5, <1>6, <1>7, <1>8, <1>9, <1>10, <1>11, <1>12,
    <1>13, <1>14, <1>15, <1>16, <1>17, <1>18, <1>19, <1>20, <1>21, <1>22, <1>23, <1>24,
    <1>25, ActionCases
    DEF Interrupt, OpenFile, OpenInterrupted, RefuseScan, Finish, ReleaseSlot,
        SlotAnswer, NoMorePages, Raise, vars

\* A claimed page lies below the cursor and inside the range.
LEMMA ClaimPointStep ==
  ASSUME pc \in [Threads -> ProgramPoints], LocalTypes, SlotTypes, ThreadsInPlace,
         DecodeStates, SlotLoading, ClaimPoints, NEW v \in Workers, [Next]_vars
  PROVE  ClaimAt(v)'
<1> USE DEF LocalTypes, SlotTypes, DecodeStates, SlotLoading, SlotAt, LoadingAt,
    ClaimPoints, ClaimAt, Readable, Drained, Passed, ThreadsInPlace, Threads,
    ScanPoints, DecodePoints, queryVars, inputVars, claimVars, slotVars, localVars
<1>1. ASSUME NEW t \in IoThreads, NEW f \in Files, ScheduleIO(t, f) PROVE ClaimAt(v)'
  BY <1>1 DEF ScheduleIO, Goto
<1>2. ASSUME NEW t \in Threads, LoadCheck(t) PROVE ClaimAt(v)'
  BY <1>2 DEF LoadCheck, Raise, Goto
<1>3. ASSUME NEW t \in Threads, LoadAlready(t) PROVE ClaimAt(v)'
  BY <1>3 DEF LoadAlready, Goto, AfterLoad
<1>4. ASSUME NEW t \in Threads, LoadAcquire(t) PROVE ClaimAt(v)'
  BY <1>4 DEF LoadAcquire, Goto
<1>5. ASSUME NEW t \in Threads, ReadHandle(t) PROVE ClaimAt(v)'
  BY <1>5 DEF ReadHandle, Goto
<1>6. ASSUME NEW t \in Threads, LoadFinish(t) PROVE ClaimAt(v)'
  BY <1>6 DEF LoadFinish, Raise, Goto, AfterLoad
<1>7. ASSUME NEW t \in Threads, Throw(t) PROVE ClaimAt(v)'
  BY <1>7 DEF Throw, Goto
<1>8. ASSUME NEW w \in Workers, AdmitScan(w) PROVE ClaimAt(v)'
  BY <1>8 DEF AdmitScan, Goto
<1>9. ASSUME NEW w \in Workers, Retire(w) PROVE ClaimAt(v)'
  BY <1>9 DEF Retire, Goto
<1>10. ASSUME NEW w \in Workers, InitDecode(w) PROVE ClaimAt(v)'
  BY <1>10 DEF InitDecode, Goto
<1>11. ASSUME NEW w \in Workers, DecodeInterrupted(w) PROVE ClaimAt(v)'
  BY <1>11 DEF DecodeInterrupted, Raise, Goto
<1>12. ASSUME NEW w \in Workers, DecodeUnloaded(w) PROVE ClaimAt(v)'
  BY <1>12 DEF DecodeUnloaded, Goto
<1>13. ASSUME NEW w \in Workers, DecodeLoaded(w) PROVE ClaimAt(v)'
  BY <1>13 DEF DecodeLoaded, SlotAnswer, NoMorePages, Goto
<1>14. ASSUME NEW w \in Workers, LockSlot(w) PROVE ClaimAt(v)'
  BY <1>14 DEF LockSlot, Goto
<1>15. ASSUME NEW w \in Workers, LockSlotLoaded(w) PROVE ClaimAt(v)'
  BY <1>15 DEF LockSlotLoaded, SlotAnswer, NoMorePages, Goto
<1>16. ASSUME NEW w \in Workers, LoadSlot(w) PROVE ClaimAt(v)'
  BY <1>16, RangeFacts DEF LoadSlot, Goto
<1>17. ASSUME NEW w \in Workers, LoadSlotFails(w) PROVE ClaimAt(v)'
  BY <1>17, RangeFacts DEF LoadSlotFails, Goto
<1>18. ASSUME NEW w \in Workers, PublishSlot(w) PROVE ClaimAt(v)'
  BY <1>18, RangeFacts DEF PublishSlot, ReleaseSlot, Goto
<1>19. ASSUME NEW w \in Workers, PublishFailure(w) PROVE ClaimAt(v)'
  BY <1>19 DEF PublishFailure, ReleaseSlot, NoMorePages, Raise, Goto
<1>20. ASSUME NEW w \in Workers, ClaimCheck(w) PROVE ClaimAt(v)'
  BY <1>20 DEF ClaimCheck, NoMorePages, Goto
<1>21. ASSUME NEW w \in Workers, ClaimFetch(w) PROVE ClaimAt(v)'
  BY <1>21, RangeFacts DEF ClaimFetch, NoMorePages, Goto
<1>22. ASSUME NEW w \in Workers, ProcessPage(w) PROVE ClaimAt(v)'
  BY <1>22 DEF ProcessPage, Goto
<1>23. ASSUME NEW w \in Workers, PageFails(w) PROVE ClaimAt(v)'
  BY <1>23 DEF PageFails, Raise, Goto
<1>24. ASSUME NEW w \in Workers, ReturnChunk(w) PROVE ClaimAt(v)'
  BY <1>24 DEF ReturnChunk, Goto
<1>25. CASE UNCHANGED <<pc, reader, page, chunk, loadDone, loadFailed, nextPage, lastPage>>
  BY <1>25
<1> HIDE DEF LocalTypes, SlotTypes, DecodeStates, SlotLoading, SlotAt, LoadingAt,
    ClaimPoints, ClaimAt, Readable, Drained, Passed, ThreadsInPlace, Threads,
    ScanPoints, DecodePoints
<1> QED BY <1>1, <1>2, <1>3, <1>4, <1>5, <1>6, <1>7, <1>8, <1>9, <1>10, <1>11, <1>12,
    <1>13, <1>14, <1>15, <1>16, <1>17, <1>18, <1>19, <1>20, <1>21, <1>22, <1>23, <1>24,
    <1>25, ActionCases
    DEF Interrupt, OpenFile, OpenInterrupted, RefuseScan, Finish, ReleaseSlot,
        SlotAnswer, NoMorePages, Raise, vars

LEMMA RowsStep ==
  ASSUME pc \in [Threads -> ProgramPoints], LocalTypes, SlotTypes, QueryTypes,
         ThreadsInPlace, DecodeStates, SlotLoading, ClaimPoints, RowsBelowCursor,
         NEW v \in Workers, [Next]_vars
  PROVE  RowsAt(v)'
<1> USE DEF LocalTypes, SlotTypes, QueryTypes, DecodeStates, SlotLoading, LoadingAt,
    SlotAt, ClaimPoints, ClaimAt, RowsBelowCursor, RowsAt, Readable, Passed,
    ThreadsInPlace, Threads, ScanPoints, DecodePoints, LoadPoints, NoFile, queryVars,
    inputVars, claimVars, slotVars, localVars
<1>1. ASSUME NEW t \in IoThreads, NEW f \in Files, ScheduleIO(t, f) PROVE RowsAt(v)'
  BY <1>1 DEF ScheduleIO, Goto
<1>2. ASSUME NEW t \in Threads, LoadCheck(t) PROVE RowsAt(v)'
  BY <1>2 DEF LoadCheck, Raise, Goto
<1>3. ASSUME NEW t \in Threads, LoadAlready(t) PROVE RowsAt(v)'
  BY <1>3 DEF LoadAlready, Goto, AfterLoad
<1>4. ASSUME NEW t \in Threads, LoadAcquire(t) PROVE RowsAt(v)'
  BY <1>4 DEF LoadAcquire, Goto
<1>5. ASSUME NEW t \in Threads, ReadHandle(t) PROVE RowsAt(v)'
  BY <1>5 DEF ReadHandle, Goto
<1>6. ASSUME NEW t \in Threads, LoadFinish(t) PROVE RowsAt(v)'
  BY <1>6 DEF LoadFinish, Raise, Goto, AfterLoad
<1>7. ASSUME NEW t \in Threads, Throw(t) PROVE RowsAt(v)'
  BY <1>7 DEF Throw, Goto
<1>8. ASSUME NEW w \in Workers, AdmitScan(w) PROVE RowsAt(v)'
  BY <1>8 DEF AdmitScan, Goto
<1>9. ASSUME NEW w \in Workers, Retire(w) PROVE RowsAt(v)'
  BY <1>9 DEF Retire, Goto
<1>10. ASSUME NEW w \in Workers, InitDecode(w) PROVE RowsAt(v)'
  BY <1>10 DEF InitDecode, Goto
<1>11. ASSUME NEW w \in Workers, DecodeInterrupted(w) PROVE RowsAt(v)'
  BY <1>11 DEF DecodeInterrupted, Raise, Goto
<1>12. ASSUME NEW w \in Workers, DecodeUnloaded(w) PROVE RowsAt(v)'
  BY <1>12 DEF DecodeUnloaded, Goto
<1>13. ASSUME NEW w \in Workers, DecodeLoaded(w) PROVE RowsAt(v)'
  BY <1>13 DEF DecodeLoaded, SlotAnswer, NoMorePages, Goto
<1>14. ASSUME NEW w \in Workers, LockSlot(w) PROVE RowsAt(v)'
  BY <1>14 DEF LockSlot, Goto
<1>15. ASSUME NEW w \in Workers, LockSlotLoaded(w) PROVE RowsAt(v)'
  BY <1>15 DEF LockSlotLoaded, SlotAnswer, NoMorePages, Goto
<1>16. ASSUME NEW w \in Workers, LoadSlot(w) PROVE RowsAt(v)'
  BY <1>16 DEF LoadSlot, Goto
<1>17. ASSUME NEW w \in Workers, LoadSlotFails(w) PROVE RowsAt(v)'
  BY <1>17 DEF LoadSlotFails, Goto
<1>18. ASSUME NEW w \in Workers, PublishSlot(w) PROVE RowsAt(v)'
  BY <1>18 DEF PublishSlot, ReleaseSlot, Goto
<1>19. ASSUME NEW w \in Workers, PublishFailure(w) PROVE RowsAt(v)'
  BY <1>19 DEF PublishFailure, ReleaseSlot, NoMorePages, Raise, Goto
<1>20. ASSUME NEW w \in Workers, ClaimCheck(w) PROVE RowsAt(v)'
  BY <1>20 DEF ClaimCheck, NoMorePages, Goto
<1>21. ASSUME NEW w \in Workers, ClaimFetch(w) PROVE RowsAt(v)'
  BY <1>21 DEF ClaimFetch, NoMorePages, Goto
<1>22. ASSUME NEW w \in Workers, ProcessPage(w) PROVE RowsAt(v)'
  BY <1>22 DEF ProcessPage, Goto
<1>23. ASSUME NEW w \in Workers, PageFails(w) PROVE RowsAt(v)'
  BY <1>23 DEF PageFails, Raise, Goto
<1>24. ASSUME NEW w \in Workers, ReturnChunk(w) PROVE RowsAt(v)'
  BY <1>24 DEF ReturnChunk, Goto
<1>25. CASE UNCHANGED <<pc, reader, chunk, loadDone, loadFailed, nextPage>>
  BY <1>25
<1> HIDE DEF LocalTypes, SlotTypes, QueryTypes, DecodeStates, SlotLoading, LoadingAt,
    SlotAt, ClaimPoints, ClaimAt, RowsBelowCursor, RowsAt, Readable, Passed,
    ThreadsInPlace, Threads, ScanPoints, DecodePoints, LoadPoints, NoFile
<1> QED BY <1>1, <1>2, <1>3, <1>4, <1>5, <1>6, <1>7, <1>8, <1>9, <1>10, <1>11, <1>12,
    <1>13, <1>14, <1>15, <1>16, <1>17, <1>18, <1>19, <1>20, <1>21, <1>22, <1>23, <1>24,
    <1>25, ActionCases
    DEF Interrupt, OpenFile, OpenInterrupted, RefuseScan, Finish, ReleaseSlot,
        SlotAnswer, NoMorePages, Raise, vars

LEMMA ReturnedStep ==
  ASSUME pc \in [Threads -> ProgramPoints], LocalTypes, SlotTypes, QueryTypes,
         ThreadsInPlace, DecodeStates, SlotLoading, ClaimPoints, RowsBelowCursor,
         NEW r \in delivered', [Next]_vars
  PROVE  (Readable(r[1]) /\ Passed(r[1], r[2]))'
<1> USE DEF LocalTypes, SlotTypes, QueryTypes, DecodeStates, SlotLoading, LoadingAt,
    SlotAt, ClaimPoints, ClaimAt, RowsBelowCursor, RowsAt, Readable, Passed,
    ThreadsInPlace, Threads, ScanPoints, DecodePoints, LoadPoints, NoFile, queryVars,
    inputVars, claimVars, slotVars, localVars
<1>1. ASSUME NEW w \in Workers, InitDecode(w) PROVE (Readable(r[1]) /\ Passed(r[1], r[2]))'
  BY <1>1 DEF InitDecode, Goto
<1>2. ASSUME NEW w \in Workers, LoadSlot(w) PROVE (Readable(r[1]) /\ Passed(r[1], r[2]))'
  BY <1>2 DEF LoadSlot, Goto
<1>3. ASSUME NEW w \in Workers, LoadSlotFails(w) PROVE (Readable(r[1]) /\ Passed(r[1], r[2]))'
  BY <1>3 DEF LoadSlotFails, Goto
<1>4. ASSUME NEW w \in Workers, PublishSlot(w) PROVE (Readable(r[1]) /\ Passed(r[1], r[2]))'
  BY <1>4 DEF PublishSlot, ReleaseSlot, Goto
<1>5. ASSUME NEW w \in Workers, PublishFailure(w)
      PROVE  (Readable(r[1]) /\ Passed(r[1], r[2]))'
  BY <1>5 DEF PublishFailure, ReleaseSlot, NoMorePages, Raise, Goto
<1>6. ASSUME NEW w \in Workers, ClaimFetch(w) PROVE (Readable(r[1]) /\ Passed(r[1], r[2]))'
  BY <1>6 DEF ClaimFetch, NoMorePages, Goto
<1>7. ASSUME NEW w \in Workers, ReturnChunk(w) PROVE (Readable(r[1]) /\ Passed(r[1], r[2]))'
  BY <1>7 DEF ReturnChunk, Goto
<1>8. CASE UNCHANGED <<delivered, loadDone, loadFailed, nextPage>>
  BY <1>8
<1> HIDE DEF LocalTypes, SlotTypes, QueryTypes, DecodeStates, SlotLoading, LoadingAt,
    SlotAt, ClaimPoints, ClaimAt, RowsBelowCursor, RowsAt, Readable, Passed,
    ThreadsInPlace, Threads, ScanPoints, DecodePoints, LoadPoints, NoFile
<1> QED BY <1>1, <1>2, <1>3, <1>4, <1>5, <1>6, <1>7, <1>8, ActionCases
    DEF Interrupt, OpenFile, OpenInterrupted, ScheduleIO, LoadCheck, LoadAlready,
        LoadAcquire, ReadHandle, LoadFinish, Throw, AdmitScan, RefuseScan, Retire,
        DecodeInterrupted, DecodeUnloaded, DecodeLoaded, LockSlot, LockSlotLoaded,
        ClaimCheck, ProcessPage, PageFails, Finish, ReleaseSlot, SlotAnswer,
        NoMorePages, Raise, vars

-----------------------------------------------------------------------------
(* Each page once.                                                         *)

LEMMA OwnPagesStep ==
  ASSUME pc \in [Threads -> ProgramPoints], LocalTypes, SlotTypes, ThreadsInPlace,
         ClaimPoints, RowsBelowCursor, EachPageOnce, NEW v \in Workers, [Next]_vars
  PROVE  (Pending(v) \cap chunk[v] = {} /\ (Pending(v) \cup chunk[v]) \cap delivered = {})'
<1> USE DEF LocalTypes, SlotTypes, ClaimPoints, ClaimAt, RowsBelowCursor, RowsAt,
    EachPageOnce, Pending, Readable, Passed, ThreadsInPlace, Threads, ScanPoints,
    DecodePoints, LoadPoints, NoFile, queryVars, inputVars, claimVars, slotVars,
    localVars
<1>1. ASSUME NEW t \in IoThreads, NEW f \in Files, ScheduleIO(t, f)
      PROVE  (Pending(v) \cap chunk[v] = {} /\ (Pending(v) \cup chunk[v]) \cap delivered = {})'
  BY <1>1 DEF ScheduleIO, Goto
<1>2. ASSUME NEW t \in Threads, LoadCheck(t)
      PROVE  (Pending(v) \cap chunk[v] = {} /\ (Pending(v) \cup chunk[v]) \cap delivered = {})'
  BY <1>2 DEF LoadCheck, Raise, Goto
<1>3. ASSUME NEW t \in Threads, LoadAlready(t)
      PROVE  (Pending(v) \cap chunk[v] = {} /\ (Pending(v) \cup chunk[v]) \cap delivered = {})'
  BY <1>3 DEF LoadAlready, Goto, AfterLoad
<1>4. ASSUME NEW t \in Threads, LoadAcquire(t)
      PROVE  (Pending(v) \cap chunk[v] = {} /\ (Pending(v) \cup chunk[v]) \cap delivered = {})'
  BY <1>4 DEF LoadAcquire, Goto
<1>5. ASSUME NEW t \in Threads, ReadHandle(t)
      PROVE  (Pending(v) \cap chunk[v] = {} /\ (Pending(v) \cup chunk[v]) \cap delivered = {})'
  BY <1>5 DEF ReadHandle, Goto
<1>6. ASSUME NEW t \in Threads, LoadFinish(t)
      PROVE  (Pending(v) \cap chunk[v] = {} /\ (Pending(v) \cup chunk[v]) \cap delivered = {})'
  BY <1>6 DEF LoadFinish, Raise, Goto, AfterLoad
<1>7. ASSUME NEW t \in Threads, Throw(t)
      PROVE  (Pending(v) \cap chunk[v] = {} /\ (Pending(v) \cup chunk[v]) \cap delivered = {})'
  BY <1>7 DEF Throw, Goto
<1>8. ASSUME NEW w \in Workers, AdmitScan(w)
      PROVE  (Pending(v) \cap chunk[v] = {} /\ (Pending(v) \cup chunk[v]) \cap delivered = {})'
  BY <1>8 DEF AdmitScan, Goto
<1>9. ASSUME NEW w \in Workers, Retire(w)
      PROVE  (Pending(v) \cap chunk[v] = {} /\ (Pending(v) \cup chunk[v]) \cap delivered = {})'
  BY <1>9 DEF Retire, Goto
<1>10. ASSUME NEW w \in Workers, InitDecode(w)
      PROVE  (Pending(v) \cap chunk[v] = {} /\ (Pending(v) \cup chunk[v]) \cap delivered = {})'
  BY <1>10 DEF InitDecode, Goto
<1>11. ASSUME NEW w \in Workers, DecodeInterrupted(w)
      PROVE  (Pending(v) \cap chunk[v] = {} /\ (Pending(v) \cup chunk[v]) \cap delivered = {})'
  BY <1>11 DEF DecodeInterrupted, Raise, Goto
<1>12. ASSUME NEW w \in Workers, DecodeUnloaded(w)
      PROVE  (Pending(v) \cap chunk[v] = {} /\ (Pending(v) \cup chunk[v]) \cap delivered = {})'
  BY <1>12 DEF DecodeUnloaded, Goto
<1>13. ASSUME NEW w \in Workers, DecodeLoaded(w)
      PROVE  (Pending(v) \cap chunk[v] = {} /\ (Pending(v) \cup chunk[v]) \cap delivered = {})'
  BY <1>13 DEF DecodeLoaded, SlotAnswer, NoMorePages, Goto
<1>14. ASSUME NEW w \in Workers, LockSlot(w)
      PROVE  (Pending(v) \cap chunk[v] = {} /\ (Pending(v) \cup chunk[v]) \cap delivered = {})'
  BY <1>14 DEF LockSlot, Goto
<1>15. ASSUME NEW w \in Workers, LockSlotLoaded(w)
      PROVE  (Pending(v) \cap chunk[v] = {} /\ (Pending(v) \cup chunk[v]) \cap delivered = {})'
  BY <1>15 DEF LockSlotLoaded, SlotAnswer, NoMorePages, Goto
<1>16. ASSUME NEW w \in Workers, LoadSlot(w)
      PROVE  (Pending(v) \cap chunk[v] = {} /\ (Pending(v) \cup chunk[v]) \cap delivered = {})'
  BY <1>16 DEF LoadSlot, Goto
<1>17. ASSUME NEW w \in Workers, LoadSlotFails(w)
      PROVE  (Pending(v) \cap chunk[v] = {} /\ (Pending(v) \cup chunk[v]) \cap delivered = {})'
  BY <1>17 DEF LoadSlotFails, Goto
<1>18. ASSUME NEW w \in Workers, PublishSlot(w)
      PROVE  (Pending(v) \cap chunk[v] = {} /\ (Pending(v) \cup chunk[v]) \cap delivered = {})'
  BY <1>18 DEF PublishSlot, ReleaseSlot, Goto
<1>19. ASSUME NEW w \in Workers, PublishFailure(w)
      PROVE  (Pending(v) \cap chunk[v] = {} /\ (Pending(v) \cup chunk[v]) \cap delivered = {})'
  BY <1>19 DEF PublishFailure, ReleaseSlot, NoMorePages, Raise, Goto
<1>20. ASSUME NEW w \in Workers, ClaimCheck(w)
      PROVE  (Pending(v) \cap chunk[v] = {} /\ (Pending(v) \cup chunk[v]) \cap delivered = {})'
  BY <1>20 DEF ClaimCheck, NoMorePages, Goto
<1>21. ASSUME NEW w \in Workers, ClaimFetch(w)
      PROVE  (Pending(v) \cap chunk[v] = {} /\ (Pending(v) \cup chunk[v]) \cap delivered = {})'
  BY <1>21 DEF ClaimFetch, NoMorePages, Goto
<1>22. ASSUME NEW w \in Workers, ProcessPage(w)
      PROVE  (Pending(v) \cap chunk[v] = {} /\ (Pending(v) \cup chunk[v]) \cap delivered = {})'
  BY <1>22 DEF ProcessPage, Goto
<1>23. ASSUME NEW w \in Workers, PageFails(w)
      PROVE  (Pending(v) \cap chunk[v] = {} /\ (Pending(v) \cup chunk[v]) \cap delivered = {})'
  BY <1>23 DEF PageFails, Raise, Goto
<1>24. ASSUME NEW w \in Workers, ReturnChunk(w)
      PROVE  (Pending(v) \cap chunk[v] = {} /\ (Pending(v) \cup chunk[v]) \cap delivered = {})'
  BY <1>24 DEF ReturnChunk, Goto
<1>25. CASE UNCHANGED <<pc, reader, doc, page, chunk, delivered>>
  BY <1>25
<1> HIDE DEF LocalTypes, SlotTypes, ClaimPoints, ClaimAt, RowsBelowCursor, RowsAt,
    EachPageOnce, Pending, Readable, Passed, ThreadsInPlace, Threads, ScanPoints,
    DecodePoints, LoadPoints, NoFile
<1> QED BY <1>1, <1>2, <1>3, <1>4, <1>5, <1>6, <1>7, <1>8, <1>9, <1>10, <1>11, <1>12,
    <1>13, <1>14, <1>15, <1>16, <1>17, <1>18, <1>19, <1>20, <1>21, <1>22, <1>23, <1>24,
    <1>25, ActionCases
    DEF Interrupt, OpenFile, OpenInterrupted, RefuseScan, Finish, ReleaseSlot,
        SlotAnswer, NoMorePages, Raise, vars

LEMMA OthersPagesStep ==
  ASSUME pc \in [Threads -> ProgramPoints], LocalTypes, SlotTypes, ThreadsInPlace,
         ClaimPoints, RowsBelowCursor, EachPageOnce, NEW u \in Workers,
         NEW v \in Workers, u # v, [Next]_vars
  PROVE  ((Pending(u) \cup chunk[u]) \cap (Pending(v) \cup chunk[v]) = {})'
<1> USE DEF LocalTypes, SlotTypes, ClaimPoints, ClaimAt, RowsBelowCursor, RowsAt,
    EachPageOnce, Pending, Readable, Passed, ThreadsInPlace, Threads, ScanPoints,
    DecodePoints, LoadPoints, NoFile, queryVars, inputVars, claimVars, slotVars,
    localVars
<1>1. ASSUME NEW t \in IoThreads, NEW f \in Files, ScheduleIO(t, f)
      PROVE  ((Pending(u) \cup chunk[u]) \cap (Pending(v) \cup chunk[v]) = {})'
  BY <1>1 DEF ScheduleIO, Goto
<1>2. ASSUME NEW t \in Threads, LoadCheck(t)
      PROVE  ((Pending(u) \cup chunk[u]) \cap (Pending(v) \cup chunk[v]) = {})'
  BY <1>2 DEF LoadCheck, Raise, Goto
<1>3. ASSUME NEW t \in Threads, LoadAlready(t)
      PROVE  ((Pending(u) \cup chunk[u]) \cap (Pending(v) \cup chunk[v]) = {})'
  BY <1>3 DEF LoadAlready, Goto, AfterLoad
<1>4. ASSUME NEW t \in Threads, LoadAcquire(t)
      PROVE  ((Pending(u) \cup chunk[u]) \cap (Pending(v) \cup chunk[v]) = {})'
  BY <1>4 DEF LoadAcquire, Goto
<1>5. ASSUME NEW t \in Threads, ReadHandle(t)
      PROVE  ((Pending(u) \cup chunk[u]) \cap (Pending(v) \cup chunk[v]) = {})'
  BY <1>5 DEF ReadHandle, Goto
<1>6. ASSUME NEW t \in Threads, LoadFinish(t)
      PROVE  ((Pending(u) \cup chunk[u]) \cap (Pending(v) \cup chunk[v]) = {})'
  BY <1>6 DEF LoadFinish, Raise, Goto, AfterLoad
<1>7. ASSUME NEW t \in Threads, Throw(t)
      PROVE  ((Pending(u) \cup chunk[u]) \cap (Pending(v) \cup chunk[v]) = {})'
  BY <1>7 DEF Throw, Goto
<1>8. ASSUME NEW w \in Workers, AdmitScan(w)
      PROVE  ((Pending(u) \cup chunk[u]) \cap (Pending(v) \cup chunk[v]) = {})'
  BY <1>8 DEF AdmitScan, Goto
<1>9. ASSUME NEW w \in Workers, Retire(w)
      PROVE  ((Pending(u) \cup chunk[u]) \cap (Pending(v) \cup chunk[v]) = {})'
  BY <1>9 DEF Retire, Goto
<1>10. ASSUME NEW w \in Workers, InitDecode(w)
      PROVE  ((Pending(u) \cup chunk[u]) \cap (Pending(v) \cup chunk[v]) = {})'
  BY <1>10 DEF InitDecode, Goto
<1>11. ASSUME NEW w \in Workers, DecodeInterrupted(w)
      PROVE  ((Pending(u) \cup chunk[u]) \cap (Pending(v) \cup chunk[v]) = {})'
  BY <1>11 DEF DecodeInterrupted, Raise, Goto
<1>12. ASSUME NEW w \in Workers, DecodeUnloaded(w)
      PROVE  ((Pending(u) \cup chunk[u]) \cap (Pending(v) \cup chunk[v]) = {})'
  BY <1>12 DEF DecodeUnloaded, Goto
<1>13. ASSUME NEW w \in Workers, DecodeLoaded(w)
      PROVE  ((Pending(u) \cup chunk[u]) \cap (Pending(v) \cup chunk[v]) = {})'
  BY <1>13 DEF DecodeLoaded, SlotAnswer, NoMorePages, Goto
<1>14. ASSUME NEW w \in Workers, LockSlot(w)
      PROVE  ((Pending(u) \cup chunk[u]) \cap (Pending(v) \cup chunk[v]) = {})'
  BY <1>14 DEF LockSlot, Goto
<1>15. ASSUME NEW w \in Workers, LockSlotLoaded(w)
      PROVE  ((Pending(u) \cup chunk[u]) \cap (Pending(v) \cup chunk[v]) = {})'
  BY <1>15 DEF LockSlotLoaded, SlotAnswer, NoMorePages, Goto
<1>16. ASSUME NEW w \in Workers, LoadSlot(w)
      PROVE  ((Pending(u) \cup chunk[u]) \cap (Pending(v) \cup chunk[v]) = {})'
  BY <1>16 DEF LoadSlot, Goto
<1>17. ASSUME NEW w \in Workers, LoadSlotFails(w)
      PROVE  ((Pending(u) \cup chunk[u]) \cap (Pending(v) \cup chunk[v]) = {})'
  BY <1>17 DEF LoadSlotFails, Goto
<1>18. ASSUME NEW w \in Workers, PublishSlot(w)
      PROVE  ((Pending(u) \cup chunk[u]) \cap (Pending(v) \cup chunk[v]) = {})'
  BY <1>18 DEF PublishSlot, ReleaseSlot, Goto
<1>19. ASSUME NEW w \in Workers, PublishFailure(w)
      PROVE  ((Pending(u) \cup chunk[u]) \cap (Pending(v) \cup chunk[v]) = {})'
  BY <1>19 DEF PublishFailure, ReleaseSlot, NoMorePages, Raise, Goto
<1>20. ASSUME NEW w \in Workers, ClaimCheck(w)
      PROVE  ((Pending(u) \cup chunk[u]) \cap (Pending(v) \cup chunk[v]) = {})'
  BY <1>20 DEF ClaimCheck, NoMorePages, Goto
<1>21. ASSUME NEW w \in Workers, ClaimFetch(w)
      PROVE  ((Pending(u) \cup chunk[u]) \cap (Pending(v) \cup chunk[v]) = {})'
  BY <1>21 DEF ClaimFetch, NoMorePages, Goto
<1>22. ASSUME NEW w \in Workers, ProcessPage(w)
      PROVE  ((Pending(u) \cup chunk[u]) \cap (Pending(v) \cup chunk[v]) = {})'
  BY <1>22 DEF ProcessPage, Goto
<1>23. ASSUME NEW w \in Workers, PageFails(w)
      PROVE  ((Pending(u) \cup chunk[u]) \cap (Pending(v) \cup chunk[v]) = {})'
  BY <1>23 DEF PageFails, Raise, Goto
<1>24. ASSUME NEW w \in Workers, ReturnChunk(w)
      PROVE  ((Pending(u) \cup chunk[u]) \cap (Pending(v) \cup chunk[v]) = {})'
  BY <1>24 DEF ReturnChunk, Goto
<1>25. CASE UNCHANGED <<pc, reader, doc, page, chunk, delivered>>
  BY <1>25
<1> HIDE DEF LocalTypes, SlotTypes, ClaimPoints, ClaimAt, RowsBelowCursor, RowsAt,
    EachPageOnce, Pending, Readable, Passed, ThreadsInPlace, Threads, ScanPoints,
    DecodePoints, LoadPoints, NoFile
<1> QED BY <1>1, <1>2, <1>3, <1>4, <1>5, <1>6, <1>7, <1>8, <1>9, <1>10, <1>11, <1>12,
    <1>13, <1>14, <1>15, <1>16, <1>17, <1>18, <1>19, <1>20, <1>21, <1>22, <1>23, <1>24,
    <1>25, ActionCases
    DEF Interrupt, OpenFile, OpenInterrupted, RefuseScan, Finish, ReleaseSlot,
        SlotAnswer, NoMorePages, Raise, vars

-----------------------------------------------------------------------------
(* No page lost, no reader left alone, no failure passed over.             *)

LEMMA NotLast ==
  ASSUME NEW n \in Nat, NEW p \in Nat, p < n + 1, p # n
  PROVE  p < n
  OBVIOUS

\* A page a thread holds stays with it until it is returned.
LEMMA HeldStep ==
  ASSUME pc \in [Threads -> ProgramPoints], LocalTypes, SlotTypes, QueryTypes,
         ClaimTypes, ThreadsInPlace, DecodeStates, SlotLoading, ClaimPoints,
         RowsBelowCursor, FailureReported, Alive', NEW g \in Files, NEW p \in Nat,
         NEW v \in Workers, HeldBy(g, p, v), [Next]_vars
  PROVE  HeldBy(g, p, v)' \/ <<g, p>> \in delivered'
<1> USE DEF LocalTypes, SlotTypes, QueryTypes, ClaimTypes, Threads, ScanPoints,
    DecodePoints, LoadPoints, ThreadsInPlace, Faults, NoFile, RowsBelowCursor, RowsAt,
    FailureReported, Alive, Pending, HeldBy, queryVars, inputVars, claimVars, slotVars,
    localVars
<1>1. ASSUME NEW f \in Files, OpenInterrupted(f)
      PROVE  HeldBy(g, p, v)' \/ <<g, p>> \in delivered'
  BY <1>1 DEF OpenInterrupted
<1>2. ASSUME NEW t \in IoThreads, NEW f \in Files, ScheduleIO(t, f)
      PROVE  HeldBy(g, p, v)' \/ <<g, p>> \in delivered'
  BY <1>2 DEF ScheduleIO, Goto
<1>3. ASSUME NEW t \in Threads, LoadCheck(t) PROVE HeldBy(g, p, v)' \/ <<g, p>> \in delivered'
  BY <1>3 DEF LoadCheck, Raise, Goto
<1>4. ASSUME NEW t \in Threads, LoadAlready(t)
      PROVE  HeldBy(g, p, v)' \/ <<g, p>> \in delivered'
  BY <1>4 DEF LoadAlready, Goto, AfterLoad
<1>5. ASSUME NEW t \in Threads, LoadAcquire(t)
      PROVE  HeldBy(g, p, v)' \/ <<g, p>> \in delivered'
  BY <1>5 DEF LoadAcquire, Goto
<1>6. ASSUME NEW t \in Threads, ReadHandle(t)
      PROVE  HeldBy(g, p, v)' \/ <<g, p>> \in delivered'
  BY <1>6 DEF ReadHandle, Goto
<1>7. ASSUME NEW t \in Threads, LoadFinish(t)
      PROVE  HeldBy(g, p, v)' \/ <<g, p>> \in delivered'
  BY <1>7 DEF LoadFinish, Raise, Goto, AfterLoad
<1>8. ASSUME NEW t \in Threads, Throw(t) PROVE HeldBy(g, p, v)' \/ <<g, p>> \in delivered'
  BY <1>8 DEF Throw, Goto
<1>9. ASSUME NEW w \in Workers, AdmitScan(w) PROVE HeldBy(g, p, v)' \/ <<g, p>> \in delivered'
  BY <1>9 DEF AdmitScan, Goto
<1>10. ASSUME NEW w \in Workers, Retire(w) PROVE HeldBy(g, p, v)' \/ <<g, p>> \in delivered'
  BY <1>10 DEF Retire, Goto
<1>11. ASSUME NEW w \in Workers, InitDecode(w)
      PROVE  HeldBy(g, p, v)' \/ <<g, p>> \in delivered'
  BY <1>11 DEF InitDecode, Goto
<1>12. ASSUME NEW w \in Workers, DecodeInterrupted(w)
      PROVE  HeldBy(g, p, v)' \/ <<g, p>> \in delivered'
  BY <1>12 DEF DecodeInterrupted, Raise, Goto
<1>13. ASSUME NEW w \in Workers, DecodeUnloaded(w)
      PROVE  HeldBy(g, p, v)' \/ <<g, p>> \in delivered'
  BY <1>13 DEF DecodeUnloaded, Goto
<1>14. ASSUME NEW w \in Workers, DecodeLoaded(w)
      PROVE  HeldBy(g, p, v)' \/ <<g, p>> \in delivered'
  BY <1>14 DEF DecodeLoaded, SlotAnswer, NoMorePages, Goto
<1>15. ASSUME NEW w \in Workers, LockSlot(w) PROVE HeldBy(g, p, v)' \/ <<g, p>> \in delivered'
  BY <1>15 DEF LockSlot, Goto
<1>16. ASSUME NEW w \in Workers, LockSlotLoaded(w)
      PROVE  HeldBy(g, p, v)' \/ <<g, p>> \in delivered'
  BY <1>16 DEF LockSlotLoaded, SlotAnswer, NoMorePages, Goto
<1>17. ASSUME NEW w \in Workers, LoadSlot(w) PROVE HeldBy(g, p, v)' \/ <<g, p>> \in delivered'
  BY <1>17 DEF LoadSlot, Goto
<1>18. ASSUME NEW w \in Workers, LoadSlotFails(w)
      PROVE  HeldBy(g, p, v)' \/ <<g, p>> \in delivered'
  BY <1>18 DEF LoadSlotFails, Goto
<1>19. ASSUME NEW w \in Workers, PublishSlot(w)
      PROVE  HeldBy(g, p, v)' \/ <<g, p>> \in delivered'
  BY <1>19 DEF PublishSlot, ReleaseSlot, Goto
<1>20. ASSUME NEW w \in Workers, PublishFailure(w)
      PROVE  HeldBy(g, p, v)' \/ <<g, p>> \in delivered'
  BY <1>20 DEF PublishFailure, ReleaseSlot, NoMorePages, Raise, Goto
<1>21. ASSUME NEW w \in Workers, ClaimCheck(w)
      PROVE  HeldBy(g, p, v)' \/ <<g, p>> \in delivered'
  BY <1>21 DEF ClaimCheck, NoMorePages, Goto
<1>22. ASSUME NEW w \in Workers, ClaimFetch(w)
      PROVE  HeldBy(g, p, v)' \/ <<g, p>> \in delivered'
  BY <1>22 DEF ClaimFetch, NoMorePages, Goto
<1>23. ASSUME NEW w \in Workers, ProcessPage(w)
      PROVE  HeldBy(g, p, v)' \/ <<g, p>> \in delivered'
  BY <1>23 DEF ProcessPage, Goto
<1>24. ASSUME NEW w \in Workers, PageFails(w)
      PROVE  HeldBy(g, p, v)' \/ <<g, p>> \in delivered'
  BY <1>24 DEF PageFails, Raise, Goto
<1>25. ASSUME NEW w \in Workers, ReturnChunk(w)
      PROVE  HeldBy(g, p, v)' \/ <<g, p>> \in delivered'
  BY <1>25 DEF ReturnChunk, Goto
<1>26. ASSUME Finish PROVE HeldBy(g, p, v)' \/ <<g, p>> \in delivered'
  BY <1>26 DEF Finish
<1>27. CASE UNCHANGED <<pc, reader, doc, page, chunk, delivered, query>>
  BY <1>27
<1> HIDE DEF LocalTypes, SlotTypes, QueryTypes, ClaimTypes, Threads, ScanPoints,
    DecodePoints, LoadPoints, ThreadsInPlace, Faults, NoFile, RowsBelowCursor, RowsAt,
    FailureReported, Alive, Pending, HeldBy
<1> QED BY <1>1, <1>2, <1>3, <1>4, <1>5, <1>6, <1>7, <1>8, <1>9, <1>10, <1>11, <1>12,
    <1>13, <1>14, <1>15, <1>16, <1>17, <1>18, <1>19, <1>20, <1>21, <1>22, <1>23, <1>24,
    <1>25, <1>26, <1>27, ActionCases
    DEF Interrupt, OpenFile, RefuseScan, ReleaseSlot, SlotAnswer, NoMorePages, Raise,
        vars

\* The cursor passes a page only by giving it to a thread.
LEMMA PassedPagesStep ==
  ASSUME pc \in [Threads -> ProgramPoints], LocalTypes, SlotTypes, QueryTypes,
         ClaimTypes, ThreadsInPlace, DecodeStates, SlotLoading, ClaimPoints,
         RowsBelowCursor, NEW g \in Files, NEW p \in Nat, Readable(g)', Passed(g, p)',
         [Next]_vars
  PROVE  (Readable(g) /\ Passed(g, p)) \/ \E v \in Workers : HeldBy(g, p, v)'
<1> USE DEF LocalTypes, SlotTypes, QueryTypes, ClaimTypes, Threads, ScanPoints,
    DecodePoints, LoadPoints, ThreadsInPlace, Faults, NoFile, DecodeStates,
    SlotLoading, LoadingAt, SlotAt, ClaimPoints, ClaimAt, Pending, HeldBy, Readable,
    Passed, queryVars, inputVars, claimVars, slotVars, localVars
<1>1. ASSUME NEW t \in IoThreads, NEW f \in Files, ScheduleIO(t, f)
      PROVE  (Readable(g) /\ Passed(g, p)) \/ \E v \in Workers : HeldBy(g, p, v)'
  BY <1>1 DEF ScheduleIO, Goto
<1>2. ASSUME NEW t \in Threads, LoadCheck(t)
      PROVE  (Readable(g) /\ Passed(g, p)) \/ \E v \in Workers : HeldBy(g, p, v)'
  BY <1>2 DEF LoadCheck, Raise, Goto
<1>3. ASSUME NEW t \in Threads, LoadAlready(t)
      PROVE  (Readable(g) /\ Passed(g, p)) \/ \E v \in Workers : HeldBy(g, p, v)'
  BY <1>3 DEF LoadAlready, Goto, AfterLoad
<1>4. ASSUME NEW t \in Threads, LoadAcquire(t)
      PROVE  (Readable(g) /\ Passed(g, p)) \/ \E v \in Workers : HeldBy(g, p, v)'
  BY <1>4 DEF LoadAcquire, Goto
<1>5. ASSUME NEW t \in Threads, ReadHandle(t)
      PROVE  (Readable(g) /\ Passed(g, p)) \/ \E v \in Workers : HeldBy(g, p, v)'
  BY <1>5 DEF ReadHandle, Goto
<1>6. ASSUME NEW t \in Threads, LoadFinish(t)
      PROVE  (Readable(g) /\ Passed(g, p)) \/ \E v \in Workers : HeldBy(g, p, v)'
  BY <1>6 DEF LoadFinish, Raise, Goto, AfterLoad
<1>7. ASSUME NEW t \in Threads, Throw(t)
      PROVE  (Readable(g) /\ Passed(g, p)) \/ \E v \in Workers : HeldBy(g, p, v)'
  BY <1>7 DEF Throw, Goto
<1>8. ASSUME NEW w \in Workers, AdmitScan(w)
      PROVE  (Readable(g) /\ Passed(g, p)) \/ \E v \in Workers : HeldBy(g, p, v)'
  BY <1>8 DEF AdmitScan, Goto
<1>9. ASSUME NEW w \in Workers, Retire(w)
      PROVE  (Readable(g) /\ Passed(g, p)) \/ \E v \in Workers : HeldBy(g, p, v)'
  BY <1>9 DEF Retire, Goto
<1>10. ASSUME NEW w \in Workers, InitDecode(w)
      PROVE  (Readable(g) /\ Passed(g, p)) \/ \E v \in Workers : HeldBy(g, p, v)'
  BY <1>10 DEF InitDecode, Goto
<1>11. ASSUME NEW w \in Workers, DecodeInterrupted(w)
      PROVE  (Readable(g) /\ Passed(g, p)) \/ \E v \in Workers : HeldBy(g, p, v)'
  BY <1>11 DEF DecodeInterrupted, Raise, Goto
<1>12. ASSUME NEW w \in Workers, DecodeUnloaded(w)
      PROVE  (Readable(g) /\ Passed(g, p)) \/ \E v \in Workers : HeldBy(g, p, v)'
  BY <1>12 DEF DecodeUnloaded, Goto
<1>13. ASSUME NEW w \in Workers, DecodeLoaded(w)
      PROVE  (Readable(g) /\ Passed(g, p)) \/ \E v \in Workers : HeldBy(g, p, v)'
  BY <1>13 DEF DecodeLoaded, SlotAnswer, NoMorePages, Goto
<1>14. ASSUME NEW w \in Workers, LockSlot(w)
      PROVE  (Readable(g) /\ Passed(g, p)) \/ \E v \in Workers : HeldBy(g, p, v)'
  BY <1>14 DEF LockSlot, Goto
<1>15. ASSUME NEW w \in Workers, LockSlotLoaded(w)
      PROVE  (Readable(g) /\ Passed(g, p)) \/ \E v \in Workers : HeldBy(g, p, v)'
  BY <1>15 DEF LockSlotLoaded, SlotAnswer, NoMorePages, Goto
<1>16. ASSUME NEW w \in Workers, LoadSlot(w)
      PROVE  (Readable(g) /\ Passed(g, p)) \/ \E v \in Workers : HeldBy(g, p, v)'
  BY <1>16 DEF LoadSlot, Goto
<1>17. ASSUME NEW w \in Workers, LoadSlotFails(w)
      PROVE  (Readable(g) /\ Passed(g, p)) \/ \E v \in Workers : HeldBy(g, p, v)'
  BY <1>17 DEF LoadSlotFails, Goto
<1>18. ASSUME NEW w \in Workers, PublishSlot(w)
      PROVE  (Readable(g) /\ Passed(g, p)) \/ \E v \in Workers : HeldBy(g, p, v)'
  BY <1>18, RangeFacts DEF PublishSlot, ReleaseSlot, Goto
<1>19. ASSUME NEW w \in Workers, PublishFailure(w)
      PROVE  (Readable(g) /\ Passed(g, p)) \/ \E v \in Workers : HeldBy(g, p, v)'
  BY <1>19 DEF PublishFailure, ReleaseSlot, NoMorePages, Raise, Goto
<1>20. ASSUME NEW w \in Workers, ClaimCheck(w)
      PROVE  (Readable(g) /\ Passed(g, p)) \/ \E v \in Workers : HeldBy(g, p, v)'
  BY <1>20 DEF ClaimCheck, NoMorePages, Goto
<1>21. ASSUME NEW w \in Workers, ClaimFetch(w)
      PROVE  (Readable(g) /\ Passed(g, p)) \/ \E v \in Workers : HeldBy(g, p, v)'
  <2> USE <1>21 DEF ClaimFetch, NoMorePages, Goto
  <2>1. CASE g # reader[w]
    BY <2>1
  <2>3. CASE g = reader[w] /\ p # nextPage[g]
    <3>1. nextPage[g] \in Nat /\ nextPage'[g] = nextPage[g] + 1
      BY <2>3
    <3>2. p < nextPage'[g]
      BY <2>3
    <3>3. p < nextPage[g]
      BY <2>3, <3>1, <3>2, NotLast
    <3> QED BY <3>3
  <2>2. CASE g = reader[w] /\ p = nextPage[g]
    <3>1. lastPage[g] = LastOf(g)
      BY <2>2
    <3>2. pc'[w] = "page" /\ page'[w] = p /\ doc'[w] \in {NoFile, g} /\ reader'[w] = g
      BY <2>2, <3>1
    <3>3. HeldBy(g, p, w)'
      BY <3>2
    <3> QED BY <3>3
  <2> QED BY <2>1, <2>2, <2>3
<1>22. ASSUME NEW w \in Workers, ProcessPage(w)
      PROVE  (Readable(g) /\ Passed(g, p)) \/ \E v \in Workers : HeldBy(g, p, v)'
  BY <1>22 DEF ProcessPage, Goto
<1>23. ASSUME NEW w \in Workers, PageFails(w)
      PROVE  (Readable(g) /\ Passed(g, p)) \/ \E v \in Workers : HeldBy(g, p, v)'
  BY <1>23 DEF PageFails, Raise, Goto
<1>24. ASSUME NEW w \in Workers, ReturnChunk(w)
      PROVE  (Readable(g) /\ Passed(g, p)) \/ \E v \in Workers : HeldBy(g, p, v)'
  BY <1>24 DEF ReturnChunk, Goto
<1>25. CASE UNCHANGED <<pc, reader, page, chunk, doc, loadDone, loadFailed, nextPage>>
  BY <1>25
<1> HIDE DEF LocalTypes, SlotTypes, QueryTypes, ClaimTypes, Threads, ScanPoints,
    DecodePoints, LoadPoints, ThreadsInPlace, Faults, NoFile, DecodeStates,
    SlotLoading, LoadingAt, SlotAt, ClaimPoints, ClaimAt, Pending, HeldBy, Readable,
    Passed
<1> QED BY <1>1, <1>2, <1>3, <1>4, <1>5, <1>6, <1>7, <1>8, <1>9, <1>10, <1>11, <1>12,
    <1>13, <1>14, <1>15, <1>16, <1>17, <1>18, <1>19, <1>20, <1>21, <1>22, <1>23, <1>24,
    <1>25, ActionCases
    DEF Interrupt, OpenFile, OpenInterrupted, RefuseScan, Finish, ReleaseSlot,
        SlotAnswer, NoMorePages, Raise, vars

LEMMA AliveStep ==
  ASSUME Alive', [Next]_vars
  PROVE  Alive
<1> USE DEF Alive, queryVars, inputVars, claimVars, slotVars, localVars
<1>1. ASSUME NEW f \in Files, OpenInterrupted(f) PROVE Alive
  BY <1>1 DEF OpenInterrupted
<1>2. ASSUME NEW t \in Threads, Throw(t) PROVE Alive
  BY <1>2 DEF Throw, Goto
<1>3. ASSUME Finish PROVE Alive
  BY <1>3 DEF Finish
<1>4. CASE UNCHANGED <<query>>
  BY <1>4
<1> HIDE DEF Alive
<1> QED BY <1>1, <1>2, <1>3, <1>4, ActionCases
    DEF Interrupt, OpenFile, ScheduleIO, LoadCheck, LoadAlready, LoadAcquire,
        ReadHandle, LoadFinish, AdmitScan, RefuseScan, Retire, InitDecode,
        DecodeInterrupted, DecodeUnloaded, DecodeLoaded, LockSlot, LockSlotLoaded,
        LoadSlot, LoadSlotFails, PublishSlot, PublishFailure, ClaimCheck, ClaimFetch,
        ProcessPage, PageFails, ReturnChunk, ReleaseSlot, SlotAnswer, NoMorePages,
        Raise, vars

LEMMA ReturnedGrowStep ==
  ASSUME NEW r \in delivered, [Next]_vars
  PROVE  r \in delivered'
<1> USE DEF Alive, queryVars, inputVars, claimVars, slotVars, localVars
<1>1. ASSUME NEW w \in Workers, ReturnChunk(w) PROVE r \in delivered'
  BY <1>1 DEF ReturnChunk, Goto
<1>2. CASE UNCHANGED <<delivered>>
  BY <1>2
<1> HIDE DEF Alive
<1> QED BY <1>1, <1>2, ActionCases
    DEF Interrupt, OpenFile, OpenInterrupted, ScheduleIO, LoadCheck, LoadAlready,
        LoadAcquire, ReadHandle, LoadFinish, Throw, AdmitScan, RefuseScan, Retire,
        InitDecode, DecodeInterrupted, DecodeUnloaded, DecodeLoaded, LockSlot,
        LockSlotLoaded, LoadSlot, LoadSlotFails, PublishSlot, PublishFailure,
        ClaimCheck, ClaimFetch, ProcessPage, PageFails, Finish, ReleaseSlot,
        SlotAnswer, NoMorePages, Raise, vars

LEMMA DoneGrowStep ==
  ASSUME ClaimTypes, NEW g \in Files, done[g], [Next]_vars
  PROVE  done'[g]
<1> USE DEF ClaimTypes, queryVars, inputVars, claimVars, slotVars, localVars
<1>1. ASSUME NEW w \in Workers, ReturnChunk(w) PROVE done'[g]
  BY <1>1 DEF ReturnChunk, Goto
<1>2. CASE UNCHANGED <<done>>
  BY <1>2
<1> HIDE DEF ClaimTypes
<1> QED BY <1>1, <1>2, ActionCases
    DEF Interrupt, OpenFile, OpenInterrupted, ScheduleIO, LoadCheck, LoadAlready,
        LoadAcquire, ReadHandle, LoadFinish, Throw, AdmitScan, RefuseScan, Retire,
        InitDecode, DecodeInterrupted, DecodeUnloaded, DecodeLoaded, LockSlot,
        LockSlotLoaded, LoadSlot, LoadSlotFails, PublishSlot, PublishFailure,
        ClaimCheck, ClaimFetch, ProcessPage, PageFails, Finish, ReleaseSlot,
        SlotAnswer, NoMorePages, Raise, vars

LEMMA EmptyAtEndStep ==
  ASSUME pc \in [Threads -> ProgramPoints], LocalTypes, SlotTypes, QueryTypes,
         ClaimTypes, ThreadsInPlace, DecodeStates, SlotLoading, ClaimPoints,
         RowsBelowCursor, FailureReported, NoPageLost, Alive', NEW v \in Workers,
         pc'[v] = "end", [Next]_vars
  PROVE  chunk'[v] = {}
<1> USE DEF LocalTypes, SlotTypes, QueryTypes, ClaimTypes, Threads, ScanPoints,
    DecodePoints, LoadPoints, ThreadsInPlace, Faults, NoFile, RowsBelowCursor, RowsAt,
    NoPageLost, Alive, FailureReported, queryVars, inputVars, claimVars, slotVars,
    localVars
<1>1. ASSUME NEW f \in Files, OpenInterrupted(f) PROVE chunk'[v] = {}
  BY <1>1 DEF OpenInterrupted
<1>2. ASSUME NEW t \in IoThreads, NEW f \in Files, ScheduleIO(t, f) PROVE chunk'[v] = {}
  BY <1>2 DEF ScheduleIO, Goto
<1>3. ASSUME NEW t \in Threads, LoadCheck(t) PROVE chunk'[v] = {}
  BY <1>3 DEF LoadCheck, Raise, Goto
<1>4. ASSUME NEW t \in Threads, LoadAlready(t) PROVE chunk'[v] = {}
  BY <1>4 DEF LoadAlready, Goto, AfterLoad
<1>5. ASSUME NEW t \in Threads, LoadAcquire(t) PROVE chunk'[v] = {}
  BY <1>5 DEF LoadAcquire, Goto
<1>6. ASSUME NEW t \in Threads, ReadHandle(t) PROVE chunk'[v] = {}
  BY <1>6 DEF ReadHandle, Goto
<1>7. ASSUME NEW t \in Threads, LoadFinish(t) PROVE chunk'[v] = {}
  BY <1>7 DEF LoadFinish, Raise, Goto, AfterLoad
<1>8. ASSUME NEW t \in Threads, Throw(t) PROVE chunk'[v] = {}
  BY <1>8 DEF Throw, Goto
<1>9. ASSUME NEW w \in Workers, AdmitScan(w) PROVE chunk'[v] = {}
  BY <1>9 DEF AdmitScan, Goto
<1>10. ASSUME NEW w \in Workers, Retire(w) PROVE chunk'[v] = {}
  BY <1>10 DEF Retire, Goto
<1>11. ASSUME NEW w \in Workers, InitDecode(w) PROVE chunk'[v] = {}
  BY <1>11 DEF InitDecode, Goto
<1>12. ASSUME NEW w \in Workers, DecodeInterrupted(w) PROVE chunk'[v] = {}
  BY <1>12 DEF DecodeInterrupted, Raise, Goto
<1>13. ASSUME NEW w \in Workers, DecodeUnloaded(w) PROVE chunk'[v] = {}
  BY <1>13 DEF DecodeUnloaded, Goto
<1>14. ASSUME NEW w \in Workers, DecodeLoaded(w) PROVE chunk'[v] = {}
  BY <1>14 DEF DecodeLoaded, SlotAnswer, NoMorePages, Goto
<1>15. ASSUME NEW w \in Workers, LockSlot(w) PROVE chunk'[v] = {}
  BY <1>15 DEF LockSlot, Goto
<1>16. ASSUME NEW w \in Workers, LockSlotLoaded(w) PROVE chunk'[v] = {}
  BY <1>16 DEF LockSlotLoaded, SlotAnswer, NoMorePages, Goto
<1>17. ASSUME NEW w \in Workers, LoadSlot(w) PROVE chunk'[v] = {}
  BY <1>17 DEF LoadSlot, Goto
<1>18. ASSUME NEW w \in Workers, LoadSlotFails(w) PROVE chunk'[v] = {}
  BY <1>18 DEF LoadSlotFails, Goto
<1>19. ASSUME NEW w \in Workers, PublishSlot(w) PROVE chunk'[v] = {}
  BY <1>19 DEF PublishSlot, ReleaseSlot, Goto
<1>20. ASSUME NEW w \in Workers, PublishFailure(w) PROVE chunk'[v] = {}
  BY <1>20 DEF PublishFailure, ReleaseSlot, NoMorePages, Raise, Goto
<1>21. ASSUME NEW w \in Workers, ClaimCheck(w) PROVE chunk'[v] = {}
  BY <1>21 DEF ClaimCheck, NoMorePages, Goto
<1>22. ASSUME NEW w \in Workers, ClaimFetch(w) PROVE chunk'[v] = {}
  BY <1>22 DEF ClaimFetch, NoMorePages, Goto
<1>23. ASSUME NEW w \in Workers, ProcessPage(w) PROVE chunk'[v] = {}
  BY <1>23 DEF ProcessPage, Goto
<1>24. ASSUME NEW w \in Workers, PageFails(w) PROVE chunk'[v] = {}
  BY <1>24 DEF PageFails, Raise, Goto
<1>25. ASSUME NEW w \in Workers, ReturnChunk(w) PROVE chunk'[v] = {}
  BY <1>25 DEF ReturnChunk, Goto
<1>26. ASSUME Finish PROVE chunk'[v] = {}
  BY <1>26 DEF Finish
<1>27. CASE UNCHANGED <<pc, chunk, query>>
  BY <1>27
<1> HIDE DEF LocalTypes, SlotTypes, QueryTypes, ClaimTypes, Threads, ScanPoints,
    DecodePoints, LoadPoints, ThreadsInPlace, Faults, NoFile, RowsBelowCursor, RowsAt,
    NoPageLost, Alive, FailureReported
<1> QED BY <1>1, <1>2, <1>3, <1>4, <1>5, <1>6, <1>7, <1>8, <1>9, <1>10, <1>11, <1>12,
    <1>13, <1>14, <1>15, <1>16, <1>17, <1>18, <1>19, <1>20, <1>21, <1>22, <1>23, <1>24,
    <1>25, <1>26, <1>27, ActionCases
    DEF Interrupt, OpenFile, RefuseScan, ReleaseSlot, SlotAnswer, NoMorePages, Raise,
        vars

\* A thread leaves a reader only by marking it done, or with an error.
LEMMA InsideStep ==
  ASSUME pc \in [Threads -> ProgramPoints], LocalTypes, SlotTypes, QueryTypes,
         ClaimTypes, ThreadsInPlace, DecodeStates, SlotLoading, ClaimPoints,
         RowsBelowCursor, FailureReported, Alive', NEW v \in Workers, NEW g \in Files,
         Inside(v, g), [Next]_vars
  PROVE  Inside(v, g)' \/ done'[g]
<1> USE DEF LocalTypes, SlotTypes, QueryTypes, ClaimTypes, Threads, ScanPoints,
    DecodePoints, LoadPoints, ThreadsInPlace, Faults, NoFile, ClaimPoints, ClaimAt,
    RowsBelowCursor, RowsAt, Inside, FailureReported, Alive, queryVars, inputVars,
    claimVars, slotVars, localVars
<1>1. ASSUME NEW f \in Files, OpenInterrupted(f) PROVE Inside(v, g)' \/ done'[g]
  BY <1>1 DEF OpenInterrupted
<1>2. ASSUME NEW t \in IoThreads, NEW f \in Files, ScheduleIO(t, f)
      PROVE  Inside(v, g)' \/ done'[g]
  BY <1>2 DEF ScheduleIO, Goto
<1>3. ASSUME NEW t \in Threads, LoadCheck(t) PROVE Inside(v, g)' \/ done'[g]
  BY <1>3 DEF LoadCheck, Raise, Goto
<1>4. ASSUME NEW t \in Threads, LoadAlready(t) PROVE Inside(v, g)' \/ done'[g]
  BY <1>4 DEF LoadAlready, Goto, AfterLoad
<1>5. ASSUME NEW t \in Threads, LoadAcquire(t) PROVE Inside(v, g)' \/ done'[g]
  BY <1>5 DEF LoadAcquire, Goto
<1>6. ASSUME NEW t \in Threads, ReadHandle(t) PROVE Inside(v, g)' \/ done'[g]
  BY <1>6 DEF ReadHandle, Goto
<1>7. ASSUME NEW t \in Threads, LoadFinish(t) PROVE Inside(v, g)' \/ done'[g]
  BY <1>7 DEF LoadFinish, Raise, Goto, AfterLoad
<1>8. ASSUME NEW t \in Threads, Throw(t) PROVE Inside(v, g)' \/ done'[g]
  BY <1>8 DEF Throw, Goto
<1>9. ASSUME NEW w \in Workers, AdmitScan(w) PROVE Inside(v, g)' \/ done'[g]
  BY <1>9 DEF AdmitScan, Goto
<1>10. ASSUME NEW w \in Workers, Retire(w) PROVE Inside(v, g)' \/ done'[g]
  BY <1>10 DEF Retire, Goto
<1>11. ASSUME NEW w \in Workers, InitDecode(w) PROVE Inside(v, g)' \/ done'[g]
  BY <1>11 DEF InitDecode, Goto
<1>12. ASSUME NEW w \in Workers, DecodeInterrupted(w) PROVE Inside(v, g)' \/ done'[g]
  BY <1>12 DEF DecodeInterrupted, Raise, Goto
<1>13. ASSUME NEW w \in Workers, DecodeUnloaded(w) PROVE Inside(v, g)' \/ done'[g]
  BY <1>13 DEF DecodeUnloaded, Goto
<1>14. ASSUME NEW w \in Workers, DecodeLoaded(w) PROVE Inside(v, g)' \/ done'[g]
  BY <1>14 DEF DecodeLoaded, SlotAnswer, NoMorePages, Goto
<1>15. ASSUME NEW w \in Workers, LockSlot(w) PROVE Inside(v, g)' \/ done'[g]
  BY <1>15 DEF LockSlot, Goto
<1>16. ASSUME NEW w \in Workers, LockSlotLoaded(w) PROVE Inside(v, g)' \/ done'[g]
  BY <1>16 DEF LockSlotLoaded, SlotAnswer, NoMorePages, Goto
<1>17. ASSUME NEW w \in Workers, LoadSlot(w) PROVE Inside(v, g)' \/ done'[g]
  BY <1>17 DEF LoadSlot, Goto
<1>18. ASSUME NEW w \in Workers, LoadSlotFails(w) PROVE Inside(v, g)' \/ done'[g]
  BY <1>18 DEF LoadSlotFails, Goto
<1>19. ASSUME NEW w \in Workers, PublishSlot(w) PROVE Inside(v, g)' \/ done'[g]
  BY <1>19 DEF PublishSlot, ReleaseSlot, Goto
<1>20. ASSUME NEW w \in Workers, PublishFailure(w) PROVE Inside(v, g)' \/ done'[g]
  BY <1>20 DEF PublishFailure, ReleaseSlot, NoMorePages, Raise, Goto
<1>21. ASSUME NEW w \in Workers, ClaimCheck(w) PROVE Inside(v, g)' \/ done'[g]
  BY <1>21 DEF ClaimCheck, NoMorePages, Goto
<1>22. ASSUME NEW w \in Workers, ClaimFetch(w) PROVE Inside(v, g)' \/ done'[g]
  BY <1>22 DEF ClaimFetch, NoMorePages, Goto
<1>23. ASSUME NEW w \in Workers, ProcessPage(w) PROVE Inside(v, g)' \/ done'[g]
  BY <1>23 DEF ProcessPage, Goto
<1>24. ASSUME NEW w \in Workers, PageFails(w) PROVE Inside(v, g)' \/ done'[g]
  BY <1>24 DEF PageFails, Raise, Goto
<1>25. ASSUME NEW w \in Workers, ReturnChunk(w) PROVE Inside(v, g)' \/ done'[g]
  BY <1>25 DEF ReturnChunk, Goto
<1>26. ASSUME Finish PROVE Inside(v, g)' \/ done'[g]
  BY <1>26 DEF Finish
<1>27. CASE UNCHANGED <<pc, reader, done, query>>
  BY <1>27
<1> HIDE DEF LocalTypes, SlotTypes, QueryTypes, ClaimTypes, Threads, ScanPoints,
    DecodePoints, LoadPoints, ThreadsInPlace, Faults, NoFile, ClaimPoints, ClaimAt,
    RowsBelowCursor, RowsAt, Inside, FailureReported, Alive
<1> QED BY <1>1, <1>2, <1>3, <1>4, <1>5, <1>6, <1>7, <1>8, <1>9, <1>10, <1>11, <1>12,
    <1>13, <1>14, <1>15, <1>16, <1>17, <1>18, <1>19, <1>20, <1>21, <1>22, <1>23, <1>24,
    <1>25, <1>26, <1>27, ActionCases
    DEF Interrupt, OpenFile, RefuseScan, ReleaseSlot, SlotAnswer, NoMorePages, Raise,
        vars

LEMMA DoneDrainedStep ==
  ASSUME pc \in [Threads -> ProgramPoints], LocalTypes, SlotTypes, QueryTypes,
         ClaimTypes, ThreadsInPlace, DecodeStates, SlotLoading, ClaimPoints,
         RowsBelowCursor, ReadersAttended, Alive', NEW g \in Files, done'[g],
         [Next]_vars
  PROVE  Drained(g)'
<1> USE DEF LocalTypes, SlotTypes, QueryTypes, ClaimTypes, Threads, ScanPoints,
    DecodePoints, LoadPoints, ThreadsInPlace, Faults, NoFile, DecodeStates,
    SlotLoading, LoadingAt, SlotAt, ClaimPoints, ClaimAt, ReadersAttended, Attended,
    Alive, Drained, queryVars, inputVars, claimVars, slotVars, localVars
<1>1. ASSUME NEW f \in Files, OpenInterrupted(f) PROVE Drained(g)'
  BY <1>1 DEF OpenInterrupted
<1>2. ASSUME NEW t \in IoThreads, NEW f \in Files, ScheduleIO(t, f) PROVE Drained(g)'
  BY <1>2 DEF ScheduleIO, Goto
<1>3. ASSUME NEW t \in Threads, LoadCheck(t) PROVE Drained(g)'
  BY <1>3 DEF LoadCheck, Raise, Goto
<1>4. ASSUME NEW t \in Threads, LoadAlready(t) PROVE Drained(g)'
  BY <1>4 DEF LoadAlready, Goto, AfterLoad
<1>5. ASSUME NEW t \in Threads, LoadAcquire(t) PROVE Drained(g)'
  BY <1>5 DEF LoadAcquire, Goto
<1>6. ASSUME NEW t \in Threads, ReadHandle(t) PROVE Drained(g)'
  BY <1>6 DEF ReadHandle, Goto
<1>7. ASSUME NEW t \in Threads, LoadFinish(t) PROVE Drained(g)'
  BY <1>7 DEF LoadFinish, Raise, Goto, AfterLoad
<1>8. ASSUME NEW t \in Threads, Throw(t) PROVE Drained(g)'
  BY <1>8 DEF Throw, Goto
<1>9. ASSUME NEW w \in Workers, AdmitScan(w) PROVE Drained(g)'
  BY <1>9 DEF AdmitScan, Goto
<1>10. ASSUME NEW w \in Workers, Retire(w) PROVE Drained(g)'
  BY <1>10 DEF Retire, Goto
<1>11. ASSUME NEW w \in Workers, InitDecode(w) PROVE Drained(g)'
  BY <1>11 DEF InitDecode, Goto
<1>12. ASSUME NEW w \in Workers, DecodeInterrupted(w) PROVE Drained(g)'
  BY <1>12 DEF DecodeInterrupted, Raise, Goto
<1>13. ASSUME NEW w \in Workers, DecodeUnloaded(w) PROVE Drained(g)'
  BY <1>13 DEF DecodeUnloaded, Goto
<1>14. ASSUME NEW w \in Workers, DecodeLoaded(w) PROVE Drained(g)'
  BY <1>14 DEF DecodeLoaded, SlotAnswer, NoMorePages, Goto
<1>15. ASSUME NEW w \in Workers, LockSlot(w) PROVE Drained(g)'
  BY <1>15 DEF LockSlot, Goto
<1>16. ASSUME NEW w \in Workers, LockSlotLoaded(w) PROVE Drained(g)'
  BY <1>16 DEF LockSlotLoaded, SlotAnswer, NoMorePages, Goto
<1>17. ASSUME NEW w \in Workers, LoadSlot(w) PROVE Drained(g)'
  BY <1>17 DEF LoadSlot, Goto
<1>18. ASSUME NEW w \in Workers, LoadSlotFails(w) PROVE Drained(g)'
  BY <1>18 DEF LoadSlotFails, Goto
<1>19. ASSUME NEW w \in Workers, PublishSlot(w) PROVE Drained(g)'
  BY <1>19 DEF PublishSlot, ReleaseSlot, Goto
<1>20. ASSUME NEW w \in Workers, PublishFailure(w) PROVE Drained(g)'
  BY <1>20 DEF PublishFailure, ReleaseSlot, NoMorePages, Raise, Goto
<1>21. ASSUME NEW w \in Workers, ClaimCheck(w) PROVE Drained(g)'
  BY <1>21 DEF ClaimCheck, NoMorePages, Goto
<1>22. ASSUME NEW w \in Workers, ClaimFetch(w) PROVE Drained(g)'
  BY <1>22 DEF ClaimFetch, NoMorePages, Goto
<1>23. ASSUME NEW w \in Workers, ProcessPage(w) PROVE Drained(g)'
  BY <1>23 DEF ProcessPage, Goto
<1>24. ASSUME NEW w \in Workers, PageFails(w) PROVE Drained(g)'
  BY <1>24 DEF PageFails, Raise, Goto
<1>25. ASSUME NEW w \in Workers, ReturnChunk(w) PROVE Drained(g)'
  BY <1>25 DEF ReturnChunk, Goto
<1>26. ASSUME Finish PROVE Drained(g)'
  BY <1>26 DEF Finish
<1>27. CASE UNCHANGED <<pc, reader, chunk, done, query, loadDone, loadFailed, nextPage, lastPage>>
  BY <1>27
<1> HIDE DEF LocalTypes, SlotTypes, QueryTypes, ClaimTypes, Threads, ScanPoints,
    DecodePoints, LoadPoints, ThreadsInPlace, Faults, NoFile, DecodeStates,
    SlotLoading, LoadingAt, SlotAt, ClaimPoints, ClaimAt, ReadersAttended, Attended,
    Alive, Drained
<1> QED BY <1>1, <1>2, <1>3, <1>4, <1>5, <1>6, <1>7, <1>8, <1>9, <1>10, <1>11, <1>12,
    <1>13, <1>14, <1>15, <1>16, <1>17, <1>18, <1>19, <1>20, <1>21, <1>22, <1>23, <1>24,
    <1>25, <1>26, <1>27, ActionCases
    DEF Interrupt, OpenFile, RefuseScan, ReleaseSlot, SlotAnswer, NoMorePages, Raise,
        vars

LEMMA ClaimedStep ==
  ASSUME pc \in [Threads -> ProgramPoints], LocalTypes, SlotTypes, QueryTypes,
         ClaimTypes, ThreadsInPlace, DecodeStates, SlotLoading, ClaimPoints,
         RowsBelowCursor, NEW g \in Files, claimed'[g] > 0, [Next]_vars
  PROVE  claimed[g] > 0 \/ \E v \in Workers : Inside(v, g)'
<1> USE DEF LocalTypes, SlotTypes, QueryTypes, ClaimTypes, Threads, ScanPoints,
    DecodePoints, LoadPoints, ThreadsInPlace, Faults, NoFile, Inside, queryVars,
    inputVars, claimVars, slotVars, localVars
<1>1. ASSUME NEW w \in Workers, AdmitScan(w)
      PROVE  claimed[g] > 0 \/ \E v \in Workers : Inside(v, g)'
  BY <1>1 DEF AdmitScan, Goto
<1>2. ASSUME NEW w \in Workers, RefuseScan(w)
      PROVE  claimed[g] > 0 \/ \E v \in Workers : Inside(v, g)'
  BY <1>2, ScanAssumption DEF RefuseScan
<1>3. CASE UNCHANGED <<claimed>>
  BY <1>3
<1> HIDE DEF LocalTypes, SlotTypes, QueryTypes, ClaimTypes, Threads, ScanPoints,
    DecodePoints, LoadPoints, ThreadsInPlace, Faults, NoFile, Inside
<1> QED BY <1>1, <1>2, <1>3, ActionCases
    DEF Interrupt, OpenFile, OpenInterrupted, ScheduleIO, LoadCheck, LoadAlready,
        LoadAcquire, ReadHandle, LoadFinish, Throw, Retire, InitDecode,
        DecodeInterrupted, DecodeUnloaded, DecodeLoaded, LockSlot, LockSlotLoaded,
        LoadSlot, LoadSlotFails, PublishSlot, PublishFailure, ClaimCheck, ClaimFetch,
        ProcessPage, PageFails, ReturnChunk, Finish, ReleaseSlot, SlotAnswer,
        NoMorePages, Raise, vars

\* The engine closes a file only once it has admitted a thread to it.
LEMMA ClosedStep ==
  ASSUME pc \in [Threads -> ProgramPoints], LocalTypes, SlotTypes, QueryTypes,
         ClaimTypes, ThreadsInPlace, DecodeStates, SlotLoading, ClaimPoints,
         RowsBelowCursor, ReadersAttended, Alive, NEW g \in Files, g < current',
         [Next]_vars
  PROVE  claimed'[g] > 0 \/ done'[g]
<1> USE DEF LocalTypes, SlotTypes, QueryTypes, ClaimTypes, Threads, ScanPoints,
    DecodePoints, LoadPoints, ThreadsInPlace, Faults, NoFile, ReadersAttended,
    Attended, Alive, queryVars, inputVars, claimVars, slotVars, localVars
<1>1. ASSUME NEW w \in Workers, AdmitScan(w) PROVE claimed'[g] > 0 \/ done'[g]
  BY <1>1 DEF AdmitScan, Goto
<1>2. ASSUME NEW w \in Workers, RefuseScan(w) PROVE claimed'[g] > 0 \/ done'[g]
  BY SMTT(30), <1>2, ScanAssumption DEF RefuseScan
<1>3. ASSUME NEW w \in Workers, ReturnChunk(w) PROVE claimed'[g] > 0 \/ done'[g]
  BY <1>3 DEF ReturnChunk, Goto
<1>4. CASE UNCHANGED <<claimed, done, current>>
  BY <1>4
<1> HIDE DEF LocalTypes, SlotTypes, QueryTypes, ClaimTypes, Threads, ScanPoints,
    DecodePoints, LoadPoints, ThreadsInPlace, Faults, NoFile, ReadersAttended,
    Attended, Alive
<1> QED BY <1>1, <1>2, <1>3, <1>4, ActionCases
    DEF Interrupt, OpenFile, OpenInterrupted, ScheduleIO, LoadCheck, LoadAlready,
        LoadAcquire, ReadHandle, LoadFinish, Throw, Retire, InitDecode,
        DecodeInterrupted, DecodeUnloaded, DecodeLoaded, LockSlot, LockSlotLoaded,
        LoadSlot, LoadSlotFails, PublishSlot, PublishFailure, ClaimCheck, ClaimFetch,
        ProcessPage, PageFails, Finish, ReleaseSlot, SlotAnswer, NoMorePages, Raise,
        vars

LEMMA ReportedStep ==
  ASSUME pc \in [Threads -> ProgramPoints], LocalTypes, SlotTypes, QueryTypes,
         ClaimTypes, ThreadsInPlace, DecodeStates, SlotLoading, ClaimPoints,
         RowsBelowCursor, FailureReported, Alive', ~IgnoreErrors, NEW g \in Files,
         loadDone'[g], loadFailed'[g], [Next]_vars
  PROVE  \E v \in Workers : pc'[v] = "throw"
<1> USE DEF LocalTypes, SlotTypes, QueryTypes, ClaimTypes, Threads, ScanPoints,
    DecodePoints, LoadPoints, ThreadsInPlace, Faults, NoFile, DecodeStates,
    SlotLoading, LoadingAt, SlotAt, FailureReported, Alive, queryVars, inputVars,
    claimVars, slotVars, localVars
<1>1. ASSUME NEW f \in Files, OpenInterrupted(f) PROVE \E v \in Workers : pc'[v] = "throw"
  BY <1>1 DEF OpenInterrupted
<1>2. ASSUME NEW t \in IoThreads, NEW f \in Files, ScheduleIO(t, f)
      PROVE  \E v \in Workers : pc'[v] = "throw"
  BY <1>2 DEF ScheduleIO, Goto
<1>3. ASSUME NEW t \in Threads, LoadCheck(t) PROVE \E v \in Workers : pc'[v] = "throw"
  BY <1>3 DEF LoadCheck, Raise, Goto
<1>4. ASSUME NEW t \in Threads, LoadAlready(t) PROVE \E v \in Workers : pc'[v] = "throw"
  BY <1>4 DEF LoadAlready, Goto, AfterLoad
<1>5. ASSUME NEW t \in Threads, LoadAcquire(t) PROVE \E v \in Workers : pc'[v] = "throw"
  BY <1>5 DEF LoadAcquire, Goto
<1>6. ASSUME NEW t \in Threads, ReadHandle(t) PROVE \E v \in Workers : pc'[v] = "throw"
  BY <1>6 DEF ReadHandle, Goto
<1>7. ASSUME NEW t \in Threads, LoadFinish(t) PROVE \E v \in Workers : pc'[v] = "throw"
  BY <1>7 DEF LoadFinish, Raise, Goto, AfterLoad
<1>8. ASSUME NEW t \in Threads, Throw(t) PROVE \E v \in Workers : pc'[v] = "throw"
  BY <1>8 DEF Throw, Goto
<1>9. ASSUME NEW w \in Workers, AdmitScan(w) PROVE \E v \in Workers : pc'[v] = "throw"
  BY <1>9 DEF AdmitScan, Goto
<1>10. ASSUME NEW w \in Workers, Retire(w) PROVE \E v \in Workers : pc'[v] = "throw"
  BY <1>10 DEF Retire, Goto
<1>11. ASSUME NEW w \in Workers, InitDecode(w) PROVE \E v \in Workers : pc'[v] = "throw"
  BY <1>11 DEF InitDecode, Goto
<1>12. ASSUME NEW w \in Workers, DecodeInterrupted(w)
      PROVE  \E v \in Workers : pc'[v] = "throw"
  BY <1>12 DEF DecodeInterrupted, Raise, Goto
<1>13. ASSUME NEW w \in Workers, DecodeUnloaded(w) PROVE \E v \in Workers : pc'[v] = "throw"
  BY <1>13 DEF DecodeUnloaded, Goto
<1>14. ASSUME NEW w \in Workers, DecodeLoaded(w) PROVE \E v \in Workers : pc'[v] = "throw"
  BY <1>14 DEF DecodeLoaded, SlotAnswer, NoMorePages, Goto
<1>15. ASSUME NEW w \in Workers, LockSlot(w) PROVE \E v \in Workers : pc'[v] = "throw"
  BY <1>15 DEF LockSlot, Goto
<1>16. ASSUME NEW w \in Workers, LockSlotLoaded(w) PROVE \E v \in Workers : pc'[v] = "throw"
  BY <1>16 DEF LockSlotLoaded, SlotAnswer, NoMorePages, Goto
<1>17. ASSUME NEW w \in Workers, LoadSlot(w) PROVE \E v \in Workers : pc'[v] = "throw"
  BY <1>17 DEF LoadSlot, Goto
<1>18. ASSUME NEW w \in Workers, LoadSlotFails(w) PROVE \E v \in Workers : pc'[v] = "throw"
  BY <1>18 DEF LoadSlotFails, Goto
<1>19. ASSUME NEW w \in Workers, PublishSlot(w) PROVE \E v \in Workers : pc'[v] = "throw"
  BY <1>19 DEF PublishSlot, ReleaseSlot, Goto
<1>20. ASSUME NEW w \in Workers, PublishFailure(w) PROVE \E v \in Workers : pc'[v] = "throw"
  BY <1>20 DEF PublishFailure, ReleaseSlot, NoMorePages, Raise, Goto
<1>21. ASSUME NEW w \in Workers, ClaimCheck(w) PROVE \E v \in Workers : pc'[v] = "throw"
  BY <1>21 DEF ClaimCheck, NoMorePages, Goto
<1>22. ASSUME NEW w \in Workers, ClaimFetch(w) PROVE \E v \in Workers : pc'[v] = "throw"
  BY <1>22 DEF ClaimFetch, NoMorePages, Goto
<1>23. ASSUME NEW w \in Workers, ProcessPage(w) PROVE \E v \in Workers : pc'[v] = "throw"
  BY <1>23 DEF ProcessPage, Goto
<1>24. ASSUME NEW w \in Workers, PageFails(w) PROVE \E v \in Workers : pc'[v] = "throw"
  BY <1>24 DEF PageFails, Raise, Goto
<1>25. ASSUME NEW w \in Workers, ReturnChunk(w) PROVE \E v \in Workers : pc'[v] = "throw"
  BY <1>25 DEF ReturnChunk, Goto
<1>26. ASSUME Finish PROVE \E v \in Workers : pc'[v] = "throw"
  BY <1>26 DEF Finish
<1>27. CASE UNCHANGED <<pc, query, loadDone, loadFailed>>
  BY <1>27
<1> HIDE DEF LocalTypes, SlotTypes, QueryTypes, ClaimTypes, Threads, ScanPoints,
    DecodePoints, LoadPoints, ThreadsInPlace, Faults, NoFile, DecodeStates,
    SlotLoading, LoadingAt, SlotAt, FailureReported, Alive
<1> QED BY <1>1, <1>2, <1>3, <1>4, <1>5, <1>6, <1>7, <1>8, <1>9, <1>10, <1>11, <1>12,
    <1>13, <1>14, <1>15, <1>16, <1>17, <1>18, <1>19, <1>20, <1>21, <1>22, <1>23, <1>24,
    <1>25, <1>26, <1>27, ActionCases
    DEF Interrupt, OpenFile, RefuseScan, ReleaseSlot, SlotAnswer, NoMorePages, Raise,
        vars

LEMMA EndedWellStep ==
  ASSUME pc \in [Threads -> ProgramPoints], LocalTypes, SlotTypes, QueryTypes,
         ClaimTypes, ThreadsInPlace, DecodeStates, SlotLoading, ClaimPoints,
         RowsBelowCursor, FailureReported, query' = "ok", [Next]_vars
  PROVE  (current \notin Files /\ \A v \in Workers : pc[v] = "end")'
<1> USE DEF LocalTypes, SlotTypes, QueryTypes, ClaimTypes, Threads, ScanPoints,
    DecodePoints, LoadPoints, ThreadsInPlace, Faults, NoFile, FailureReported,
    queryVars, inputVars, claimVars, slotVars, localVars
<1>1. ASSUME NEW f \in Files, OpenInterrupted(f)
      PROVE  (current \notin Files /\ \A v \in Workers : pc[v] = "end")'
  BY <1>1 DEF OpenInterrupted
<1>2. ASSUME NEW t \in IoThreads, NEW f \in Files, ScheduleIO(t, f)
      PROVE  (current \notin Files /\ \A v \in Workers : pc[v] = "end")'
  BY <1>2 DEF ScheduleIO, Goto
<1>3. ASSUME NEW t \in Threads, LoadCheck(t)
      PROVE  (current \notin Files /\ \A v \in Workers : pc[v] = "end")'
  BY <1>3 DEF LoadCheck, Raise, Goto
<1>4. ASSUME NEW t \in Threads, LoadAlready(t)
      PROVE  (current \notin Files /\ \A v \in Workers : pc[v] = "end")'
  BY <1>4 DEF LoadAlready, Goto, AfterLoad
<1>5. ASSUME NEW t \in Threads, LoadAcquire(t)
      PROVE  (current \notin Files /\ \A v \in Workers : pc[v] = "end")'
  BY <1>5 DEF LoadAcquire, Goto
<1>6. ASSUME NEW t \in Threads, ReadHandle(t)
      PROVE  (current \notin Files /\ \A v \in Workers : pc[v] = "end")'
  BY <1>6 DEF ReadHandle, Goto
<1>7. ASSUME NEW t \in Threads, LoadFinish(t)
      PROVE  (current \notin Files /\ \A v \in Workers : pc[v] = "end")'
  BY <1>7 DEF LoadFinish, Raise, Goto, AfterLoad
<1>8. ASSUME NEW t \in Threads, Throw(t)
      PROVE  (current \notin Files /\ \A v \in Workers : pc[v] = "end")'
  BY <1>8 DEF Throw, Goto
<1>9. ASSUME NEW w \in Workers, AdmitScan(w)
      PROVE  (current \notin Files /\ \A v \in Workers : pc[v] = "end")'
  BY <1>9 DEF AdmitScan, Goto
<1>10. ASSUME NEW w \in Workers, RefuseScan(w)
      PROVE  (current \notin Files /\ \A v \in Workers : pc[v] = "end")'
  BY <1>10 DEF RefuseScan
<1>11. ASSUME NEW w \in Workers, Retire(w)
      PROVE  (current \notin Files /\ \A v \in Workers : pc[v] = "end")'
  BY <1>11 DEF Retire, Goto
<1>12. ASSUME NEW w \in Workers, InitDecode(w)
      PROVE  (current \notin Files /\ \A v \in Workers : pc[v] = "end")'
  BY <1>12 DEF InitDecode, Goto
<1>13. ASSUME NEW w \in Workers, DecodeInterrupted(w)
      PROVE  (current \notin Files /\ \A v \in Workers : pc[v] = "end")'
  BY <1>13 DEF DecodeInterrupted, Raise, Goto
<1>14. ASSUME NEW w \in Workers, DecodeUnloaded(w)
      PROVE  (current \notin Files /\ \A v \in Workers : pc[v] = "end")'
  BY <1>14 DEF DecodeUnloaded, Goto
<1>15. ASSUME NEW w \in Workers, DecodeLoaded(w)
      PROVE  (current \notin Files /\ \A v \in Workers : pc[v] = "end")'
  BY <1>15 DEF DecodeLoaded, SlotAnswer, NoMorePages, Goto
<1>16. ASSUME NEW w \in Workers, LockSlot(w)
      PROVE  (current \notin Files /\ \A v \in Workers : pc[v] = "end")'
  BY <1>16 DEF LockSlot, Goto
<1>17. ASSUME NEW w \in Workers, LockSlotLoaded(w)
      PROVE  (current \notin Files /\ \A v \in Workers : pc[v] = "end")'
  BY <1>17 DEF LockSlotLoaded, SlotAnswer, NoMorePages, Goto
<1>18. ASSUME NEW w \in Workers, LoadSlot(w)
      PROVE  (current \notin Files /\ \A v \in Workers : pc[v] = "end")'
  BY <1>18 DEF LoadSlot, Goto
<1>19. ASSUME NEW w \in Workers, LoadSlotFails(w)
      PROVE  (current \notin Files /\ \A v \in Workers : pc[v] = "end")'
  BY <1>19 DEF LoadSlotFails, Goto
<1>20. ASSUME NEW w \in Workers, PublishSlot(w)
      PROVE  (current \notin Files /\ \A v \in Workers : pc[v] = "end")'
  BY <1>20 DEF PublishSlot, ReleaseSlot, Goto
<1>21. ASSUME NEW w \in Workers, PublishFailure(w)
      PROVE  (current \notin Files /\ \A v \in Workers : pc[v] = "end")'
  BY <1>21 DEF PublishFailure, ReleaseSlot, NoMorePages, Raise, Goto
<1>22. ASSUME NEW w \in Workers, ClaimCheck(w)
      PROVE  (current \notin Files /\ \A v \in Workers : pc[v] = "end")'
  BY <1>22 DEF ClaimCheck, NoMorePages, Goto
<1>23. ASSUME NEW w \in Workers, ClaimFetch(w)
      PROVE  (current \notin Files /\ \A v \in Workers : pc[v] = "end")'
  BY <1>23 DEF ClaimFetch, NoMorePages, Goto
<1>24. ASSUME NEW w \in Workers, ProcessPage(w)
      PROVE  (current \notin Files /\ \A v \in Workers : pc[v] = "end")'
  BY <1>24 DEF ProcessPage, Goto
<1>25. ASSUME NEW w \in Workers, PageFails(w)
      PROVE  (current \notin Files /\ \A v \in Workers : pc[v] = "end")'
  BY <1>25 DEF PageFails, Raise, Goto
<1>26. ASSUME NEW w \in Workers, ReturnChunk(w)
      PROVE  (current \notin Files /\ \A v \in Workers : pc[v] = "end")'
  BY <1>26 DEF ReturnChunk, Goto
<1>27. ASSUME Finish PROVE (current \notin Files /\ \A v \in Workers : pc[v] = "end")'
  BY <1>27 DEF Finish
<1>28. CASE UNCHANGED <<pc, query, current>>
  BY <1>28
<1> HIDE DEF LocalTypes, SlotTypes, QueryTypes, ClaimTypes, Threads, ScanPoints,
    DecodePoints, LoadPoints, ThreadsInPlace, Faults, NoFile, FailureReported
<1> QED BY <1>1, <1>2, <1>3, <1>4, <1>5, <1>6, <1>7, <1>8, <1>9, <1>10, <1>11, <1>12,
    <1>13, <1>14, <1>15, <1>16, <1>17, <1>18, <1>19, <1>20, <1>21, <1>22, <1>23, <1>24,
    <1>25, <1>26, <1>27, <1>28, ActionCases
    DEF Interrupt, OpenFile, ReleaseSlot, SlotAnswer, NoMorePages, Raise, vars

LEMMA ReadingStep ==
  ASSUME ThreadsInPlace, TypeOK, InputKept, NEW u \in Threads, [Next]_vars
  PROVE  ReadingAt(u)'
<1> USE DEF ThreadsInPlace, TypeOK, InputTypes, ClaimTypes, SlotTypes, LocalTypes,
    ProgramPoints, LoadPoints, ScanPoints, DecodePoints, Threads, InputKept, ReadingAt,
    queryVars, inputVars, claimVars, slotVars, localVars
<1>1. ASSUME NEW t \in IoThreads, NEW f \in Files, ScheduleIO(t, f) PROVE ReadingAt(u)'
  BY <1>1 DEF ScheduleIO, Goto
<1>2. ASSUME NEW t \in Threads, LoadCheck(t) PROVE ReadingAt(u)'
  BY <1>2 DEF LoadCheck, Raise, Goto
<1>3. ASSUME NEW t \in Threads, LoadAlready(t) PROVE ReadingAt(u)'
  BY <1>3 DEF LoadAlready, Goto, AfterLoad
<1>4. ASSUME NEW t \in Threads, LoadAcquire(t) PROVE ReadingAt(u)'
  BY <1>4, ScanAssumption DEF LoadAcquire, Goto
<1>5. ASSUME NEW t \in Threads, ReadHandle(t) PROVE ReadingAt(u)'
  BY <1>5 DEF ReadHandle, Goto
<1>6. ASSUME NEW t \in Threads, LoadFinish(t) PROVE ReadingAt(u)'
  BY <1>6 DEF LoadFinish, Raise, Goto, AfterLoad
<1>7. ASSUME NEW t \in Threads, Throw(t) PROVE ReadingAt(u)'
  BY <1>7 DEF Throw, Goto
<1>8. ASSUME NEW w \in Workers, AdmitScan(w) PROVE ReadingAt(u)'
  BY <1>8 DEF AdmitScan, Goto
<1>9. ASSUME NEW w \in Workers, Retire(w) PROVE ReadingAt(u)'
  BY <1>9 DEF Retire, Goto
<1>10. ASSUME NEW w \in Workers, InitDecode(w) PROVE ReadingAt(u)'
  BY <1>10 DEF InitDecode, Goto
<1>11. ASSUME NEW w \in Workers, DecodeInterrupted(w) PROVE ReadingAt(u)'
  BY <1>11 DEF DecodeInterrupted, Raise, Goto
<1>12. ASSUME NEW w \in Workers, DecodeUnloaded(w) PROVE ReadingAt(u)'
  BY <1>12 DEF DecodeUnloaded, Goto
<1>13. ASSUME NEW w \in Workers, DecodeLoaded(w) PROVE ReadingAt(u)'
  BY <1>13 DEF DecodeLoaded, SlotAnswer, NoMorePages, Goto
<1>14. ASSUME NEW w \in Workers, LockSlot(w) PROVE ReadingAt(u)'
  BY <1>14 DEF LockSlot, Goto
<1>15. ASSUME NEW w \in Workers, LockSlotLoaded(w) PROVE ReadingAt(u)'
  BY <1>15 DEF LockSlotLoaded, SlotAnswer, NoMorePages, Goto
<1>16. ASSUME NEW w \in Workers, LoadSlot(w) PROVE ReadingAt(u)'
  BY <1>16 DEF LoadSlot, Goto
<1>17. ASSUME NEW w \in Workers, LoadSlotFails(w) PROVE ReadingAt(u)'
  BY <1>17 DEF LoadSlotFails, Goto
<1>18. ASSUME NEW w \in Workers, PublishSlot(w) PROVE ReadingAt(u)'
  BY <1>18 DEF PublishSlot, ReleaseSlot, Goto
<1>19. ASSUME NEW w \in Workers, PublishFailure(w) PROVE ReadingAt(u)'
  BY <1>19 DEF PublishFailure, ReleaseSlot, NoMorePages, Raise, Goto
<1>20. ASSUME NEW w \in Workers, ClaimCheck(w) PROVE ReadingAt(u)'
  BY <1>20 DEF ClaimCheck, NoMorePages, Goto
<1>21. ASSUME NEW w \in Workers, ClaimFetch(w) PROVE ReadingAt(u)'
  BY <1>21 DEF ClaimFetch, NoMorePages, Goto
<1>22. ASSUME NEW w \in Workers, ProcessPage(w) PROVE ReadingAt(u)'
  BY <1>22 DEF ProcessPage, Goto
<1>23. ASSUME NEW w \in Workers, PageFails(w) PROVE ReadingAt(u)'
  BY <1>23 DEF PageFails, Raise, Goto
<1>24. ASSUME NEW w \in Workers, ReturnChunk(w) PROVE ReadingAt(u)'
  BY <1>24 DEF ReturnChunk, Goto
<1>25. CASE UNCHANGED <<pc, reader, inputMutex, inputLoaded>>
  BY <1>25
<1> HIDE DEF ThreadsInPlace, TypeOK, InputTypes, ClaimTypes, SlotTypes, LocalTypes,
    ProgramPoints, LoadPoints, ScanPoints, DecodePoints, Threads, InputKept, ReadingAt
<1> QED BY <1>1, <1>2, <1>3, <1>4, <1>5, <1>6, <1>7, <1>8, <1>9, <1>10, <1>11, <1>12,
    <1>13, <1>14, <1>15, <1>16, <1>17, <1>18, <1>19, <1>20, <1>21, <1>22, <1>23, <1>24,
    <1>25, ActionCases
    DEF Interrupt, OpenFile, OpenInterrupted, RefuseScan, Finish, ReleaseSlot,
        SlotAnswer, NoMorePages, Raise, vars

LEMMA BytesStep ==
  ASSUME ThreadsInPlace, TypeOK, InputKept, NEW v \in Workers, [Next]_vars
  PROVE  BytesAt(v)'
<1> USE DEF ThreadsInPlace, TypeOK, InputTypes, ClaimTypes, SlotTypes, LocalTypes,
    ProgramPoints, LoadPoints, ScanPoints, DecodePoints, Threads, InputKept, BytesAt,
    queryVars, inputVars, claimVars, slotVars, localVars
<1>1. ASSUME NEW t \in IoThreads, NEW f \in Files, ScheduleIO(t, f) PROVE BytesAt(v)'
  BY <1>1, ScanAssumption DEF ScheduleIO, Goto
<1>2. ASSUME NEW t \in Threads, LoadCheck(t) PROVE BytesAt(v)'
  BY <1>2 DEF LoadCheck, Raise, Goto
<1>3. ASSUME NEW t \in Threads, LoadAlready(t) PROVE BytesAt(v)'
  BY <1>3, ScanAssumption DEF LoadAlready, Goto, AfterLoad
<1>4. ASSUME NEW t \in Threads, LoadAcquire(t) PROVE BytesAt(v)'
  BY <1>4 DEF LoadAcquire, Goto
<1>5. ASSUME NEW t \in Threads, ReadHandle(t) PROVE BytesAt(v)'
  BY <1>5 DEF ReadHandle, Goto
<1>6. ASSUME NEW t \in Threads, LoadFinish(t) PROVE BytesAt(v)'
  <2> USE <1>6 DEF LoadFinish, Raise, Goto, AfterLoad
  <2>1. t \in Threads /\ v \in Threads /\ reader[t] \in Files
    OBVIOUS
  <2>2. reader' = reader
    OBVIOUS
  <2>5. \A g \in Files : inputLoaded[g] => inputLoaded'[g]
    BY <2>1
  <2>3. CASE v = t
    <3>1. pc'[t] = "init" => inputLoaded'[reader[t]]
      BY <2>1, <2>3
    <3>2. pc'[t] \in {"init", "idle", "throw"}
      BY <2>1
    <3> QED BY <2>2, <2>3, <3>1, <3>2
  <2>4. CASE v # t
    <3>1. pc'[v] = pc[v]
      BY <2>1, <2>4
    <3>2. BytesAt(v) /\ (pc[v] \in {"init"} \cup DecodePoints => reader[v] \in Files)
      BY <2>1
    <3> QED BY <2>2, <2>5, <3>1, <3>2
  <2> QED BY <2>3, <2>4
<1>7. ASSUME NEW t \in Threads, Throw(t) PROVE BytesAt(v)'
  BY <1>7 DEF Throw, Goto
<1>8. ASSUME NEW w \in Workers, AdmitScan(w) PROVE BytesAt(v)'
  BY <1>8, ScanAssumption DEF AdmitScan, Goto
<1>9. ASSUME NEW w \in Workers, Retire(w) PROVE BytesAt(v)'
  BY <1>9 DEF Retire, Goto
<1>10. ASSUME NEW w \in Workers, InitDecode(w) PROVE BytesAt(v)'
  BY <1>10 DEF InitDecode, Goto
<1>11. ASSUME NEW w \in Workers, DecodeInterrupted(w) PROVE BytesAt(v)'
  BY <1>11 DEF DecodeInterrupted, Raise, Goto
<1>12. ASSUME NEW w \in Workers, DecodeUnloaded(w) PROVE BytesAt(v)'
  BY <1>12 DEF DecodeUnloaded, Goto
<1>13. ASSUME NEW w \in Workers, DecodeLoaded(w) PROVE BytesAt(v)'
  BY <1>13 DEF DecodeLoaded, SlotAnswer, NoMorePages, Goto
<1>14. ASSUME NEW w \in Workers, LockSlot(w) PROVE BytesAt(v)'
  BY <1>14 DEF LockSlot, Goto
<1>15. ASSUME NEW w \in Workers, LockSlotLoaded(w) PROVE BytesAt(v)'
  BY <1>15 DEF LockSlotLoaded, SlotAnswer, NoMorePages, Goto
<1>16. ASSUME NEW w \in Workers, LoadSlot(w) PROVE BytesAt(v)'
  BY <1>16 DEF LoadSlot, Goto
<1>17. ASSUME NEW w \in Workers, LoadSlotFails(w) PROVE BytesAt(v)'
  BY <1>17 DEF LoadSlotFails, Goto
<1>18. ASSUME NEW w \in Workers, PublishSlot(w) PROVE BytesAt(v)'
  BY <1>18 DEF PublishSlot, ReleaseSlot, Goto
<1>19. ASSUME NEW w \in Workers, PublishFailure(w) PROVE BytesAt(v)'
  BY <1>19 DEF PublishFailure, ReleaseSlot, NoMorePages, Raise, Goto
<1>20. ASSUME NEW w \in Workers, ClaimCheck(w) PROVE BytesAt(v)'
  BY <1>20 DEF ClaimCheck, NoMorePages, Goto
<1>21. ASSUME NEW w \in Workers, ClaimFetch(w) PROVE BytesAt(v)'
  BY <1>21 DEF ClaimFetch, NoMorePages, Goto
<1>22. ASSUME NEW w \in Workers, ProcessPage(w) PROVE BytesAt(v)'
  BY <1>22 DEF ProcessPage, Goto
<1>23. ASSUME NEW w \in Workers, PageFails(w) PROVE BytesAt(v)'
  BY <1>23 DEF PageFails, Raise, Goto
<1>24. ASSUME NEW w \in Workers, ReturnChunk(w) PROVE BytesAt(v)'
  BY <1>24 DEF ReturnChunk, Goto
<1>25. CASE UNCHANGED <<pc, reader, inputLoaded>>
  BY <1>25
<1> HIDE DEF ThreadsInPlace, TypeOK, InputTypes, ClaimTypes, SlotTypes, LocalTypes,
    ProgramPoints, LoadPoints, ScanPoints, DecodePoints, Threads, InputKept, BytesAt
<1> QED BY <1>1, <1>2, <1>3, <1>4, <1>5, <1>6, <1>7, <1>8, <1>9, <1>10, <1>11, <1>12,
    <1>13, <1>14, <1>15, <1>16, <1>17, <1>18, <1>19, <1>20, <1>21, <1>22, <1>23, <1>24,
    <1>25, ActionCases
    DEF Interrupt, OpenFile, OpenInterrupted, RefuseScan, Finish, ReleaseSlot,
        SlotAnswer, NoMorePages, Raise, vars

LEMMA InputStep ==
  ASSUME ThreadsInPlace, TypeOK, InputKept, NEW g \in Files, [Next]_vars
  PROVE  InputAt(g)'
<1> USE DEF ThreadsInPlace, TypeOK, InputTypes, ClaimTypes, SlotTypes, LocalTypes,
    ProgramPoints, LoadPoints, ScanPoints, DecodePoints, Threads, InputKept, ReadingAt,
    BytesAt, InputAt, queryVars, inputVars, claimVars, slotVars, localVars
<1>1. ASSUME Interrupt PROVE InputAt(g)'
  BY <1>1 DEF Interrupt
<1>2. ASSUME NEW f \in Files, OpenFile(f) PROVE InputAt(g)'
  BY <1>2 DEF OpenFile
<1>3. ASSUME NEW t \in Threads, ReadHandle(t) PROVE InputAt(g)'
  BY <1>3 DEF ReadHandle, Goto
<1>4. ASSUME NEW t \in Threads, LoadFinish(t) PROVE InputAt(g)'
  BY <1>4 DEF LoadFinish, Raise, Goto, AfterLoad
<1>5. ASSUME NEW w \in Workers, InitDecode(w) PROVE InputAt(g)'
  BY <1>5 DEF InitDecode, Goto
<1>6. ASSUME NEW w \in Workers, LoadSlot(w) PROVE InputAt(g)'
  BY <1>6 DEF LoadSlot, Goto
<1>7. ASSUME NEW w \in Workers, LoadSlotFails(w) PROVE InputAt(g)'
  BY <1>7 DEF LoadSlotFails, Goto
<1>8. CASE UNCHANGED <<loadFailed, inputLoaded, inputError, interrupted>>
  BY <1>8
<1> HIDE DEF ThreadsInPlace, TypeOK, InputTypes, ClaimTypes, SlotTypes, LocalTypes,
    ProgramPoints, LoadPoints, ScanPoints, DecodePoints, Threads, InputKept, ReadingAt,
    BytesAt, InputAt
<1> QED BY <1>1, <1>2, <1>3, <1>4, <1>5, <1>6, <1>7, <1>8, ActionCases
    DEF OpenInterrupted, ScheduleIO, LoadCheck, LoadAlready, LoadAcquire, Throw,
        AdmitScan, RefuseScan, Retire, DecodeInterrupted, DecodeUnloaded, DecodeLoaded,
        LockSlot, LockSlotLoaded, PublishSlot, PublishFailure, ClaimCheck, ClaimFetch,
        ProcessPage, PageFails, ReturnChunk, Finish, ReleaseSlot, SlotAnswer,
        NoMorePages, Raise, vars

-----------------------------------------------------------------------------
(* The inductive invariant.                                                *)

LEMMA InitInvariant == Init => IInv
<1> SUFFICES ASSUME Init PROVE IInv
  OBVIOUS
<1> USE ScanAssumption DEF Init
<1>1. TypeOK
  <2>1. 1 \in 1..(NFiles + 1)
    OBVIOUS
  <2>5. QueryTypes
    BY <2>1 DEF QueryTypes
  <2>2. InputTypes /\ ClaimTypes
    BY DEF InputTypes, ClaimTypes
  <2>3. SlotTypes
    BY DEF SlotTypes
  <2>4. LocalTypes /\ pc \in [Threads -> ProgramPoints]
    BY DEF LocalTypes, ProgramPoints, NoFile
  <2> QED BY <2>2, <2>3, <2>4, <2>5 DEF TypeOK
<1>2. ThreadsInPlace /\ DecodeStates
  BY DEF ThreadsInPlace, DecodeStates, ScanPoints, LoadPoints, DecodePoints, Threads, NoFile, Files
<1>6. InputKept
  BY DEF InputKept, ReadingAt, BytesAt, InputAt, DecodePoints, Threads
<1>3. SlotLoading /\ ClaimPoints /\ RowsBelowCursor
  BY DEF SlotLoading, LoadingAt, SlotAt, ClaimPoints, ClaimAt, RowsBelowCursor, RowsAt, Readable,
         Threads, Files
<1>4. EachPageOnce
  BY DEF EachPageOnce, Pending, Threads
<1>5. NoPageLost /\ ReadersAttended /\ FailureReported
  BY DEF NoPageLost, ReadersAttended, Attended, FailureReported, Readable, Threads, Files
<1> QED BY <1>1, <1>2, <1>3, <1>4, <1>5, <1>6 DEF IInv

LEMMA InductiveStep == IInv /\ [Next]_vars => IInv'
<1> SUFFICES ASSUME IInv, [Next]_vars PROVE IInv'
  OBVIOUS
<1> USE DEF IInv, TypeOK
<1>1. TypeOK'
  BY InputTypesStep, ClaimTypesStep, SlotTypesStep, LocalTypesStep, QueryTypesStep, PcTypeStep
<1>2. ThreadsInPlace' /\ DecodeStates'
  BY ThreadsInPlaceStep, DecodeStatesStep
<1>9. InputKept'
  BY ReadingStep, BytesStep, InputStep DEF InputKept
<1>3. SlotLoading' /\ ClaimPoints'
  BY LoadingStep, SlotStep, ClaimPointStep DEF SlotLoading, ClaimPoints
<1>4. RowsBelowCursor'
  BY RowsStep, ReturnedStep DEF RowsBelowCursor
<1>5. EachPageOnce'
  BY OwnPagesStep, OthersPagesStep DEF EachPageOnce
<1>6. NoPageLost'
  <2> SUFFICES ASSUME Alive' PROVE NoPageLost'
    BY DEF NoPageLost
  <2>1. ASSUME NEW g \in Files, NEW p \in 0..(PageCount[g] - 1), Readable(g)', Passed(g, p)'
        PROVE  PageKept(g, p)'
    <3>1. PageKept(g, p) \/ \E v \in Workers : HeldBy(g, p, v)'
      BY <2>1, PassedPagesStep, AliveStep DEF NoPageLost
    <3>2. <<g, p>> \in delivered => <<g, p>> \in delivered'
      BY ReturnedGrowStep
    <3>3. ASSUME NEW v \in Workers, HeldBy(g, p, v)
          PROVE  HeldBy(g, p, v)' \/ <<g, p>> \in delivered'
      BY <3>3, HeldStep
    <3> QED BY <3>1, <3>2, <3>3 DEF PageKept
  <2>2. ASSUME NEW v \in Workers, pc'[v] = "end" PROVE chunk'[v] = {}
    BY <2>2, EmptyAtEndStep
  <2> QED BY <2>1, <2>2 DEF NoPageLost
<1>7. ReadersAttended'
  <2> SUFFICES ASSUME Alive', NEW g \in Files PROVE Attended(g)'
    BY DEF ReadersAttended
  <2>1. Alive /\ Attended(g)
    BY AliveStep DEF ReadersAttended
  <2>2. done'[g] => Drained(g)'
    BY DoneDrainedStep
  <2>3. claimed'[g] > 0 /\ ~done'[g] => \E v \in Workers : Inside(v, g)'
    BY <2>1, ClaimedStep, InsideStep, DoneGrowStep DEF Attended
  <2>4. g < current' => claimed'[g] > 0 \/ done'[g]
    BY <2>1, ClosedStep
  <2> QED BY <2>2, <2>3, <2>4 DEF Attended
<1>8. FailureReported'
  BY ReportedStep, EndedWellStep DEF FailureReported, Alive
<1> QED BY <1>1, <1>2, <1>3, <1>4, <1>5, <1>6, <1>7, <1>8, <1>9

\* The invariant holds in every reachable state of the scan.
THEOREM Invariance == Spec => []IInv
BY InitInvariant, InductiveStep, PTL DEF Spec

-----------------------------------------------------------------------------
(* The properties.                                                         *)

\* Every variable keeps its type.
THEOREM TypeCorrect == Spec => []TypeOK
<1>1. IInv => TypeOK
  BY DEF IInv
<1> QED BY <1>1, Invariance, PTL

\* No page is claimed, buffered or returned twice, however many threads
\* claim from a slot.
THEOREM PagesOnce == Spec => []EachPageOnce
<1>1. IInv => EachPageOnce
  BY DEF IInv
<1> QED BY <1>1, Invariance, PTL

\* A cancelled read never makes a file count as loaded or as failed.
THEOREM InterruptsKeptApart == Spec => []InterruptIsNoFileError
<1>1. IInv => InterruptIsNoFileError
  BY DEF IInv, InputKept, InputAt, InterruptIsNoFileError
<1> QED BY <1>1, Invariance, PTL

\* A reader that admits nobody any more is drained or still has a thread in
\* it, as long as the query runs.
THEOREM NobodyAbandons == Spec => []NoPageAbandoned
<1>1. IInv => NoPageAbandoned
  <2> SUFFICES ASSUME IInv, NEW f \in Files, query = "running",
                      done[f] \/ claimed[f] >= ScanLimit
               PROVE  \/ Drained(f)
                      \/ \E w \in Workers : reader[w] = f /\ pc[w] \notin {"idle", "end"}
    BY DEF NoPageAbandoned, Drained
  <2>1. Attended(f)
    BY DEF IInv, ReadersAttended, Alive
  <2>2. CASE done[f]
    BY <2>1, <2>2 DEF Attended
  <2>3. CASE ~done[f]
    <3>1. claimed[f] > 0
      BY <2>3, ScanAssumption DEF IInv, TypeOK, ClaimTypes
    <3>2. PICK w \in Workers : Inside(w, f)
      BY <2>1, <2>3, <3>1 DEF Attended
    <3> QED BY <3>2 DEF Inside, ScanPoints, LoadPoints, DecodePoints
  <2> QED BY <2>2, <2>3
<1> QED BY <1>1, Invariance, PTL

\* In strict mode a query that ends well has loaded every slot it touched:
\* the thread that met a failure reported it.
THEOREM StrictFailuresReported == Spec => []StrictReportsFailure
<1>1. IInv => StrictReportsFailure
  <2> SUFFICES ASSUME IInv, query = "ok", ~IgnoreErrors, NEW f \in Files, loadFailed[f]
               PROVE  FALSE
    BY DEF StrictReportsFailure
  <2>1. \A w \in Workers : pc[w] = "end"
    BY DEF IInv, FailureReported
  <2>2. loadDone[f]
    BY <2>1 DEF IInv, SlotLoading, SlotAt
  <2> QED BY <2>1, <2>2 DEF IInv, FailureReported, Alive
<1> QED BY <1>1, Invariance, PTL

-----------------------------------------------------------------------------
(* PageScan implements PageDelivery.                                       *)

LEMMA PromiseInit == Init => Promise!Init
<1> SUFFICES ASSUME Init PROVE Promise!Init
  OBVIOUS
<1>1. Skipped = {}
  BY DEF Init, Skipped
<1>2. Outcome = "running"
  BY DEF Init, Outcome
<1> QED BY <1>1, <1>2 DEF Init, Promise!Init

\* What a thread returns has not been returned before and was asked for.
LEMMA DeliverStep ==
  ASSUME IInv, NEW w \in Workers, ReturnChunk(w)
  PROVE  Promise!Deliver \/ UNCHANGED <<delivered, Skipped, Outcome>>
<1>1. UNCHANGED <<Skipped, Outcome>>
  BY DEF ReturnChunk, slotVars, queryVars, Skipped, Outcome
<1>2. CASE chunk[w] = {}
  BY <1>1, <1>2 DEF ReturnChunk
<1>3. CASE chunk[w] # {}
  <2>1. delivered' = delivered \cup chunk[w] /\ chunk[w] \cap delivered = {}
    BY DEF ReturnChunk, IInv, EachPageOnce
  <2>2. Outcome # "ok"
    BY DEF IInv, FailureReported, ReturnChunk, Outcome
  <2>3. PICK r \in chunk[w] : r[1] = reader[w] /\ Readable(r[1])
    BY <1>3 DEF IInv, RowsBelowCursor, RowsAt
  <2>4. reader[w] \in Files /\ reader[w] \notin Skipped
    BY <2>3 DEF IInv, ThreadsInPlace, ReturnChunk, ScanPoints, DecodePoints, Threads, Readable, Skipped
  <2>5. chunk[w] \subseteq { <<reader[w], p>> : p \in Promise!Wanted(reader[w]) }
    <3> SUFFICES ASSUME NEW s \in chunk[w]
                 PROVE  \E p \in Promise!Wanted(reader[w]) : s = <<reader[w], p>>
      OBVIOUS
    <3>1. s \in Files \X Nat
      BY DEF IInv, TypeOK, LocalTypes, Threads
    <3>2. s[1] = reader[w] /\ Passed(s[1], s[2])
      BY DEF IInv, RowsBelowCursor, RowsAt
    <3>3. s = <<reader[w], s[2]>> /\ s[2] \in Nat
      BY <3>1, <3>2
    <3>4. FirstOf(reader[w]) <= s[2] /\ s[2] < LastOf(reader[w]) /\ s[2] \in 0..(PageCount[reader[w]] - 1)
      BY SMTT(30), <2>4, <3>2, <3>3, RangeFacts, ScanAssumption DEF Passed, Files
    <3> QED BY <2>4, <3>3, <3>4, WantedRange
  <2> QED BY <1>1, <2>1, <2>2, <2>4, <2>5 DEF Promise!Deliver, Promise!Files, Files
<1> QED BY <1>2, <1>3

\* A failed load publishes a skipped file, or a failure of the query to come.
LEMMA SkipStep ==
  ASSUME IInv, NEW w \in Workers, PublishFailure(w)
  PROVE  (\E f \in Files : Promise!Skip(f)) \/ UNCHANGED <<delivered, Skipped, Outcome>>
<1> DEFINE f == reader[w]
<1>1. f \in Files /\ ~loadDone[f] /\ loadFailed[f]
  BY DEF IInv, ThreadsInPlace, SlotLoading, LoadingAt, PublishFailure, ScanPoints, DecodePoints, Threads
<1>2. UNCHANGED <<delivered, Outcome, loadFailed>> /\ loadDone' = [loadDone EXCEPT ![f] = TRUE]
  BY DEF PublishFailure, ReleaseSlot, queryVars, Outcome
<1>3. CASE ~IgnoreErrors
  BY <1>2, <1>3 DEF Skipped
<1>4. CASE IgnoreErrors
  <2>1. Skipped' = Skipped \cup {f}
    BY <1>1, <1>2, <1>4 DEF Skipped, IInv, TypeOK, SlotTypes
  <2>2. \A r \in delivered : r[1] # f
    BY <1>1 DEF IInv, RowsBelowCursor, Readable
  <2>3. Outcome # "ok"
    BY DEF IInv, FailureReported, PublishFailure, Outcome
  <2>4. Promise!Skip(f)
    BY <1>2, <1>4, <2>1, <2>2, <2>3 DEF Promise!Skip
  <2> QED BY <1>1, <2>4
<1> QED BY <1>3, <1>4

\* A query ends well only with every page returned or its file skipped.
LEMMA SucceedStep ==
  ASSUME IInv, Finish
  PROVE  Promise!Succeed
<1>1. query = "running" /\ Outcome = "running" /\ Outcome' = "ok" /\ UNCHANGED <<delivered, Skipped>>
  BY DEF Finish, Outcome, Skipped, slotVars
<1>2. \A w \in Workers : pc[w] = "end" /\ chunk[w] = {} /\ Pending(w) = {}
  BY <1>1 DEF Finish, IInv, NoPageLost, Alive, Pending
<1>3. ASSUME NEW f \in Files, f \notin Skipped, NEW p \in Promise!Wanted(f)
      PROVE  <<f, p>> \in delivered
  <2>1. f < current
    BY <1>1, ScanAssumption DEF Finish, IInv, TypeOK, QueryTypes, Files
  <2>2. Attended(f) /\ \A w \in Workers : ~Inside(w, f)
    BY <1>1, <1>2 DEF IInv, ReadersAttended, Alive, Inside, ScanPoints, LoadPoints, DecodePoints
  <2>3. Drained(f)
    BY <2>1, <2>2 DEF Attended
  <2>4. ~loadFailed[f]
    <3>1. CASE IgnoreErrors
      BY <1>3, <2>3, <3>1 DEF Skipped, Drained
    <3>2. CASE ~IgnoreErrors
      BY <1>1, <1>2, <2>3, <3>2 DEF IInv, FailureReported, Alive, Drained
    <3> QED BY <3>1, <3>2, ScanAssumption
  <2>5. Readable(f) /\ nextPage[f] >= LastOf(f)
    BY <2>3, <2>4 DEF Drained, Readable, IInv, SlotLoading, SlotAt
  <2>6. p \in 0..(PageCount[f] - 1) /\ FirstOf(f) <= p /\ p < LastOf(f)
    BY <1>3, WantedRange
  <2>7. Passed(f, p)
    BY SMTT(30), <2>5, <2>6, RangeFacts, ScanAssumption DEF Passed, IInv, TypeOK, SlotTypes, Files
  <2>8. PageKept(f, p)
    BY <1>1, <2>5, <2>6, <2>7 DEF IInv, NoPageLost, Alive
  <2> QED BY <1>2, <2>8 DEF PageKept, HeldBy
<1> QED BY <1>1, <1>3 DEF Promise!Succeed, Promise!Files, Files

\* The remaining steps: an error ends the query, or nothing visible happens.
LEMMA FailStep ==
  ASSUME IInv, NEW t \in Threads, Throw(t)
  PROVE  Promise!Fail \/ UNCHANGED <<delivered, Skipped, Outcome>>
<1>1. UNCHANGED <<delivered, Skipped>>
  BY DEF Throw, slotVars, Skipped
<1>2. fault[t] \in Faults
  <2>1. pc[t] = "throw"
    BY DEF Throw, Goto
  <2>2. fault[t] # "none"
    BY <2>1 DEF IInv, ThreadsInPlace
  <2>3. fault[t] \in Faults \cup {"none"}
    BY DEF IInv, TypeOK, LocalTypes
  <2> QED BY <2>2, <2>3
<1>3. CASE query = "running"
  <2>1. Outcome = "running" /\ Outcome' = "failed"
    BY <1>2, <1>3 DEF Throw, Outcome, Faults
  <2> QED BY <1>1, <2>1 DEF Promise!Fail
<1>4. CASE query # "running"
  BY <1>1, <1>4 DEF Throw, Outcome
<1> QED BY <1>3, <1>4

LEMMA LoadingInvisible ==
  ASSUME IInv, NEW w \in Workers,
         InitDecode(w) \/ LoadSlot(w) \/ LoadSlotFails(w) \/ PublishSlot(w)
  PROVE  UNCHANGED <<delivered, Skipped, Outcome>>
<1> USE DEF queryVars, slotVars, Skipped, Outcome
<1>1. CASE InitDecode(w)
  BY <1>1 DEF InitDecode, IInv, DecodeStates, TypeOK, SlotTypes
<1>2. CASE LoadSlot(w)
  BY <1>2 DEF LoadSlot, Goto, IInv, SlotLoading, LoadingAt, TypeOK, SlotTypes
<1>3. CASE LoadSlotFails(w)
  BY <1>3 DEF LoadSlotFails, Goto, IInv, SlotLoading, LoadingAt, TypeOK, SlotTypes
<1>4. CASE PublishSlot(w)
  BY <1>4 DEF PublishSlot, ReleaseSlot, IInv, TypeOK, SlotTypes
<1> QED BY <1>1, <1>2, <1>3, <1>4

LEMMA PromiseStep == IInv /\ [Next]_vars => [Promise!Next]_(Promise!vars)
<1> SUFFICES ASSUME IInv, [Next]_vars
             PROVE  Promise!Next \/ UNCHANGED <<delivered, Skipped, Outcome>>
  BY DEF Promise!vars
<1> USE DEF Promise!Next, Promise!Files, Files
<1>1. ASSUME NEW w \in Workers, ReturnChunk(w)
      PROVE  Promise!Next \/ UNCHANGED <<delivered, Skipped, Outcome>>
  BY <1>1, DeliverStep
<1>2. ASSUME NEW w \in Workers, PublishFailure(w)
      PROVE  Promise!Next \/ UNCHANGED <<delivered, Skipped, Outcome>>
  BY <1>2, SkipStep
<1>3. CASE Finish
  BY <1>3, SucceedStep
<1>4. ASSUME NEW t \in Threads, Throw(t)
      PROVE  Promise!Next \/ UNCHANGED <<delivered, Skipped, Outcome>>
  BY <1>4, FailStep
<1>5. ASSUME NEW f \in Files, OpenInterrupted(f)
      PROVE  Promise!Next
  BY <1>5 DEF OpenInterrupted, slotVars, Skipped, Outcome, Promise!Fail
<1>6. ASSUME NEW w \in Workers,
             InitDecode(w) \/ LoadSlot(w) \/ LoadSlotFails(w) \/ PublishSlot(w)
      PROVE  UNCHANGED <<delivered, Skipped, Outcome>>
  BY <1>6, LoadingInvisible
<1>7. CASE UNCHANGED <<delivered, query, loadDone, loadFailed>>
  BY <1>7 DEF Skipped, Outcome
<1> QED BY <1>1, <1>2, <1>3, <1>4, <1>5, <1>6, <1>7, ActionCases DEF 
    Interrupt, OpenFile, ScheduleIO, LoadCheck, LoadAlready, LoadAcquire, ReadHandle, LoadFinish,
    AdmitScan, RefuseScan, Retire, DecodeInterrupted, DecodeUnloaded, DecodeLoaded, LockSlot,
    LockSlotLoaded, ClaimCheck, ClaimFetch, ProcessPage, PageFails,
    queryVars, slotVars, vars

\* The scan keeps the promise of PageDelivery for any number of threads: the
\* pages asked for are returned once each, a file is left out only under
\* ignore_errors, everything else is an error of the query.
THEOREM ScanKeepsPromise == Spec => KeepsPromise
<1>1. Init => Promise!Init
  BY PromiseInit
<1>2. IInv /\ [Next]_vars => [Promise!Next]_(Promise!vars)
  BY PromiseStep
<1> QED BY <1>1, <1>2, Invariance, PTL DEF Spec, KeepsPromise, Promise!Spec
=============================================================================
