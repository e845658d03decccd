-------------------------- MODULE RowReadersProofs --------------------------
(***************************************************************************)
(* What RowReaders promises for any size of a chunk, any bounds on the     *)
(* documents and any of its functions: every reader keeps its stream, and  *)
(* it fails only for a cause.                                              *)
(***************************************************************************)
EXTENDS RowReadersInv, SequenceTheorems, TLAPS

-----------------------------------------------------------------------------
(* Sequences of rows.                                                      *)

LEMMA RowIsPair ==
  ASSUME NEW r \in Rows
  PROVE  r = <<r[1], r[2]>> /\ r[1] \in Nat \ {0} /\ r[2] \in Nat \ {0}
BY SizesPositive DEF Rows

\* A position grows by the row that comes next.
LEMMA BehindNext ==
  ASSUME NEW r \in Rows, NEW e \in Nat, NEW k \in Nat
  PROVE  Behind(r, e, k + 1) <=> Behind(r, e, k) \/ r = <<e + 1, k + 1>>
BY RowIsPair DEF Behind

LEMMA HoldsNothing ==
  ASSUME NEW A, NEW e \in Nat, \A r \in A \cap Rows : r[1] > e
  PROVE  HoldsOf(A, <<>>, e, 0)
BY RowIsPair DEF HoldsOf, Sorted, IsIn, Behind

LEMMA HoldsAppend ==
  ASSUME NEW A, NEW s \in Seq(Rows), NEW e \in Nat, NEW k \in Nat, HoldsOf(A, s, e, k),
         <<e + 1, k + 1>> \in Rows, <<e + 1, k + 1>> \in A
  PROVE  HoldsOf(A, Append(s, <<e + 1, k + 1>>), e, k + 1)
<1> DEFINE x == <<e + 1, k + 1>>
           t == Append(s, x)
<1>1. /\ Len(s) \in Nat /\ Len(t) = Len(s) + 1 /\ t[Len(s) + 1] = x
      /\ \A i \in 1..Len(s) : t[i] = s[i] /\ s[i] \in Rows
  BY AppendProperties, ElementOfSeq, LenProperties
<1>2. \A i \in 1..Len(s) : Before(s[i], x)
  <2> TAKE i \in 1..Len(s)
  <2>1. s[i] \in Rows /\ IsIn(s[i], s)
    BY <1>1 DEF IsIn
  <2>2. Behind(s[i], e, k)
    BY <2>1 DEF HoldsOf
  <2> QED
    BY <2>1, <2>2, RowIsPair DEF Behind, Before
<1>3. Sorted(t)
  <2> SUFFICES ASSUME NEW i \in 1..Len(t), NEW j \in 1..Len(t), i < j PROVE Before(t[i], t[j])
    BY DEF Sorted
  <2>1. CASE j = Len(s) + 1
    BY <2>1, <1>1, <1>2
  <2>2. CASE j # Len(s) + 1
    <3>1. i \in 1..Len(s) /\ j \in 1..Len(s)
      BY <2>2, <1>1
    <3>2. Before(s[i], s[j])
      BY <3>1 DEF HoldsOf, Sorted
    <3> QED
      BY <3>1, <3>2, <1>1
  <2> QED
    BY <2>1, <2>2
<1>4. \A r \in Rows : IsIn(r, t) <=> IsIn(r, s) \/ r = x
  <2> SUFFICES ASSUME NEW r \in Rows PROVE IsIn(r, t) <=> IsIn(r, s) \/ r = x
    OBVIOUS
  <2>1. IsIn(r, t) => IsIn(r, s) \/ r = x
    BY <1>1 DEF IsIn
  <2>2. r = x => IsIn(r, t)
    BY <1>1 DEF IsIn
  <2>3. ASSUME IsIn(r, s) PROVE IsIn(r, t)
    <3>1. PICK i \in 1..Len(s) : s[i] = r
      BY <2>3 DEF IsIn
    <3> QED
      BY <3>1, <1>1 DEF IsIn
  <2> QED
    BY <2>1, <2>2, <2>3
<1>5. \A r \in Rows : IsIn(r, t) <=> r \in A /\ Behind(r, e, k + 1)
  <2> TAKE r \in Rows
  <2>1. IsIn(r, s) <=> r \in A /\ Behind(r, e, k)
    BY DEF HoldsOf
  <2> HIDE DEF x, t
  <2>2. Behind(r, e, k + 1) <=> Behind(r, e, k) \/ r = x
    BY BehindNext DEF x
  <2>3. IsIn(r, t) <=> IsIn(r, s) \/ r = x
    BY <1>4
  <2>4. x \in A
    BY DEF x
  <2> QED
    BY <2>1, <2>2, <2>3, <2>4
<1> QED
  BY <1>3, <1>5 DEF HoldsOf

\* A row that is not in the answer is passed over.
LEMMA HoldsSkip ==
  ASSUME NEW A, NEW s, NEW e \in Nat, NEW k \in Nat, HoldsOf(A, s, e, k), <<e + 1, k + 1>> \notin A
  PROVE  HoldsOf(A, s, e, k + 1)
BY BehindNext DEF HoldsOf

\* The last row of an entry is followed by the first one of the next.
LEMMA HoldsNextEntry ==
  ASSUME NEW A, NEW s, NEW e \in Nat, NEW k \in Nat, HoldsOf(A, s, e, k),
         \A r \in A \cap Rows : r[1] = e + 1 => r[2] <= k
  PROVE  HoldsOf(A, s, e + 1, 0)
<1> SUFFICES ASSUME NEW r \in Rows, r \in A PROVE Behind(r, e + 1, 0) <=> Behind(r, e, k)
  BY DEF HoldsOf
<1> QED
  BY RowIsPair DEF Behind

LEMMA HoldsEnd ==
  ASSUME NEW A, NEW s, NEW e \in Nat, NEW k \in Nat, HoldsOf(A, s, e, k),
         \A r \in A \cap Rows : Behind(r, e, k)
  PROVE  HoldsAllOf(A, s)
BY DEF HoldsOf, HoldsAllOf

LEMMA HoldsAllOfNothing ==
  ASSUME NEW A, A = {} PROVE HoldsAllOf(A, <<>>)
BY DEF HoldsAllOf, Sorted, IsIn

-----------------------------------------------------------------------------
(* The call, the document and the rows of its answer.                      *)

LEMMA CallFacts ==
  ASSUME TypeOK
  PROVE  /\ call.fn \in AllFunctions
         /\ call.first \in Nat /\ call.last \in Int /\ call.last >= -1 /\ call.last # 0
         /\ call.ignore \in BOOLEAN /\ call.draws \in BOOLEAN
         /\ call.first > 0 /\ call.last > 0 => call.last >= call.first
         /\ call.fn \notin Ranged \cup {"pdf_structure"} => call.first = 0 /\ call.last = -1
BY FunctionsKnown, SizesPositive DEF TypeOK, Calls

EntryRecord == [rows: 0..MaxRows, bad: BOOLEAN, page: 0..MaxEntries]

LEMMA DocFacts ==
  ASSUME TypeOK
  PROVE  /\ doc.opens \in BOOLEAN
         /\ Len(Entries) \in 0..MaxEntries
         /\ \A e \in 1..Len(Entries) : Entries[e] \in EntryRecord
         /\ doc.opens /\ call.fn \in PageBased => Len(Entries) > 0
         /\ doc.opens /\ call.fn \in OneRow => Len(Entries) = 1
         /\ ~doc.opens => Len(Entries) = 0 /\ call.fn # "pdf_redact_lateral"
         /\ \A e \in 1..Len(Entries) :
              /\ Entries[e].bad => call.fn \in MayThrow /\ Entries[e].rows = 1
              /\ call.fn \in Single => Entries[e].rows = 1
<1>1. doc.opens \in BOOLEAN
  BY DEF TypeOK, Documents
<1>2. doc.entries \in UNION {[1..n -> EntryRecord] : n \in 0..MaxEntries}
  BY DEF TypeOK, Documents, EntryRecord
<1>3. PICK n \in 0..MaxEntries : doc.entries \in [1..n -> EntryRecord]
  BY <1>2
<1>4. n \in Nat
  BY <1>3, SizesPositive
<1>5. doc.entries \in Seq(EntryRecord) /\ Len(doc.entries) = n
  BY <1>3, <1>4, IsASeq
<1>6. \A e \in 1..n : doc.entries[e] \in EntryRecord
  BY <1>3
<1>7. /\ doc.opens /\ call.fn \in PageBased => Len(doc.entries) > 0
      /\ doc.opens /\ call.fn \in OneRow => Len(doc.entries) = 1
      /\ ~doc.opens => doc.entries = <<>> /\ call.fn # "pdf_redact_lateral"
      /\ \A e \in 1..Len(doc.entries) :
           /\ doc.entries[e].bad => call.fn \in MayThrow /\ doc.entries[e].rows = 1
           /\ call.fn \in Single => doc.entries[e].rows = 1
  BY DEF TypeOK, Documents
<1> QED
  BY <1>1, <1>3, <1>5, <1>6, <1>7 DEF Entries

\* The pages of the range, as the walk counts them.
LEMMA RangeFacts ==
  ASSUME TypeOK
  PROVE  /\ FirstPage0 \in Nat
         /\ LastPage0 \in Nat
         /\ LastPage0 <= Len(Entries)
         /\ call.fn \notin Ranged => FirstPage0 = 0 /\ LastPage0 = Len(Entries)
         /\ call.fn \in Ranged =>
              \A e \in 1..Len(Entries) :
                call.first <= e /\ (call.last = -1 \/ e <= call.last) <=> FirstPage0 < e /\ e <= LastPage0
BY CallFacts, DocFacts, SizesPositive DEF FirstPage0, LastPage0

\* pdf_structure walks every element and keeps those of the range.
Kept(e) == call.fn = "pdf_structure" => InStructureRange(Entries[e].page)

LEMMA WantedFacts ==
  ASSUME TypeOK
  PROVE  /\ \A e \in 1..Len(Entries) : Wanted(e) <=> FirstPage0 < e /\ e <= LastPage0 /\ Kept(e)
         /\ call.fn \in MayThrow => \A e : Kept(e)
<1>1. ASSUME NEW e \in 1..Len(Entries), call.fn = "pdf_structure"
      PROVE  Wanted(e) <=> FirstPage0 < e /\ e <= LastPage0 /\ Kept(e)
  <2>1. call.fn \notin Ranged
    BY <1>1 DEF Ranged, ByPage, AtInit, Drawn
  <2>2. Entries[e].page \in Nat
    BY <1>1, DocFacts, SizesPositive DEF EntryRecord
  <2>3. FirstPage0 < e /\ e <= LastPage0
    BY <2>1, <1>1, RangeFacts, DocFacts
  <2>4. Wanted(e) <=>
          Entries[e].page = 0 \/ (call.first <= Entries[e].page /\ (call.last = -1 \/ Entries[e].page <= call.last))
    BY <2>1, <1>1 DEF Wanted
  <2>5. InStructureRange(Entries[e].page) <=>
          Entries[e].page = 0 \/ (call.first <= Entries[e].page /\ (call.last = -1 \/ Entries[e].page <= call.last))
    BY <2>2, CallFacts DEF InStructureRange
  <2> QED
    BY <1>1, <2>3, <2>4, <2>5 DEF Kept
<1>2. ASSUME NEW e \in 1..Len(Entries), call.fn # "pdf_structure"
      PROVE  Wanted(e) <=> FirstPage0 < e /\ e <= LastPage0 /\ Kept(e)
  <2>1. Kept(e)
    BY <1>2 DEF Kept
  <2>2. Wanted(e) <=> (call.fn \in Ranged => call.first <= e /\ (call.last = -1 \/ e <= call.last))
    BY <1>2 DEF Wanted
  <2> QED
    BY <2>1, <2>2, <1>2, RangeFacts, DocFacts
<1>3. call.fn \in MayThrow => call.fn # "pdf_structure"
  BY DEF MayThrow, ByPage, Drawn, Rewritten, AtInit
<1> QED
  BY <1>1, <1>2, <1>3 DEF Kept

\* What is in the answer, in terms of the walk.
LEMMA AnswerFacts ==
  ASSUME TypeOK
  PROVE  /\ \A r \in Expected :
              /\ r \in Rows /\ doc.opens
              /\ FirstPage0 < r[1] /\ r[1] <= LastPage0
              /\ r[2] <= Entries[r[1]].rows /\ Kept(r[1])
         /\ \A e, k \in Nat :
              doc.opens /\ FirstPage0 < e /\ e <= LastPage0 /\ 1 <= k /\ k <= Entries[e].rows =>
                <<e, k>> \in Rows /\ (<<e, k>> \in Expected <=> Kept(e))
         /\ ~doc.opens => Expected = {}
<1>1. \A r \in Expected :
        /\ r \in Rows /\ doc.opens
        /\ FirstPage0 < r[1] /\ r[1] <= LastPage0
        /\ r[2] <= Entries[r[1]].rows /\ Kept(r[1])
  <2> TAKE r \in Expected
  <2>1. r \in Rows /\ doc.opens /\ r[1] \in 1..Len(Entries) /\ r[2] \in 1..Entries[r[1]].rows /\ Wanted(r[1])
    BY DEF Expected, RowOfAnswer, Rows
  <2>2. Entries[r[1]].rows \in 0..MaxRows
    BY <2>1, DocFacts DEF EntryRecord
  <2> QED
    BY <2>1, <2>2, WantedFacts, SizesPositive
<1>2. ASSUME NEW e \in Nat, NEW k \in Nat, doc.opens, FirstPage0 < e, e <= LastPage0, 1 <= k, k <= Entries[e].rows
      PROVE  <<e, k>> \in Rows /\ (<<e, k>> \in Expected <=> Kept(e))
  <2>1. e \in 1..Len(Entries)
    BY <1>2, RangeFacts, DocFacts
  <2>2. Entries[e].rows \in 0..MaxRows /\ Len(Entries) \in 0..MaxEntries
    BY <2>1, DocFacts DEF EntryRecord
  <2>3. e \in 1..MaxEntries /\ k \in 1..MaxRows
    BY <2>1, <2>2, <1>2, SizesPositive
  <2>4. <<e, k>> \in Rows
    BY <2>3 DEF Rows
  <2>5. <<e, k>> \in Expected <=> RowOfAnswer(<<e, k>>)
    BY <2>3 DEF Expected
  <2>6. RowOfAnswer(<<e, k>>) <=> Wanted(e)
    BY <2>1, <2>2, <1>2, SizesPositive DEF RowOfAnswer
  <2> QED
    BY <2>1, <2>4, <2>5, <2>6, <1>2, WantedFacts
<1>3. ~doc.opens => Expected = {}
  BY DEF Expected, RowOfAnswer
<1> QED
  BY <1>1, <1>2, <1>3

\* Entries to fail on, and the cause of a failure.
LEMMA BrokenFacts ==
  ASSUME TypeOK
  PROVE  /\ \A e \in Broken : e \in 1..Len(Entries) /\ call.fn \in MayThrow /\ Kept(e)
         /\ \A e \in Nat : FirstPage0 < e /\ e <= LastPage0 => (e \in Broken <=> Throws(e))
         /\ ~doc.opens => Broken = {}
<1>1. \A e \in Broken : e \in 1..Len(Entries) /\ Entries[e].bad
  BY DEF Broken, Throws
<1> QED
  BY <1>1, DocFacts, RangeFacts, WantedFacts DEF Broken

LEMMA CauseFacts ==
  ASSUME TypeOK
  PROVE  FailsOnlyForCause <=>
           /\ pc = "failed" => (~doc.opens /\ ~Skipped)
                                \/ (doc.opens /\ \E e \in Broken : FirstPage0 < e /\ e <= LastPage0)
           /\ pc = "done" => /\ doc.opens \/ Skipped
                             /\ doc.opens => Clean(LastPage0)
<1>1. (\E e \in 1..Len(Entries) : Wanted(e) /\ Throws(e)) <=> \E e \in Broken : FirstPage0 < e /\ e <= LastPage0
  BY WantedFacts, BrokenFacts DEF Broken
<1>2. Clean(LastPage0) <=> ~\E e \in Broken : FirstPage0 < e /\ e <= LastPage0
  BY BrokenFacts, RangeFacts, DocFacts DEF Clean
<1>3. doc.opens \in BOOLEAN /\ call.ignore \in BOOLEAN
  BY DocFacts, CallFacts
<1> QED
  BY <1>1, <1>2, <1>3 DEF FailsOnlyForCause, Skipped

\* No step changes the call or the document.
LEMMA InputsStay ==
  ASSUME UNCHANGED inputVars
  PROVE  /\ Entries' = Entries /\ FirstPage0' = FirstPage0 /\ LastPage0' = LastPage0
         /\ Expected' = Expected /\ Broken' = Broken /\ (Skipped' <=> Skipped)
BY DEF inputVars, Entries, FirstPage0, LastPage0, Expected, RowOfAnswer, Wanted, Broken, Throws, Skipped

-----------------------------------------------------------------------------
(* What the parts of the invariant share.                                  *)

LEMMA TypeStep ==
  ASSUME TypeOK, UNCHANGED inputVars, pc' \in Points, taken' \in BOOLEAN, live' \in BOOLEAN,
         cur' \in Nat, item' \in Nat, rows' \in Seq(Rows), rowIdx' \in Nat, given' \in Seq(Rows),
         handed' \in Nat, base' \in Nat, size' \in Nat
  PROVE  TypeOK'
BY DEF TypeOK, inputVars

LEMMA CauseStep ==
  ASSUME TypeOK, UNCHANGED inputVars,
         pc' = "failed" => \/ ~doc.opens /\ ~Skipped
                           \/ doc.opens /\ \E e \in Broken : FirstPage0 < e /\ e <= LastPage0,
         pc' = "done" => (doc.opens \/ Skipped) /\ (doc.opens => Clean(LastPage0))
  PROVE  FailsOnlyForCause'
<1> DEFINE refused == ~doc.opens /\ ~(call.fn \in Tolerant /\ call.ignore)
           broken == doc.opens /\ \E e \in 1..Len(Entries) : Wanted(e) /\ Throws(e)
<1>1. FailsOnlyForCause' <=> (pc' = "failed" => refused \/ broken) /\ (pc' = "done" => ~refused /\ ~broken)
  BY DEF FailsOnlyForCause, Wanted, Throws, Entries, inputVars
<1>2. (\E e \in 1..Len(Entries) : Wanted(e) /\ Throws(e)) <=> \E e \in Broken : FirstPage0 < e /\ e <= LastPage0
  BY WantedFacts, BrokenFacts DEF Broken
<1>3. Clean(LastPage0) <=> ~\E e \in Broken : FirstPage0 < e /\ e <= LastPage0
  BY BrokenFacts, RangeFacts, DocFacts DEF Clean
<1>4. doc.opens \in BOOLEAN /\ call.ignore \in BOOLEAN
  BY DocFacts, CallFacts
<1>5. refused <=> ~doc.opens /\ ~Skipped
  BY <1>4 DEF Skipped
<1>6. broken <=> doc.opens /\ \E e \in Broken : FirstPage0 < e /\ e <= LastPage0
  BY <1>2
<1> HIDE DEF refused, broken
<1> QED
  BY <1>1, <1>3, <1>4, <1>5, <1>6

LEMMA CleanStart ==
  ASSUME TypeOK PROVE Clean(FirstPage0)
BY BrokenFacts, RangeFacts, DocFacts DEF Clean

LEMMA CleanNext ==
  ASSUME TypeOK, NEW e \in Nat, Clean(e), FirstPage0 <= e, e < LastPage0 => ~Throws(e + 1)
  PROVE  e < LastPage0 => Clean(e + 1)
<1> SUFFICES ASSUME e < LastPage0, NEW b \in Broken PROVE b <= FirstPage0 \/ b > e + 1
  BY DEF Clean
<1>1. b <= FirstPage0 \/ b > e
  BY DEF Clean
<1>2. b # e + 1 /\ b \in Nat
  BY BrokenFacts, DocFacts DEF Broken
<1> QED
  BY <1>1, <1>2, RangeFacts

LEMMA CleanEnd ==
  ASSUME TypeOK, NEW e \in Nat, Clean(e), LastPage0 <= e
  PROVE  Clean(LastPage0)
<1> SUFFICES ASSUME NEW b \in Broken PROVE b <= FirstPage0 \/ b > LastPage0
  BY DEF Clean
<1>1. b <= FirstPage0 \/ b > e
  BY DEF Clean
<1> QED
  BY <1>1, BrokenFacts, DocFacts, RangeFacts

\* A page to fail on within the walk.
LEMMA BrokenPage ==
  ASSUME TypeOK, NEW e \in Nat, FirstPage0 <= e, e < LastPage0, Throws(e + 1)
  PROVE  doc.opens /\ \E b \in Broken : FirstPage0 < b /\ b <= LastPage0
<1>1. e + 1 \in Broken
  BY BrokenFacts, RangeFacts
<1> QED
  BY <1>1, BrokenFacts, RangeFacts, DocFacts

LEMMA NothingYet ==
  ASSUME TypeOK PROVE Holds(<<>>, FirstPage0, 0)
BY HoldsNothing, AnswerFacts, RangeFacts DEF Holds

LEMMA PastLast ==
  ASSUME TypeOK, NEW s, NEW e \in Nat, LastPage0 <= e, Holds(s, e, 0)
  PROVE  HoldsAll(s)
<1>1. \A r \in Expected \cap Rows : Behind(r, e, 0)
  BY AnswerFacts, RangeFacts, RowIsPair DEF Behind
<1> QED
  BY <1>1, HoldsEnd DEF Holds, HoldsAll

LEMMA NextEntryHolds ==
  ASSUME TypeOK, NEW s, NEW e \in Nat, NEW k \in Nat, e < LastPage0, Entries[e + 1].rows <= k, Holds(s, e, k)
  PROVE  Holds(s, e + 1, 0)
<1>1. Entries[e + 1].rows \in Nat
  BY RangeFacts, DocFacts, SizesPositive DEF EntryRecord
<1>2. \A r \in Expected \cap Rows : r[1] = e + 1 => r[2] <= k
  BY <1>1, AnswerFacts, RowIsPair
<1> QED
  BY <1>2, HoldsNextEntry DEF Holds

LEMMA AppendHolds ==
  ASSUME TypeOK, NEW s \in Seq(Rows), NEW e \in Nat, NEW k \in Nat, doc.opens, FirstPage0 <= e, e < LastPage0,
         k < Entries[e + 1].rows, Holds(s, e, k)
  PROVE  /\ <<e + 1, k + 1>> \in Rows
         /\ Append(s, <<e + 1, k + 1>>) \in Seq(Rows)
         /\ Kept(e + 1) => <<e + 1, k + 1>> \in Expected /\ Holds(Append(s, <<e + 1, k + 1>>), e, k + 1)
         /\ ~Kept(e + 1) => Holds(s, e, k + 1)
<1>1. Entries[e + 1].rows \in Nat
  BY RangeFacts, DocFacts, SizesPositive DEF EntryRecord
<1>2. <<e + 1, k + 1>> \in Rows /\ (<<e + 1, k + 1>> \in Expected <=> Kept(e + 1))
  BY <1>1, AnswerFacts, RangeFacts
<1>3. Append(s, <<e + 1, k + 1>>) \in Seq(Rows)
  BY <1>2, AppendProperties
<1> QED
  BY <1>2, <1>3, HoldsAppend, HoldsSkip DEF Holds

-----------------------------------------------------------------------------
(* Functions that fill a vector.                                           *)

LEMMA Kinds ==
  /\ \A f \in Vectored : f \in AllFunctions /\ f \notin FileFunctions \cup Cursored
  /\ FileFunctions \cap Cursored = {}
  /\ AllFunctions = Vectored \cup FileFunctions \cup ByPage \cup {"pdf_page_images", "pdf_redact_lateral"}
  /\ ByPage \cap {"pdf_page_images", "pdf_redact_lateral"} = {}
  /\ ByPage \subseteq Cursored /\ {"pdf_page_images", "pdf_redact_lateral"} \subseteq Cursored
BY DEF Vectored, FileFunctions, Cursored, AllFunctions, ByPage, AtInit, OncePerPage, Drawn, Rewritten, OfQpdf,
       OneRow, OfDocument

LEMMA VectorFrame ==
  ASSUME IInv, call.fn \in Vectored, UNCHANGED inputVars, UNCHANGED lateralVars,
         TypeOK', ChunkInv', FailsOnlyForCause', VectorInv'
  PROVE  IInv'
BY Kinds DEF IInv, inputVars, lateralVars, Cursored

LEMMA VectorEmits ==
  ASSUME IInv, call.fn \in Vectored, EmitRow PROVE IInv'
<1> USE DEF IInv
<1>1. TypeOK /\ rowIdx \in Nat /\ Len(rows) \in Nat /\ rowIdx < Len(rows) /\ Len(given) \in Nat /\ handed \in Nat
  BY LenProperties DEF TypeOK, EmitRow, VectorDone
<1>2. rows[rowIdx + 1] \in Rows
  BY <1>1, ElementOfSeq DEF TypeOK
<1>3. /\ given' \in Seq(Rows) /\ Len(given') = Len(given) + 1
      /\ given'[Len(given) + 1] = rows[rowIdx + 1]
      /\ \A i \in 1..Len(given) : given'[i] = given[i]
  BY <1>1, <1>2, AppendProperties DEF EmitRow, TypeOK
<1>4. TypeOK'
  BY <1>1, <1>3, TypeStep DEF EmitRow, TypeOK, lateralVars
<1>5. ChunkInv'
  BY <1>1, <1>3, SizesPositive DEF ChunkInv, EmitRow, Room
<1>6. FailsOnlyForCause'
  BY <1>1, CauseStep DEF EmitRow
<1>7. VectorInv'
  <2>1. UNCHANGED <<call, doc, pc, taken, cur, item, rows>> /\ rowIdx' = rowIdx + 1 /\ pc = "scan"
    BY DEF EmitRow, inputVars
  <2>2. rowIdx = Len(given) /\ \A i \in 1..rowIdx : given[i] = rows[i]
    BY DEF VectorInv
  <2>3. rowIdx' = Len(given') /\ rowIdx' <= Len(rows') /\ \A i \in 1..rowIdx' : given'[i] = rows'[i]
    BY <1>1, <1>3, <2>1, <2>2
  <2>4. taken
    BY <1>1, EmptySeq DEF VectorInv
  <2>5. HoldsAll(rows) /\ (doc.opens \/ Skipped) /\ Clean(LastPage0)
    BY <2>1, <2>4 DEF VectorInv
  <2>6. HoldsAll(rows)' /\ (doc.opens \/ Skipped)' /\ Clean(LastPage0)'
    BY <2>1, <2>5, InputsStay DEF HoldsAll, Clean, inputVars
  <2> QED
    BY <2>1, <2>3, <2>4, <2>6 DEF VectorInv
<1> QED
  BY <1>4, <1>5, <1>6, <1>7, VectorFrame DEF EmitRow

\* Steps that leave the vector and the rows given alone.
LEMMA VectorKeeps ==
  ASSUME IInv, call.fn \in Vectored, UNCHANGED inputVars, UNCHANGED <<taken, cur, item, rows, rowIdx, given>>,
         VectorInv, pc' # "init" /\ pc' # "collect",
         taken \/ (pc \in {"idle", "scan"} /\ pc' \in {"idle", "scan"}),
         pc' \in {"idle", "scan", "done"} /\ taken => HoldsAll(rows) /\ (doc.opens \/ Skipped) /\ Clean(LastPage0),
         pc' = "done" => taken /\ rowIdx = Len(rows)
  PROVE  VectorInv'
<1>1. HoldsAll(rows)' <=> HoldsAll(rows)
  BY InputsStay DEF HoldsAll
<1>2. (doc.opens \/ Skipped)' <=> doc.opens \/ Skipped
  BY InputsStay DEF inputVars
<1>3. Clean(LastPage0)' <=> Clean(LastPage0)
  BY InputsStay DEF Clean
<1> QED
  BY <1>1, <1>2, <1>3 DEF VectorInv, inputVars

LEMMA VectorReturns ==
  ASSUME IInv, call.fn \in Vectored, Break \/ EngineCall PROVE IInv'
<1> USE DEF IInv
<1>1. TypeOK /\ Len(given) \in Nat /\ handed \in Nat /\ Len(rows) \in Nat /\ VectorSize \in Nat \ {0} /\ rowIdx \in Nat
  BY LenProperties, SizesPositive DEF TypeOK
<1>2. /\ UNCHANGED inputVars /\ UNCHANGED lateralVars /\ UNCHANGED walkVars /\ UNCHANGED given
      /\ pc \in {"scan", "idle"}
      /\ pc = "idle" => pc' = "scan" /\ handed' = handed
      /\ pc = "scan" => pc' \in {"idle", "done"} /\ handed' = Len(given)
  BY DEF Break, EngineCall, ReturnChunk, chunkVars
<1>3. pc' = "done" => taken /\ rowIdx = Len(rows)
  <2> SUFFICES ASSUME pc' = "done" PROVE taken /\ rowIdx = Len(rows)
    OBVIOUS
  <2>1. Break /\ handed = Len(given)
    BY DEF Break, EngineCall, ReturnChunk
  <2>2. Room
    BY <2>1, <1>1 DEF Room
  <2> QED
    BY <1>1, <2>1, <2>2 DEF Break, VectorDone, VectorInv
<1>4. TypeOK'
  BY <1>1, <1>2, TypeStep DEF TypeOK, Points, lateralVars, walkVars
<1>5. ChunkInv'
  BY <1>1, <1>2 DEF ChunkInv
<1>6. taken => HoldsAll(rows) /\ (doc.opens \/ Skipped) /\ Clean(LastPage0)
  BY <1>2 DEF VectorInv
<1>7. FailsOnlyForCause'
  BY <1>1, <1>2, <1>3, <1>6, CauseStep
<1>8. VectorInv'
  BY <1>2, <1>3, <1>6, VectorKeeps DEF walkVars
<1> QED
  BY <1>2, <1>4, <1>5, <1>7, <1>8, VectorFrame

LEMMA VectorBegins ==
  ASSUME IInv, call.fn \in Vectored, BeginFile, ~taken, pc \in {"init", "scan"}
  PROVE  IInv'
<1> USE DEF IInv
<1>1. TypeOK /\ Len(given) \in Nat /\ handed \in Nat /\ VectorSize \in Nat \ {0} /\ FirstPage0 \in Nat
  BY LenProperties, SizesPositive, RangeFacts DEF TypeOK
<1>2. /\ UNCHANGED inputVars /\ UNCHANGED lateralVars /\ UNCHANGED <<given, handed, live>>
      /\ taken' = TRUE /\ rows' = <<>> /\ rowIdx' = 0
      /\ doc.opens => pc' = "collect" /\ cur' = FirstPage0 /\ item' = 0
      /\ ~doc.opens => UNCHANGED <<cur, item>>
      /\ ~doc.opens => (Skipped /\ pc' = "scan") \/ (~Skipped /\ pc' = "failed")
  BY DEF BeginFile, chunkVars, Skipped
<1>3. rowIdx = 0 /\ Len(given) = 0 /\ handed = 0
  BY <1>1, EmptySeq DEF VectorInv, ChunkInv, TypeOK
<1>4. <<>> \in Seq(Rows) /\ Len(<<>>) = 0
  BY EmptySeq
<1>5. doc.opens \in BOOLEAN
  BY DocFacts
<1>6. pc' \in Points /\ cur' \in Nat /\ item' \in Nat /\ pc' # "done" /\ pc' # "init" /\ pc' # "idle"
  BY <1>1, <1>2, <1>5 DEF TypeOK, Points
<1>7. TypeOK'
  BY <1>1, <1>2, <1>4, <1>6, TypeStep DEF TypeOK, lateralVars
<1>8. ChunkInv'
  BY <1>1, <1>2, <1>3 DEF ChunkInv
<1>9. FailsOnlyForCause'
  BY <1>1, <1>2, <1>5, <1>6, CauseStep
<1>10. ASSUME doc.opens PROVE VectorInv'
  <2>1. Holds(rows, cur, item)' /\ Clean(cur)' /\ (cur >= FirstPage0)'
    BY <1>1, <1>2, <1>10, NothingYet, CleanStart, InputsStay DEF Holds, Clean
  <2>2. (cur < LastPage0)' => (item <= Entries[cur + 1].rows)'
    <3>1. FirstPage0 < LastPage0 => Entries[FirstPage0 + 1].rows \in Nat
      BY <1>1, RangeFacts, DocFacts, SizesPositive DEF EntryRecord
    <3> QED
      BY <1>2, <1>10, <3>1, InputsStay
  <2> QED
    BY <1>2, <1>3, <1>4, <1>10, <2>1, <2>2 DEF VectorInv, inputVars
<1>11. ASSUME ~doc.opens PROVE VectorInv'
  <2>1. HoldsAll(<<>>) /\ Clean(LastPage0)
    BY <1>1, <1>11, AnswerFacts, BrokenFacts, HoldsAllOfNothing DEF HoldsAll, Clean
  <2>2. HoldsAll(rows)' /\ Clean(LastPage0)' /\ (Skipped' <=> Skipped)
    BY <1>2, <2>1, InputsStay DEF HoldsAll, Clean
  <2> QED
    BY <1>2, <1>3, <1>4, <1>11, <2>2 DEF VectorInv, inputVars
<1> QED
  BY <1>2, <1>5, <1>7, <1>8, <1>9, <1>10, <1>11, VectorFrame

\* What holds while the vector is filled.
LEMMA Collecting ==
  ASSUME IInv, call.fn \in Vectored, pc = "collect"
  PROVE  /\ TypeOK /\ taken /\ doc.opens /\ rowIdx = 0 /\ Len(given) = 0 /\ handed = 0
         /\ cur \in Nat /\ item \in Nat /\ rows \in Seq(Rows) /\ given \in Seq(Rows)
         /\ FirstPage0 \in Nat /\ LastPage0 \in Nat /\ cur >= FirstPage0
         /\ cur < LastPage0 => Entries[cur + 1].rows \in Nat /\ item <= Entries[cur + 1].rows
         /\ cur >= LastPage0 => item = 0
         /\ Holds(rows, cur, item) /\ Clean(cur)
<1>1. TypeOK /\ VectorInv /\ ChunkInv
  BY DEF IInv
<1>2. cur < LastPage0 => Entries[cur + 1].rows \in Nat
  BY <1>1, RangeFacts, DocFacts, SizesPositive DEF EntryRecord, TypeOK
<1> QED
  BY <1>1, <1>2, RangeFacts DEF TypeOK, VectorInv, ChunkInv

\* A step of the loop that fills the vector.
LEMMA CollectStep ==
  ASSUME IInv, call.fn \in Vectored, pc = "collect", pc' = "collect",
         UNCHANGED <<inputVars, taken, live, rowIdx, chunkVars, lateralVars>>,
         cur' \in Nat, item' \in Nat, rows' \in Seq(Rows), cur' >= FirstPage0,
         cur' < LastPage0 => item' <= Entries[cur' + 1].rows,
         cur' >= LastPage0 => item' = 0,
         Holds(rows', cur', item'), Clean(cur')
  PROVE  IInv'
<1>1. /\ UNCHANGED inputVars /\ UNCHANGED lateralVars /\ UNCHANGED <<taken, live, rowIdx, given, handed>>
      /\ TypeOK /\ ChunkInv /\ taken /\ doc.opens /\ rowIdx = 0 /\ Len(given) = 0
  BY Collecting DEF chunkVars, IInv
<1>2. TypeOK'
  BY <1>1, TypeStep DEF TypeOK, lateralVars
<1>3. ChunkInv'
  BY <1>1 DEF ChunkInv
<1>4. FailsOnlyForCause'
  BY <1>1, CauseStep
<1>5. Holds(rows, cur, item)' /\ Clean(cur)'
  BY <1>1, InputsStay DEF Holds, Clean
<1>6. (cur >= FirstPage0)' /\ (cur < LastPage0 => item <= Entries[cur + 1].rows)' /\ (cur >= LastPage0 => item = 0)'
  BY <1>1, InputsStay
<1>7. rowIdx' = 0 /\ Len(given') = 0 /\ Len(rows') \in Nat
  BY <1>1, LenProperties
<1>8. VectorInv'
  BY <1>1, <1>5, <1>6, <1>7 DEF VectorInv, inputVars
<1> QED
  BY <1>1, <1>2, <1>3, <1>4, <1>8, VectorFrame

LEMMA VectorPushes ==
  ASSUME IInv, call.fn \in Vectored, NEW keeps \in BOOLEAN, PushRow(keeps), keeps <=> Kept(cur + 1)
  PROVE  IInv'
<1>1. pc = "collect" /\ cur < LastPage0 /\ item < Entries[cur + 1].rows
  BY DEF PushRow
<1>2. /\ <<cur + 1, item + 1>> \in Rows
      /\ Append(rows, <<cur + 1, item + 1>>) \in Seq(Rows)
      /\ Kept(cur + 1) => Holds(Append(rows, <<cur + 1, item + 1>>), cur, item + 1)
      /\ ~Kept(cur + 1) => Holds(rows, cur, item + 1)
  BY <1>1, Collecting, AppendHolds
<1>3. rows' \in Seq(Rows) /\ Holds(rows', cur, item + 1)
  BY <1>1, <1>2, Collecting DEF PushRow
<1>4. item + 1 \in Nat /\ item + 1 <= Entries[cur + 1].rows /\ ~(cur >= LastPage0)
  BY <1>1, Collecting
<1>5. /\ cur' = cur /\ item' = item + 1 /\ pc' = pc
      /\ UNCHANGED <<inputVars, taken, live, rowIdx, chunkVars, lateralVars>>
  BY DEF PushRow
<1> QED
  BY <1>1, <1>3, <1>4, <1>5, Collecting, CollectStep

LEMMA VectorMoves ==
  ASSUME IInv, call.fn \in Vectored, NextEntry PROVE IInv'
<1>1. pc = "collect" /\ cur < LastPage0 /\ item >= Entries[cur + 1].rows /\ ~Throws(cur + 1)
  BY DEF NextEntry
<1>2. Holds(rows, cur + 1, 0)
  BY <1>1, Collecting, NextEntryHolds
<1>3. Clean(cur + 1)
  BY <1>1, Collecting, CleanNext
<1>4. cur + 1 \in Nat /\ cur + 1 >= FirstPage0
  BY <1>1, Collecting
<1>5. ASSUME cur + 1 < LastPage0 PROVE 0 <= Entries[cur + 1 + 1].rows
  <2>1. cur + 1 + 1 \in 1..Len(Entries)
    BY <1>1, <1>5, Collecting, RangeFacts, DocFacts
  <2>2. Entries[cur + 1 + 1] \in EntryRecord
    BY <1>1, <2>1, Collecting, DocFacts
  <2> QED
    BY <2>2, SizesPositive DEF EntryRecord
<1>6. /\ cur' = cur + 1 /\ item' = 0 /\ pc' = pc /\ rows' = rows
      /\ UNCHANGED <<inputVars, taken, live, rowIdx, chunkVars, lateralVars>>
  BY DEF NextEntry
<1> QED
  BY <1>1, <1>2, <1>3, <1>4, <1>5, <1>6, Collecting, CollectStep

LEMMA VectorThrows ==
  ASSUME IInv, call.fn \in Vectored, EntryThrows PROVE IInv'
<1>1. pc = "collect" /\ cur < LastPage0 /\ Throws(cur + 1) /\ pc' = "failed" /\ UNCHANGED walkVars
      /\ UNCHANGED inputVars /\ UNCHANGED lateralVars /\ UNCHANGED chunkVars
  BY DEF EntryThrows, Throw
<1>2. doc.opens /\ \E b \in Broken : FirstPage0 < b /\ b <= LastPage0
  BY <1>1, Collecting, BrokenPage
<1>3. FailsOnlyForCause'
  BY <1>1, <1>2, Collecting, CauseStep
<1>4. TypeOK'
  BY <1>1, Collecting, TypeStep DEF TypeOK, Points, walkVars, chunkVars, lateralVars
<1>5. ChunkInv'
  BY <1>1 DEF IInv, ChunkInv, chunkVars
<1>6. VectorInv /\ taken
  BY <1>1, Collecting DEF IInv
<1>7. VectorInv'
  BY <1>1, <1>6, VectorKeeps DEF walkVars, chunkVars
<1> QED
  BY <1>1, <1>3, <1>4, <1>5, <1>7, VectorFrame

LEMMA VectorCollected ==
  ASSUME IInv, call.fn \in Vectored, NEW then \in {"scan", "idle"}, Collected(then) PROVE IInv'
<1>1. pc = "collect" /\ cur >= LastPage0 /\ pc' = then /\ UNCHANGED walkVars
      /\ UNCHANGED inputVars /\ UNCHANGED lateralVars /\ UNCHANGED chunkVars
  BY DEF Collected
<1>2. HoldsAll(rows) /\ Clean(LastPage0)
  BY <1>1, Collecting, PastLast, CleanEnd
<1>3. FailsOnlyForCause'
  BY <1>1, Collecting, CauseStep
<1>4. TypeOK'
  BY <1>1, Collecting, TypeStep DEF TypeOK, Points, walkVars, chunkVars, lateralVars
<1>5. ChunkInv'
  BY <1>1 DEF IInv, ChunkInv, chunkVars
<1>6. VectorInv /\ taken /\ doc.opens
  BY <1>1, Collecting DEF IInv
<1>7. VectorInv'
  BY <1>1, <1>2, <1>6, VectorKeeps DEF walkVars, chunkVars
<1> QED
  BY <1>1, <1>3, <1>4, <1>5, <1>7, VectorFrame

LEMMA VectorNext ==
  ASSUME IInv, call.fn \in Vectored, Next PROVE IInv'
<1>1. call.fn \notin FileFunctions \cup Cursored
  BY Kinds
<1>2. ASSUME CollectingScan(TRUE), call.fn # "pdf_structure" PROVE IInv'
  <2>1. TRUE <=> Kept(cur + 1)
    BY <1>2 DEF Kept
  <2>2. BeginFile /\ ~taken /\ pc = "scan" => IInv'
    BY VectorBegins
  <2> QED
    BY <1>2, <2>1, <2>2, VectorEmits, VectorReturns, VectorPushes, VectorMoves, VectorThrows, VectorCollected
       DEF CollectingScan, Collect
<1>3. ASSUME PdfStructureScan PROVE IInv'
  <2>1. call.fn = "pdf_structure" /\ CollectingScan(InStructureRange(Entries[cur + 1].page))
    BY <1>3 DEF PdfStructureScan
  <2>2. InStructureRange(Entries[cur + 1].page) \in BOOLEAN
    BY DEF InStructureRange
  <2>3. InStructureRange(Entries[cur + 1].page) <=> Kept(cur + 1)
    BY <2>1 DEF Kept
  <2>4. BeginFile /\ ~taken /\ pc = "scan" => IInv'
    BY VectorBegins
  <2> QED
    BY <2>1, <2>2, <2>3, <2>4, VectorEmits, VectorReturns, VectorPushes, VectorMoves, VectorThrows, VectorCollected
       DEF CollectingScan, Collect
<1>4. ASSUME InitCollect, call.fn # "pdf_structure" PROVE IInv'
  <2>1. TRUE <=> Kept(cur + 1)
    BY <1>4 DEF Kept
  <2>2. pc = "init" => ~taken
    BY DEF IInv, VectorInv
  <2> QED
    BY <1>4, <2>1, <2>2, VectorBegins, VectorPushes, VectorMoves, VectorThrows, VectorCollected
       DEF InitCollect, Collect
<1>5. ASSUME VectorScan PROVE IInv'
  BY <1>5, VectorEmits, VectorReturns DEF VectorScan
<1>6. ASSUME Inspections PROVE IInv'
  <2>1. PdfInfoScan \/ PdfQpdfInfoScan => FALSE
    BY <1>1 DEF PdfInfoScan, PdfQpdfInfoScan, FileFunctions
  <2>2. PdfOutlineScan \/ PdfAttachmentsScan \/ PdfRevisionsScan \/ PdfPagesInfoScan \/ PdfFontsScan
          \/ PdfDestinationsScan => CollectingScan(TRUE) /\ call.fn # "pdf_structure"
    BY DEF PdfOutlineScan, PdfAttachmentsScan, PdfRevisionsScan, PdfPagesInfoScan, PdfFontsScan, PdfDestinationsScan
  <2> QED
    BY <1>6, <2>1, <2>2, <1>2, <1>3 DEF Inspections
<1>7. ASSUME Materialised PROVE IInv'
  <2>1. (InitCollect \/ VectorScan) /\ call.fn # "pdf_structure"
    BY <1>7 DEF Materialised, ReadPdfElementsInit, ReadPdfElementsScan, PdfChunksInit, PdfChunksScan,
                ReadPdfTablesInit, ReadPdfTablesScan
  <2> QED
    BY <2>1, <1>4, <1>5
<1>8. ASSUME PageCursors PROVE IInv'
  BY <1>1, <1>8 DEF PageCursors, ReadPdfWordsInit, ReadPdfWordsScan, ReadPdfLinesInit, ReadPdfLinesScan,
                    PdfPageImagesScan, Cursored, ByPage
<1>9. ASSUME Executed PROVE IInv'
  <2>1. CollectingScan(TRUE) /\ call.fn # "pdf_structure"
    BY <1>9 DEF Executed, PdfSplitScan, PdfSplitBlankScan, PdfOcrScan, PdfRedactScan, PdfWritePageImagesScan,
                PdfSignScan, PdfFormFieldsScan, PdfAnnotationsScan, PdfSignaturesScan, PdfImagesScan
  <2> QED
    BY <2>1, <1>2
<1>10. ASSUME PdfRedactLateralInOut \/ EngineInput \/ EngineFinished PROVE IInv'
  BY <1>1, <1>10 DEF PdfRedactLateralInOut, EngineInput, EngineFinished, Lateral, Cursored
<1> QED
  BY <1>6, <1>7, <1>8, <1>9, <1>10, VectorReturns DEF Next, Engine

-----------------------------------------------------------------------------
(* Functions of one row per file.                                          *)

LEMMA FileNext ==
  ASSUME IInv, call.fn \in FileFunctions, Next PROVE IInv'
<1>1. FileRow \/ Break \/ EngineCall
  BY DEF FileFunctions, Next, Inspections, Materialised, PageCursors, Executed, PdfRedactLateralInOut, Engine,
         PdfInfoScan, PdfQpdfInfoScan, PdfOutlineScan, PdfStructureScan, PdfAttachmentsScan, PdfRevisionsScan,
         PdfPagesInfoScan, PdfFontsScan, PdfDestinationsScan, ReadPdfElementsInit, ReadPdfElementsScan,
         PdfChunksInit, PdfChunksScan, ReadPdfTablesInit, ReadPdfTablesScan, ReadPdfWordsInit, ReadPdfWordsScan,
         ReadPdfLinesInit, ReadPdfLinesScan, PdfPageImagesScan, PdfSplitScan, PdfSplitBlankScan, PdfOcrScan,
         PdfRedactScan, PdfWritePageImagesScan, PdfSignScan, PdfFormFieldsScan, PdfAnnotationsScan,
         PdfSignaturesScan, PdfImagesScan, Lateral, EngineInput, EngineFinished
<1>2. /\ TypeOK /\ ChunkInv /\ FileInv /\ Len(given) \in Nat /\ handed \in Nat /\ VectorSize \in Nat \ {0}
      /\ doc.opens \in BOOLEAN /\ call.fn \notin Vectored /\ call.fn \notin Cursored
      /\ call.fn \notin MayThrow /\ Clean(LastPage0) /\ base = 0 /\ size = 0
  BY SizesPositive, LenProperties, DocFacts, BrokenFacts
     DEF IInv, TypeOK, FileFunctions, Vectored, Cursored, ByPage, MayThrow, Drawn, Rewritten, AtInit, Clean
<1>3. /\ UNCHANGED inputVars /\ UNCHANGED <<live, cur, item, rows, rowIdx, base, size>>
  BY <1>1 DEF FileRow, Break, EngineCall, ReturnChunk, walkVars, lateralVars
<1>4. doc.opens => TheRow \in Rows
  <2> SUFFICES ASSUME doc.opens PROVE TheRow \in Rows
    OBVIOUS
  <2>1. call.fn \in OneRow \/ call.fn \in {"pdf_info"}
    BY DEF FileFunctions, OneRow
  <2>2. Len(Entries) = 1 /\ Entries[1].rows = 1 /\ Entries[1] \in EntryRecord /\ Len(Entries) \in 0..MaxEntries
    BY <1>2, <2>1, DocFacts DEF OneRow, Single
  <2> QED
    BY <2>2, SizesPositive DEF Rows, TheRow, EntryRecord
<1>5. ASSUME FileRow PROVE IInv'
  <2>1. /\ pc = "scan" /\ ~taken /\ taken' = TRUE /\ handed' = handed /\ given = <<>> /\ Len(given) < handed + VectorSize
        /\ doc.opens => pc' = pc /\ given' = Append(given, TheRow)
        /\ ~doc.opens => given' = given /\ ((Skipped /\ pc' = "scan") \/ (~Skipped /\ pc' = "failed"))
    BY <1>2, <1>5 DEF FileRow, Room, FileInv, Skipped
  <2>2. given' \in Seq(Rows) /\ given' = (IF doc.opens THEN <<TheRow>> ELSE <<>>)
    <3>1. <<>> \in Seq(Rows) /\ Append(<<>>, TheRow) = <<TheRow>>
      BY EmptySeq
    <3>2. doc.opens => Append(<<>>, TheRow) \in Seq(Rows)
      BY <1>4, <3>1, AppendProperties
    <3> QED
      BY <2>1, <1>2, <3>1, <3>2
  <2>3. Len(given') \in Nat /\ Len(given) <= Len(given') /\ Len(given') <= Len(given) + 1
    BY <2>1, <2>2, <1>2
  <2>4. TypeOK'
    BY <1>2, <1>3, <2>1, <2>2, TypeStep DEF TypeOK, Points
  <2>5. ChunkInv'
    BY <1>2, <2>1, <2>3 DEF ChunkInv
  <2>6. FailsOnlyForCause'
    BY <1>2, <1>3, <2>1, CauseStep
  <2>7. FileInv'
    BY <1>2, <1>3, <2>1, <2>2, InputsStay DEF FileInv, inputVars
  <2> QED
    BY <1>2, <1>3, <2>4, <2>5, <2>6, <2>7 DEF IInv, inputVars, Cursored
<1>6. ASSUME Break \/ EngineCall PROVE IInv'
  <2>1. /\ UNCHANGED <<taken, given>> /\ pc \in {"scan", "idle"}
        /\ pc = "idle" => pc' = "scan" /\ handed' = handed
        /\ pc = "scan" => pc' \in {"idle", "done"} /\ handed' = Len(given)
    BY <1>6 DEF Break, EngineCall, ReturnChunk, chunkVars, walkVars
  <2>2. pc' = "done" => taken
    <3> SUFFICES ASSUME pc' = "done" PROVE taken
      OBVIOUS
    <3>1. Break /\ handed = Len(given)
      BY <1>6 DEF Break, EngineCall, ReturnChunk
    <3>2. Room
      BY <3>1, <1>2 DEF Room
    <3> QED
      BY <3>1, <3>2 DEF Break
  <2>3. taken => doc.opens \/ Skipped
    BY <1>2, <2>1 DEF FileInv
  <2>4. TypeOK'
    BY <1>2, <1>3, <2>1, TypeStep DEF TypeOK, Points
  <2>5. ChunkInv'
    BY <1>2, <2>1 DEF ChunkInv
  <2>6. FailsOnlyForCause'
    BY <1>2, <1>3, <2>1, <2>2, <2>3, CauseStep
  <2>7. FileInv'
    BY <1>2, <1>3, <2>1, <2>2, InputsStay DEF FileInv, inputVars
  <2> QED
    BY <1>2, <1>3, <2>4, <2>5, <2>6, <2>7 DEF IInv, inputVars, Cursored
<1> QED
  BY <1>1, <1>5, <1>6

-----------------------------------------------------------------------------
(* The row vector of one page or input row.                                *)

LEMMA RowsOfFacts ==
  ASSUME TypeOK, NEW e \in 1..Len(Entries)
  PROVE  /\ Entries[e].rows \in Nat
         /\ RowsOf(e) \in Seq(Rows)
         /\ Len(RowsOf(e)) = Entries[e].rows
         /\ \A k \in 1..Entries[e].rows : RowsOf(e)[k] = <<e, k>>
<1> DEFINE n == Entries[e].rows
<1>1. n \in 0..MaxRows /\ e \in 1..MaxEntries
  BY DocFacts, SizesPositive DEF EntryRecord
<1> HIDE DEF n
<1>2. \A k \in 1..n : <<e, k>> \in Rows
  BY <1>1, SizesPositive DEF Rows
<1>3. [k \in 1..n |-> <<e, k>>] \in [1..n -> Rows]
  BY <1>2
<1>4. n \in Nat
  BY <1>1, SizesPositive
<1>5. [k \in 1..n |-> <<e, k>>] \in Seq(Rows) /\ Len([k \in 1..n |-> <<e, k>>]) = n
  BY <1>3, <1>4, IsASeq
<1>6. RowsOf(e) = [k \in 1..n |-> <<e, k>>]
  BY DEF RowsOf, n
<1> QED
  BY <1>4, <1>5, <1>6 DEF n

-----------------------------------------------------------------------------
(* Words and lines.                                                        *)

LEMMA ByPageActions ==
  ASSUME call.fn \in ByPage, Next
  PROVE  OpenPaged \/ PagedScan \/ EngineCall
BY DEF ByPage, Next, Inspections, Materialised, PageCursors, Executed, PdfRedactLateralInOut, Engine,
       PdfInfoScan, PdfQpdfInfoScan, PdfOutlineScan, PdfStructureScan, PdfAttachmentsScan, PdfRevisionsScan,
       PdfPagesInfoScan, PdfFontsScan, PdfDestinationsScan, ReadPdfElementsInit, ReadPdfElementsScan,
       PdfChunksInit, PdfChunksScan, ReadPdfTablesInit, ReadPdfTablesScan, ReadPdfWordsInit, ReadPdfWordsScan,
       ReadPdfLinesInit, ReadPdfLinesScan, PdfPageImagesScan, PdfSplitScan, PdfSplitBlankScan, PdfOcrScan,
       PdfRedactScan, PdfWritePageImagesScan, PdfSignScan, PdfFormFieldsScan, PdfAnnotationsScan,
       PdfSignaturesScan, PdfImagesScan, Lateral, EngineInput, EngineFinished

LEMMA CursorFrame ==
  ASSUME IInv, call.fn \in Cursored, UNCHANGED inputVars, TypeOK', ChunkInv', FailsOnlyForCause',
         (call.fn # "pdf_redact_lateral" => base = 0 /\ size = 0)',
         pc' # "failed" =>
           /\ call.fn \in ByPage => PagedInv'
           /\ call.fn = "pdf_page_images" => ImagesInv'
           /\ call.fn = "pdf_redact_lateral" => LateralInv'
  PROVE  IInv'
BY Kinds DEF IInv, inputVars, Vectored

LEMMA PagedFacts ==
  ASSUME IInv, call.fn \in ByPage
  PROVE  /\ TypeOK /\ ChunkInv /\ FirstPage0 \in Nat /\ LastPage0 \in Nat /\ call.fn \in Cursored
         /\ Len(given) \in Nat /\ Len(rows) \in Nat /\ handed \in Nat /\ rowIdx \in Nat /\ cur \in Nat
         /\ VectorSize \in Nat \ {0} /\ doc.opens \in BOOLEAN /\ live \in BOOLEAN
         /\ call.fn \notin Tolerant /\ \A e : Kept(e)
         /\ pc # "failed" => PagedInv
BY SizesPositive, LenProperties, RangeFacts, DocFacts
   DEF IInv, TypeOK, ByPage, Tolerant, Cursored, Kept

LEMMA PagedEmits ==
  ASSUME IInv, call.fn \in ByPage, live, EmitRow PROVE IInv'
<1>1. /\ pc = "scan" /\ rowIdx < Len(rows) /\ given' = Append(given, rows[rowIdx + 1]) /\ rowIdx' = rowIdx + 1
      /\ Len(given) - handed < VectorSize
      /\ UNCHANGED <<inputVars, pc, taken, live, cur, item, rows, handed, lateralVars>>
  BY PagedFacts DEF EmitRow, Room, VectorDone
<1>2. /\ doc.opens /\ FirstPage0 <= cur /\ rows = (IF cur < LastPage0 THEN RowsOf(cur + 1) ELSE <<>>)
      /\ Holds(given, cur, rowIdx) /\ Clean(cur + 1)
  BY <1>1, PagedFacts DEF PagedInv
<1>3. cur < LastPage0 /\ rows = RowsOf(cur + 1)
  BY <1>1, <1>2, PagedFacts, EmptySeq
<1>4. cur + 1 \in 1..Len(Entries)
  BY <1>3, PagedFacts, RangeFacts, DocFacts
<1>5. rowIdx < Entries[cur + 1].rows /\ rows[rowIdx + 1] = <<cur + 1, rowIdx + 1>>
  <2>1. TypeOK /\ rowIdx \in Nat
    BY PagedFacts
  <2>2. Entries[cur + 1].rows \in Nat /\ Len(RowsOf(cur + 1)) = Entries[cur + 1].rows
    BY <1>4, <2>1, RowsOfFacts
  <2>3. rowIdx + 1 \in 1..Entries[cur + 1].rows
    BY <1>1, <1>3, <2>1, <2>2
  <2> QED
    BY <1>3, <1>4, <2>1, <2>2, <2>3, RowsOfFacts
<1>6. given \in Seq(Rows)
  BY PagedFacts DEF TypeOK
<1>7. given' \in Seq(Rows) /\ Holds(given', cur, rowIdx + 1)
  BY <1>1, <1>2, <1>3, <1>5, <1>6, PagedFacts, AppendHolds
<1>8. Len(given') = Len(given) + 1
  BY <1>1, <1>3, <1>4, <1>5, <1>6, <1>7, PagedFacts, AppendProperties, AppendHolds, <1>2
<1>9. UNCHANGED inputVars /\ UNCHANGED lateralVars /\ UNCHANGED <<pc, taken, live, cur, item, rows, handed>>
  BY <1>1
<1>10. TypeOK'
  BY <1>1, <1>7, <1>9, PagedFacts, TypeStep DEF TypeOK, lateralVars
<1>11. ChunkInv'
  BY <1>1, <1>8, <1>9, PagedFacts DEF ChunkInv
<1>12. FailsOnlyForCause'
  BY <1>1, <1>9, PagedFacts, CauseStep
<1>13. PagedInv'
  <2>1. Holds(given, cur, rowIdx)' /\ Clean(cur + 1)'
    BY <1>1, <1>2, <1>7, <1>9, InputsStay DEF Holds, Clean
  <2>2. rows' = (IF cur < LastPage0 THEN RowsOf(cur + 1) ELSE <<>>)'
    BY <1>2, <1>9, InputsStay DEF RowsOf
  <2>3. rowIdx' <= Len(rows')
    BY <1>1, <1>9, PagedFacts
  <2> QED
    BY <1>1, <1>2, <1>9, <2>1, <2>2, <2>3, InputsStay DEF PagedInv, inputVars
<1> QED
  BY <1>9, <1>10, <1>11, <1>12, <1>13, PagedFacts, CursorFrame, Kinds DEF IInv, lateralVars, inputVars

\* A range whose first page the walk never reaches takes the whole document.
LEMMA EmptyRange ==
  ASSUME TypeOK, LastPage0 <= FirstPage0, Len(Entries) > 0
  PROVE  LastPage0 = Len(Entries)
BY CallFacts, DocFacts DEF FirstPage0, LastPage0

\* What holds of a page just loaded.
LEMMA PageLoaded ==
  ASSUME IInv, call.fn \in ByPage, UNCHANGED inputVars, NEW page0 \in Nat, LoadPage(page0), doc.opens, page0 >= FirstPage0,
         ~PageThrows(page0), Clean(page0), Holds(given, page0, 0), given' = given, live', pc' \notin {"init", "done"},
         pc' \in Points, page0 < LastPage0 \/ page0 = FirstPage0
  PROVE  /\ cur' = page0 /\ rowIdx' = 0 /\ rows' \in Seq(Rows)
         /\ pc' \in {"idle", "scan"} => PagedInv'
<1>1. cur' = page0 /\ rowIdx' = 0 /\ rows' = (IF page0 < LastPage0 THEN RowsOf(page0 + 1) ELSE <<>>)
  BY DEF LoadPage, PageThrows
<1>2. page0 < LastPage0 => page0 + 1 \in 1..Len(Entries)
  BY PagedFacts, RangeFacts, DocFacts
<1>3. rows' \in Seq(Rows)
  BY <1>1, <1>2, PagedFacts, RowsOfFacts, EmptySeq
<1>4. Clean(page0 + 1)
  <2>1. CASE page0 < LastPage0
    BY <2>1, PagedFacts, CleanNext DEF PageThrows
  <2>2. CASE page0 >= LastPage0
    <3>1. Len(Entries) > 0
      BY PagedFacts, DocFacts DEF PageBased
    <3>2. LastPage0 = Len(Entries)
      BY <2>2, <3>1, PagedFacts, EmptyRange
    <3>3. \A b \in Broken : b \in 1..Len(Entries)
      BY DEF Broken
    <3> QED
      BY <2>2, <3>2, <3>3, PagedFacts DEF Clean
  <2> QED
    BY <2>1, <2>2, PagedFacts
<1>5. Holds(given, cur, rowIdx)' /\ Clean(cur + 1)'
  BY <1>1, <1>4, InputsStay DEF Holds, Clean
<1>6. rows' = (IF cur < LastPage0 THEN RowsOf(cur + 1) ELSE <<>>)'
  BY <1>1, InputsStay DEF RowsOf
<1>7. rowIdx' <= Len(rows') /\ (cur >= FirstPage0)'
  BY <1>1, <1>3, LenProperties, InputsStay
<1> QED
  BY <1>1, <1>3, <1>5, <1>6, <1>7, InputsStay DEF PagedInv, inputVars

LEMMA PagedOpens ==
  ASSUME IInv, call.fn \in ByPage, OpenPaged PROVE IInv'
<1>1. /\ pc = "init" /\ TypeOK /\ ChunkInv /\ PagedInv /\ given = <<>> /\ ~live /\ Clean(FirstPage0) /\ Holds(given, FirstPage0, 0)
      /\ handed = Len(given)
  BY PagedFacts, CleanStart, NothingYet DEF OpenPaged, PagedInv, ChunkInv
<1>2. UNCHANGED inputVars /\ UNCHANGED lateralVars /\ UNCHANGED <<taken, item, given, handed>>
  BY DEF OpenPaged, chunkVars
<1>3. ASSUME ~doc.opens PROVE IInv'
  <2>1. pc' = "failed" /\ UNCHANGED <<cur, rows, rowIdx, live>> /\ ~Skipped
    BY <1>3, PagedFacts DEF OpenPaged, Skipped
  <2>2. TypeOK' /\ ChunkInv'
    BY <1>1, <1>2, <2>1, TypeStep DEF TypeOK, ChunkInv, Points, lateralVars
  <2>3. FailsOnlyForCause'
    BY <1>1, <1>2, <1>3, <2>1, CauseStep
  <2> QED
    BY <1>2, <2>1, <2>2, <2>3, PagedFacts, CursorFrame DEF IInv, lateralVars, inputVars
<1>4. ASSUME doc.opens, PageThrows(FirstPage0) PROVE IInv'
  <2>1. pc' = "failed" /\ live' = TRUE /\ cur' = FirstPage0 /\ rowIdx' = 0 /\ rows' = <<>>
    BY <1>4 DEF OpenPaged, LoadPage, PageThrows
  <2>2. \E b \in Broken : FirstPage0 < b /\ b <= LastPage0
    BY <1>1, <1>4, PagedFacts, BrokenPage DEF PageThrows
  <2>3. TypeOK' /\ ChunkInv'
    BY <1>1, <1>2, <2>1, TypeStep, EmptySeq, PagedFacts DEF TypeOK, ChunkInv, Points, lateralVars
  <2>4. FailsOnlyForCause'
    BY <1>1, <1>2, <1>4, <2>1, <2>2, CauseStep
  <2> QED
    BY <1>2, <2>1, <2>3, <2>4, PagedFacts, CursorFrame DEF IInv, lateralVars, inputVars
<1>5. ASSUME doc.opens, ~PageThrows(FirstPage0) PROVE IInv'
  <2>1. pc' = "idle" /\ live' = TRUE /\ LoadPage(FirstPage0)
    BY <1>5 DEF OpenPaged
  <2>2. cur' = FirstPage0 /\ rowIdx' = 0 /\ rows' \in Seq(Rows) /\ PagedInv'
    BY <1>1, <1>2, <1>5, <2>1, PagedFacts, PageLoaded DEF Points
  <2>3. TypeOK' /\ ChunkInv'
    BY <1>1, <1>2, <2>1, <2>2, TypeStep, PagedFacts DEF TypeOK, ChunkInv, Points, lateralVars
  <2>4. FailsOnlyForCause'
    BY <1>1, <1>2, <2>1, CauseStep
  <2> QED
    BY <1>2, <2>1, <2>2, <2>3, <2>4, PagedFacts, CursorFrame, Kinds DEF IInv, lateralVars, inputVars
<1> QED
  BY <1>3, <1>4, <1>5, PagedFacts

\* The rows given when a page has been emitted.
LEMMA PageEmitted ==
  ASSUME IInv, call.fn \in ByPage, pc = "scan", live, VectorDone
  PROVE  IF cur < LastPage0 THEN Holds(given, cur + 1, 0) ELSE Holds(given, cur, 0)
<1>1. rows = (IF cur < LastPage0 THEN RowsOf(cur + 1) ELSE <<>>) /\ rowIdx = Len(rows) /\ Holds(given, cur, rowIdx)
  BY PagedFacts DEF PagedInv, VectorDone
<1>2. ASSUME cur < LastPage0 PROVE Holds(given, cur + 1, 0)
  <2>1. cur + 1 \in 1..Len(Entries)
    BY <1>2, PagedFacts, RangeFacts, DocFacts
  <2>2. Entries[cur + 1].rows \in Nat /\ rowIdx = Entries[cur + 1].rows
    BY <1>1, <1>2, <2>1, PagedFacts, RowsOfFacts
  <2> QED
    BY <1>1, <1>2, <2>2, PagedFacts, NextEntryHolds
<1>3. ASSUME ~(cur < LastPage0) PROVE Holds(given, cur, 0)
  BY <1>1, <1>3, EmptySeq
<1> QED
  BY <1>2, <1>3

LEMMA PagedMoves ==
  ASSUME IInv, call.fn \in ByPage, NextPage PROVE IInv'
<1>1. /\ pc = "scan" /\ live /\ VectorDone /\ cur + 1 < LastPage0 /\ LoadPage(cur + 1)
      /\ UNCHANGED inputVars /\ UNCHANGED lateralVars /\ UNCHANGED <<taken, live, item, given, handed>>
      /\ pc' = IF PageThrows(cur + 1) THEN "failed" ELSE pc
  BY DEF NextPage, chunkVars
<1>2. TypeOK /\ ChunkInv /\ doc.opens /\ cur >= FirstPage0 /\ Clean(cur + 1) /\ Holds(given, cur + 1, 0)
  BY <1>1, PagedFacts, PageEmitted DEF PagedInv
<1>3. cur + 1 \in Nat /\ cur + 1 >= FirstPage0
  BY <1>2, PagedFacts
<1>4. ASSUME PageThrows(cur + 1) PROVE IInv'
  <2>1. pc' = "failed" /\ cur' = cur + 1 /\ rowIdx' = 0 /\ rows' = <<>>
    BY <1>1, <1>4 DEF LoadPage, PageThrows
  <2>2. \E b \in Broken : FirstPage0 < b /\ b <= LastPage0
    BY <1>2, <1>3, <1>4, PagedFacts, BrokenPage DEF PageThrows
  <2>3. TypeOK' /\ ChunkInv'
    BY <1>1, <1>2, <1>3, <2>1, TypeStep, EmptySeq DEF TypeOK, ChunkInv, Points, lateralVars
  <2>4. FailsOnlyForCause'
    BY <1>1, <1>2, <2>1, <2>2, CauseStep
  <2> QED
    BY <1>1, <2>1, <2>3, <2>4, PagedFacts, CursorFrame DEF IInv, lateralVars, inputVars
<1>5. ASSUME ~PageThrows(cur + 1) PROVE IInv'
  <2>1. pc' = "scan" /\ live'
    BY <1>1, <1>5
  <2>2. cur' = cur + 1 /\ rowIdx' = 0 /\ rows' \in Seq(Rows) /\ PagedInv'
    BY <1>1, <1>2, <1>3, <1>5, <2>1, PageLoaded DEF Points
  <2>3. TypeOK' /\ ChunkInv'
    BY <1>1, <1>2, <1>3, <2>1, <2>2, TypeStep DEF TypeOK, ChunkInv, Points, lateralVars
  <2>4. FailsOnlyForCause'
    BY <1>1, <1>2, <2>1, CauseStep
  <2> QED
    BY <1>1, <2>1, <2>2, <2>3, <2>4, PagedFacts, CursorFrame, Kinds DEF IInv, lateralVars, inputVars
<1> QED
  BY <1>4, <1>5

\* A chunk leaves, or the engine calls: what is held stays.
LEMMA PagedReturns ==
  ASSUME IInv, call.fn \in ByPage, LastPageDone \/ PagedReturn \/ EngineCall PROVE IInv'
<1>1. /\ UNCHANGED inputVars /\ UNCHANGED lateralVars /\ UNCHANGED <<item, rows, rowIdx, given>>
      /\ pc \in {"scan", "idle"}
      /\ pc = "idle" => pc' = "scan" /\ handed' = handed
      /\ pc = "scan" => pc' \in {"idle", "done"} /\ handed' = Len(given)
  BY DEF LastPageDone, PagedReturn, EngineCall, ReturnChunk, chunkVars, walkVars
<1>2. TypeOK /\ ChunkInv /\ PagedInv /\ doc.opens
  BY <1>1, PagedFacts DEF PagedInv
<1>3. ASSUME LastPageDone
      PROVE  live' = FALSE /\ taken' = TRUE /\ cur' \in Nat /\ HoldsAll(given) /\ Clean(LastPage0)
  <2>1. pc = "scan" /\ live /\ VectorDone /\ cur + 1 >= LastPage0 /\ cur' = cur + 1 /\ live' = FALSE /\ taken' = TRUE
    BY <1>3 DEF LastPageDone
  <2>2. HoldsAll(given)
    BY <2>1, PagedFacts, PageEmitted, PastLast
  <2>3. Clean(LastPage0)
    BY <1>2, <2>1, PagedFacts, CleanEnd DEF PagedInv
  <2> QED
    BY <2>1, <2>2, <2>3, PagedFacts
<1>4. ASSUME PagedReturn \/ EngineCall
      PROVE  UNCHANGED <<cur, live, taken>> /\ (~live => HoldsAll(given) /\ Clean(LastPage0)) /\ (pc' = "done" => ~live)
  <2>1. UNCHANGED <<cur, live, taken>>
    BY <1>4 DEF PagedReturn, EngineCall, walkVars
  <2>2. ~live => HoldsAll(given) /\ Clean(LastPage0)
    BY <1>1, <1>2 DEF PagedInv
  <2>3. ASSUME pc' = "done" PROVE ~live
    <3>1. PagedReturn /\ handed = Len(given)
      BY <1>4, <2>3 DEF PagedReturn, EngineCall, ReturnChunk
    <3>2. Room
      BY <3>1, PagedFacts DEF Room
    <3> QED
      BY <3>1, <3>2 DEF PagedReturn
  <2> QED
    BY <2>1, <2>2, <2>3
<1>5. live' \in BOOLEAN /\ taken' \in BOOLEAN /\ cur' \in Nat
  BY <1>2, <1>3, <1>4 DEF TypeOK
<1>6. ~live' => HoldsAll(given) /\ Clean(LastPage0)
  <2>1. CASE LastPageDone
    BY <1>3, <2>1
  <2>2. CASE PagedReturn \/ EngineCall
    <3>1. live' = live
      BY <1>4, <2>2
    <3> QED
      BY <1>4, <2>2, <3>1, Zenon
  <2> QED
    BY <2>1, <2>2
<1>7. pc' = "done" => ~live'
  BY <1>3, <1>4
<1>8. TypeOK' /\ ChunkInv'
  BY <1>1, <1>2, <1>5, TypeStep, PagedFacts DEF TypeOK, ChunkInv, Points, lateralVars
<1>9. FailsOnlyForCause'
  BY <1>1, <1>2, <1>6, <1>7, CauseStep, PagedFacts
<1>10. PagedInv'
  <2>1. ASSUME live' PROVE /\ (cur >= FirstPage0)' /\ rows' = (IF cur < LastPage0 THEN RowsOf(cur + 1) ELSE <<>>)'
                           /\ (rowIdx <= Len(rows))' /\ Holds(given, cur, rowIdx)' /\ Clean(cur + 1)'
    <3>1. live /\ cur' = cur
      BY <1>3, <1>4, <2>1
    <3>2. RowsOf(cur + 1)' = RowsOf(cur + 1)
      BY <1>1, <3>1, InputsStay DEF RowsOf
    <3> QED
      BY <1>1, <1>2, <3>1, <3>2, InputsStay DEF PagedInv, Holds, Clean
  <2>2. ~live' => HoldsAll(given)' /\ Clean(LastPage0)'
    BY <1>1, <1>6, InputsStay DEF HoldsAll, Clean
  <2>3. doc.opens' /\ pc' \in {"idle", "scan", "done"}
    BY <1>1, <1>2 DEF inputVars
  <2> QED
    BY <1>7, <2>1, <2>2, <2>3 DEF PagedInv
<1> QED
  BY <1>1, <1>8, <1>9, <1>10, PagedFacts, CursorFrame, Kinds DEF IInv, lateralVars, inputVars

LEMMA ByPageNext ==
  ASSUME IInv, call.fn \in ByPage, Next PROVE IInv'
BY ByPageActions, PagedOpens, PagedEmits, PagedMoves, PagedReturns DEF PagedScan

-----------------------------------------------------------------------------
(* Pages drawn one per call.                                               *)

LEMMA ImagesActions ==
  ASSUME call.fn = "pdf_page_images", Next
  PROVE  OpenForImages \/ DrawPage \/ CannotDraw \/ ReturnImage \/ EngineCall
BY DEF Next, Inspections, Materialised, PageCursors, Executed, PdfRedactLateralInOut, Engine,
       PdfInfoScan, PdfQpdfInfoScan, PdfOutlineScan, PdfStructureScan, PdfAttachmentsScan, PdfRevisionsScan,
       PdfPagesInfoScan, PdfFontsScan, PdfDestinationsScan, ReadPdfElementsInit, ReadPdfElementsScan,
       PdfChunksInit, PdfChunksScan, ReadPdfTablesInit, ReadPdfTablesScan, ReadPdfWordsInit, ReadPdfWordsScan,
       ReadPdfLinesInit, ReadPdfLinesScan, PdfPageImagesScan, PdfSplitScan, PdfSplitBlankScan, PdfOcrScan,
       PdfRedactScan, PdfWritePageImagesScan, PdfSignScan, PdfFormFieldsScan, PdfAnnotationsScan,
       PdfSignaturesScan, PdfImagesScan, Lateral, EngineInput, EngineFinished

LEMMA ImagesFacts ==
  ASSUME IInv, call.fn = "pdf_page_images", pc # "failed"
  PROVE  /\ TypeOK /\ ChunkInv /\ ImagesInv /\ FirstPage0 \in Nat /\ LastPage0 \in Nat /\ call.fn \in Cursored
         /\ call.fn \notin ByPage /\ call.fn \in Single
         /\ Len(given) \in Nat /\ handed \in Nat /\ cur \in Nat /\ given \in Seq(Rows) /\ base = 0 /\ size = 0
         /\ VectorSize \in Nat \ {0} /\ doc.opens \in BOOLEAN /\ live \in BOOLEAN /\ taken \in BOOLEAN
         /\ call.fn \notin Tolerant /\ \A e : Kept(e)
BY SizesPositive, LenProperties, RangeFacts, DocFacts
   DEF IInv, TypeOK, ByPage, Tolerant, Cursored, Kept, Single, Drawn

LEMMA ImagesOpens ==
  ASSUME IInv, call.fn = "pdf_page_images", OpenForImages PROVE IInv'
<1>1. /\ pc = "scan" /\ ~taken /\ taken' = doc.opens /\ live' = doc.opens /\ cur' = FirstPage0
      /\ pc' = IF doc.opens THEN pc ELSE "failed"
      /\ UNCHANGED inputVars /\ UNCHANGED lateralVars /\ UNCHANGED <<item, rows, rowIdx, given, handed>>
  BY DEF OpenForImages, chunkVars
<1>2. TypeOK /\ ChunkInv /\ given = <<>> /\ Clean(FirstPage0) /\ Holds(<<>>, FirstPage0, 0)
  BY <1>1, ImagesFacts, CleanStart, NothingYet DEF ImagesInv
<1>3. TypeOK' /\ ChunkInv'
  BY <1>1, <1>2, TypeStep, ImagesFacts DEF TypeOK, ChunkInv, Points, lateralVars
<1>4. FailsOnlyForCause'
  BY <1>1, <1>2, CauseStep, ImagesFacts DEF Skipped
<1>5. ASSUME doc.opens PROVE ImagesInv'
  <2>1. Holds(given, cur, 0)' /\ Clean(cur)'
    BY <1>1, <1>2, InputsStay DEF Holds, Clean
  <2> QED
    BY <1>1, <1>2, <1>5, <2>1, ImagesFacts, InputsStay DEF ImagesInv, inputVars
<1> QED
  BY <1>1, <1>3, <1>4, <1>5, ImagesFacts, CursorFrame DEF lateralVars, inputVars, ByPage

LEMMA ImagesDraws ==
  ASSUME IInv, call.fn = "pdf_page_images", DrawPage PROVE IInv'
<1>1. /\ pc = "scan" /\ Len(given) = handed /\ live /\ cur < LastPage0 /\ ~Throws(cur + 1)
      /\ given' = Append(given, <<cur + 1, 1>>) /\ cur' = cur + 1
      /\ UNCHANGED inputVars /\ UNCHANGED lateralVars /\ UNCHANGED <<pc, taken, live, item, rows, rowIdx, handed>>
  BY ImagesFacts DEF DrawPage, NoPageLeft
<1>2. TypeOK /\ ChunkInv /\ doc.opens /\ taken /\ cur >= FirstPage0 /\ Holds(given, cur, 0) /\ Clean(cur)
  BY <1>1, ImagesFacts DEF ImagesInv
<1>3. cur + 1 \in 1..Len(Entries)
  BY <1>1, ImagesFacts, RangeFacts, DocFacts
<1>4. Entries[cur + 1].rows = 1
  BY <1>1, <1>3, ImagesFacts, DocFacts
<1>5. given' \in Seq(Rows) /\ Holds(given', cur, 1) /\ <<cur + 1, 1>> \in Rows
  <2>1. 0 < Entries[cur + 1].rows
    BY <1>4
  <2>2. /\ <<cur + 1, 0 + 1>> \in Rows
        /\ Append(given, <<cur + 1, 0 + 1>>) \in Seq(Rows)
        /\ Kept(cur + 1) => Holds(Append(given, <<cur + 1, 0 + 1>>), cur, 0 + 1)
    BY <1>1, <1>2, <2>1, ImagesFacts, AppendHolds
  <2>3. 0 + 1 = 1
    OBVIOUS
  <2> QED
    BY <1>1, <2>2, <2>3, ImagesFacts
<1>6. Holds(given', cur + 1, 0)
  BY <1>1, <1>4, <1>5, ImagesFacts, NextEntryHolds
<1>7. Clean(cur + 1)
  BY <1>1, <1>2, ImagesFacts, CleanNext
<1>8. Len(given') = Len(given) + 1
  BY <1>1, <1>5, ImagesFacts, AppendProperties
<1>9. TypeOK' /\ ChunkInv'
  BY <1>1, <1>2, <1>5, <1>8, TypeStep, ImagesFacts DEF TypeOK, ChunkInv, Points, lateralVars
<1>10. FailsOnlyForCause'
  BY <1>1, <1>2, CauseStep
<1>11. ImagesInv'
  <2>1. Holds(given, cur, 0)' /\ Clean(cur)'
    BY <1>1, <1>6, <1>7, InputsStay DEF Holds, Clean
  <2>2. (cur >= FirstPage0)'
    BY <1>1, <1>2, ImagesFacts, InputsStay
  <2> QED
    BY <1>1, <1>2, <2>1, <2>2, ImagesFacts DEF ImagesInv, inputVars
<1> QED
  BY <1>1, <1>9, <1>10, <1>11, ImagesFacts, CursorFrame DEF lateralVars, inputVars, ByPage

LEMMA ImagesThrows ==
  ASSUME IInv, call.fn = "pdf_page_images", CannotDraw PROVE IInv'
<1>1. /\ pc = "scan" /\ live /\ cur < LastPage0 /\ Throws(cur + 1) /\ pc' = "failed"
      /\ UNCHANGED inputVars /\ UNCHANGED lateralVars /\ UNCHANGED walkVars /\ UNCHANGED chunkVars
  BY ImagesFacts DEF CannotDraw, Throw, NoPageLeft
<1>2. TypeOK /\ ChunkInv /\ doc.opens /\ cur >= FirstPage0
  BY <1>1, ImagesFacts DEF ImagesInv
<1>3. \E b \in Broken : FirstPage0 < b /\ b <= LastPage0
  BY <1>1, <1>2, ImagesFacts, BrokenPage
<1>4. TypeOK' /\ ChunkInv'
  BY <1>1, <1>2, TypeStep DEF TypeOK, ChunkInv, Points, lateralVars, walkVars, chunkVars
<1>5. FailsOnlyForCause'
  BY <1>1, <1>2, <1>3, CauseStep
<1> QED
  BY <1>1, <1>4, <1>5, ImagesFacts, CursorFrame DEF lateralVars, inputVars

LEMMA ImagesReturns ==
  ASSUME IInv, call.fn = "pdf_page_images", ReturnImage \/ EngineCall PROVE IInv'
<1>1. /\ UNCHANGED inputVars /\ UNCHANGED lateralVars /\ UNCHANGED <<taken, live, cur, item, rows, rowIdx, given>>
      /\ pc \in {"scan", "idle"}
      /\ pc = "idle" => pc' = "scan" /\ handed' = handed
      /\ pc = "scan" => pc' \in {"idle", "done"} /\ handed' = Len(given)
  BY DEF ReturnImage, EngineCall, ReturnChunk, chunkVars, walkVars
<1>2. TypeOK /\ ChunkInv /\ ImagesInv
  BY <1>1, ImagesFacts
<1>3. ASSUME pc' = "done" PROVE taken /\ cur >= LastPage0
  <2>1. ReturnImage /\ handed = Len(given)
    BY <1>3 DEF ReturnImage, EngineCall, ReturnChunk
  <2>2. NoPageLeft /\ taken
    BY <1>1, <2>1, ImagesFacts DEF ReturnImage
  <2> QED
    BY <1>2, <2>2 DEF NoPageLeft, ImagesInv
<1>4. pc' = "done" => doc.opens /\ Clean(LastPage0)
  BY <1>1, <1>2, <1>3, ImagesFacts, CleanEnd DEF ImagesInv
<1>5. TypeOK' /\ ChunkInv'
  BY <1>1, <1>2, TypeStep, ImagesFacts DEF TypeOK, ChunkInv, Points, lateralVars
<1>6. FailsOnlyForCause'
  BY <1>1, <1>2, <1>4, CauseStep
<1>7. ImagesInv'
  <2>1. Holds(given, cur, 0)' /\ Clean(cur)'
    BY <1>1, <1>2, InputsStay DEF Holds, Clean, ImagesInv
  <2>2. (cur >= FirstPage0)' <=> cur >= FirstPage0
    BY <1>1, InputsStay
  <2>3. (cur >= LastPage0)' <=> cur >= LastPage0
    BY <1>1, InputsStay
  <2> QED
    BY <1>1, <1>2, <1>3, <2>1, <2>2, <2>3 DEF ImagesInv, inputVars
<1> QED
  BY <1>1, <1>5, <1>6, <1>7, ImagesFacts, CursorFrame DEF lateralVars, inputVars, ByPage

LEMMA ImagesNext ==
  ASSUME IInv, call.fn = "pdf_page_images", Next PROVE IInv'
BY ImagesActions, ImagesOpens, ImagesDraws, ImagesThrows, ImagesReturns

-----------------------------------------------------------------------------
(* The in-out function.                                                    *)

LEMMA LateralActions ==
  ASSUME call.fn = "pdf_redact_lateral", Next
  PROVE  PdfRedactLateralInOut \/ EngineInput \/ EngineFinished \/ (EngineCall /\ size > 0)
BY DEF Next, Inspections, Materialised, PageCursors, Executed, Engine, EngineCall, Lateral,
       PdfInfoScan, PdfQpdfInfoScan, PdfOutlineScan, PdfStructureScan, PdfAttachmentsScan, PdfRevisionsScan,
       PdfPagesInfoScan, PdfFontsScan, PdfDestinationsScan, ReadPdfElementsInit, ReadPdfElementsScan,
       PdfChunksInit, PdfChunksScan, ReadPdfTablesInit, ReadPdfTablesScan, ReadPdfWordsInit, ReadPdfWordsScan,
       ReadPdfLinesInit, ReadPdfLinesScan, PdfPageImagesScan, PdfSplitScan, PdfSplitBlankScan, PdfOcrScan,
       PdfRedactScan, PdfWritePageImagesScan, PdfSignScan, PdfFormFieldsScan, PdfAnnotationsScan,
       PdfSignaturesScan, PdfImagesScan

LEMMA LateralFacts ==
  ASSUME IInv, call.fn = "pdf_redact_lateral", pc # "failed"
  PROVE  /\ TypeOK /\ ChunkInv /\ LateralInv /\ FirstPage0 = 0 /\ LastPage0 = Len(Entries) /\ Len(Entries) \in Nat
         /\ call.fn \in Cursored /\ call.fn \notin ByPage
         /\ Len(given) \in Nat /\ Len(rows) \in Nat /\ handed \in Nat /\ cur \in Nat /\ base \in Nat /\ size \in Nat
         /\ rowIdx \in Nat /\ given \in Seq(Rows) /\ rows \in Seq(Rows) /\ VectorSize \in Nat \ {0}
         /\ live \in BOOLEAN /\ doc.opens /\ \A e : Kept(e)
<1>1. TypeOK /\ ChunkInv /\ LateralInv /\ call.fn \in Cursored /\ call.fn \notin ByPage /\ call.fn \notin Ranged
      /\ \A e : Kept(e)
  BY DEF IInv, Cursored, ByPage, Ranged, AtInit, Drawn, Kept
<1>2. Len(Entries) \in Nat
  BY <1>1, DocFacts, SizesPositive
<1> QED
  BY <1>1, <1>2, SizesPositive, LenProperties, RangeFacts DEF TypeOK, LateralInv

LEMMA LateralStep ==
  ASSUME IInv, call.fn = "pdf_redact_lateral", pc # "failed", UNCHANGED inputVars, UNCHANGED <<taken, item>>,
         pc' \in {"idle", "scan", "done"}, live' \in BOOLEAN, cur' \in Nat, rows' \in Seq(Rows), rowIdx' \in Nat,
         given' \in Seq(Rows), handed' \in Nat, base' \in Nat, size' \in Nat, ChunkInv',
         cur' <= size', base' + size' <= Len(Entries),
         live' => cur' < size' /\ rows' = RowsOf(base' + cur' + 1) /\ rowIdx' <= Len(rows'),
         ~live' => rowIdx' = 0,
         Holds(given', base' + cur', rowIdx'),
         IF live' THEN Clean(base' + cur' + 1) ELSE Clean(base' + cur'),
         pc' = "done" => base' = Len(Entries) /\ cur' = 0 /\ ~live'
  PROVE  IInv'
<1>1. TypeOK /\ doc.opens
  BY LateralFacts
<1>2. TypeOK'
  BY <1>1, TypeStep DEF TypeOK, Points
<1>3. pc' = "done" => Clean(LastPage0)
  BY LateralFacts
<1>4. FailsOnlyForCause'
  BY <1>1, <1>3, CauseStep
<1>5. Holds(given, Position, rowIdx)'
  BY InputsStay DEF Holds, Position
<1>6. Clean(IF live THEN Position + 1 ELSE Position)'
  BY InputsStay DEF Clean, Position
<1>7. live' => rows' = RowsOf(InputRow)'
  BY InputsStay DEF RowsOf, InputRow
<1>8. (base + size <= Len(Entries))' /\ doc.opens'
  BY <1>1, InputsStay DEF inputVars
<1>9. pc' = "done" => (base = Len(Entries))' /\ (cur = 0)'
  BY InputsStay
<1>10. LateralInv'
  BY <1>5, <1>6, <1>7, <1>8, <1>9 DEF LateralInv
<1> QED
  BY <1>2, <1>4, <1>10, LateralFacts, CursorFrame DEF inputVars

LEMMA LateralEmits ==
  ASSUME IInv, call.fn = "pdf_redact_lateral", live, EmitRow PROVE IInv'
<1>1. /\ pc = "scan" /\ rowIdx < Len(rows) /\ given' = Append(given, rows[rowIdx + 1]) /\ rowIdx' = rowIdx + 1
      /\ Len(given) - handed < VectorSize
      /\ UNCHANGED inputVars /\ UNCHANGED <<pc, taken, live, cur, item, rows, handed, base, size>>
  BY LateralFacts DEF EmitRow, Room, VectorDone, lateralVars
<1>2. /\ cur < size /\ base + size <= Len(Entries) /\ rows = RowsOf(base + cur + 1)
      /\ Holds(given, base + cur, rowIdx) /\ Clean(base + cur + 1)
  BY <1>1, LateralFacts DEF LateralInv, InputRow, Position
<1>3. base + cur \in Nat /\ base + cur + 1 \in 1..Len(Entries) /\ base + cur < Len(Entries)
  BY <1>1, <1>2, LateralFacts
<1>4. Entries[base + cur + 1].rows \in Nat /\ Len(rows) = Entries[base + cur + 1].rows
  BY <1>1, <1>2, <1>3, LateralFacts, RowsOfFacts
<1>5. rowIdx + 1 \in 1..Entries[base + cur + 1].rows
  <2>1. rowIdx \in Nat /\ rowIdx < Entries[base + cur + 1].rows
    BY <1>1, <1>4, LateralFacts
  <2> QED
    BY <1>4, <2>1
<1>6. rows[rowIdx + 1] = <<base + cur + 1, rowIdx + 1>>
  BY <1>1, <1>2, <1>3, <1>5, LateralFacts, RowsOfFacts
<1>7. /\ <<base + cur + 1, rowIdx + 1>> \in Rows
      /\ Append(given, <<base + cur + 1, rowIdx + 1>>) \in Seq(Rows)
      /\ Kept(base + cur + 1) => Holds(Append(given, <<base + cur + 1, rowIdx + 1>>), base + cur, rowIdx + 1)
  <2>1. TypeOK /\ given \in Seq(Rows) /\ rowIdx \in Nat /\ doc.opens /\ FirstPage0 <= base + cur
        /\ base + cur < LastPage0 /\ rowIdx < Entries[base + cur + 1].rows
    BY <1>1, <1>3, <1>4, <1>5, LateralFacts
  <2> QED
    BY <1>2, <1>3, <2>1, AppendHolds
<1>8. given' \in Seq(Rows) /\ Holds(given', base + cur, rowIdx + 1) /\ Len(given') = Len(given) + 1
  BY <1>1, <1>6, <1>7, LateralFacts, AppendProperties
<1>9. ChunkInv'
  BY <1>1, <1>8, LateralFacts DEF ChunkInv
<1> QED
  BY <1>1, <1>2, <1>5, <1>8, <1>9, LateralFacts, LateralStep

LEMMA LateralWalks ==
  ASSUME IInv, call.fn = "pdf_redact_lateral", SkipNullRow \/ RedactRow \/ RowDone PROVE IInv'
<1>1. pc = "scan" /\ pc' = "scan" /\ UNCHANGED inputVars /\ UNCHANGED <<taken, item, given, handed, base, size>>
  BY DEF SkipNullRow, RedactRow, RowDone, chunkVars, lateralVars
<1>2. /\ base + size <= Len(Entries) /\ cur <= size /\ Holds(given, base + cur, rowIdx)
      /\ live => cur < size /\ rows = RowsOf(base + cur + 1) /\ rowIdx <= Len(rows) /\ Clean(base + cur + 1)
      /\ ~live => rowIdx = 0 /\ Clean(base + cur)
  BY <1>1, LateralFacts DEF LateralInv, InputRow, Position
<1>3. cur < size
  BY <1>2 DEF SkipNullRow, RedactRow, RowDone
<1>4. base + cur \in Nat /\ base + cur + 1 \in 1..Len(Entries) /\ base + cur < LastPage0 /\ FirstPage0 <= base + cur
  BY <1>1, <1>2, <1>3, LateralFacts
<1>5. /\ Entries[base + cur + 1].rows \in Nat /\ RowsOf(base + cur + 1) \in Seq(Rows)
      /\ Len(RowsOf(base + cur + 1)) = Entries[base + cur + 1].rows
  BY <1>1, <1>4, LateralFacts, RowsOfFacts
<1>6. ChunkInv'
  BY <1>1, LateralFacts DEF ChunkInv
<1>7. ~live /\ ~Throws(base + cur + 1) => Clean(base + cur + 1)
  BY <1>1, <1>2, <1>4, LateralFacts, CleanNext
<1>8. base + cur + 1 = base + (cur + 1) /\ cur + 1 \in Nat /\ cur + 1 <= size
  BY <1>1, <1>3, LateralFacts
<1>9. given \in Seq(Rows) /\ handed \in Nat /\ base \in Nat /\ size \in Nat /\ <<>> \in Seq(Rows)
  BY <1>1, LateralFacts, EmptySeq
<1>10. ASSUME SkipNullRow PROVE IInv'
  <2>1. ~live /\ Entries[base + cur + 1].rows = 0 /\ ~Throws(base + cur + 1) /\ cur' = cur + 1 /\ UNCHANGED <<live, rows, rowIdx>>
    BY <1>10 DEF SkipNullRow, InputRow
  <2>2. Holds(given, base + cur + 1, 0)
    BY <1>1, <1>2, <1>4, <2>1, LateralFacts, NextEntryHolds
  <2> QED
    BY <1>1, <1>2, <1>6, <1>7, <1>8, <1>9, <2>1, <2>2, LateralFacts, LateralStep
<1>11. ASSUME RedactRow PROVE IInv'
  <2>1. /\ ~live /\ ~Throws(base + cur + 1) /\ rows' = RowsOf(base + cur + 1) /\ rowIdx' = 0 /\ live' = TRUE /\ cur' = cur
    BY <1>11 DEF RedactRow, InputRow
  <2> QED
    BY <1>1, <1>2, <1>3, <1>5, <1>6, <1>7, <1>9, <2>1, LateralFacts, LateralStep
<1>12. ASSUME RowDone PROVE IInv'
  <2>1. live /\ rowIdx >= Len(rows) /\ live' = FALSE /\ rows' = <<>> /\ rowIdx' = 0 /\ cur' = cur + 1
    BY <1>12 DEF RowDone, VectorDone
  <2>2. Entries[base + cur + 1].rows <= rowIdx
    BY <1>2, <1>5, <2>1
  <2>3. Holds(given, base + cur + 1, 0)
    BY <1>1, <1>2, <1>4, <2>2, LateralFacts, NextEntryHolds
  <2> QED
    BY <1>1, <1>2, <1>6, <1>8, <1>9, <2>1, <2>3, LateralFacts, LateralStep
<1> QED
  BY <1>10, <1>11, <1>12

LEMMA LateralThrows ==
  ASSUME IInv, call.fn = "pdf_redact_lateral", RowThrows PROVE IInv'
<1>1. /\ pc = "scan" /\ cur < size /\ Throws(base + cur + 1) /\ pc' = "failed"
      /\ UNCHANGED inputVars /\ UNCHANGED lateralVars /\ UNCHANGED walkVars /\ UNCHANGED chunkVars
  BY DEF RowThrows, Throw, InputRow
<1>2. TypeOK /\ ChunkInv /\ doc.opens /\ base + size <= Len(Entries)
  BY <1>1, LateralFacts DEF LateralInv
<1>3. base + cur \in Nat /\ FirstPage0 <= base + cur /\ base + cur < LastPage0
  BY <1>1, <1>2, LateralFacts
<1>4. \E b \in Broken : FirstPage0 < b /\ b <= LastPage0
  BY <1>1, <1>2, <1>3, BrokenPage
<1>5. TypeOK' /\ ChunkInv'
  BY <1>1, <1>2, TypeStep DEF TypeOK, ChunkInv, Points, lateralVars, walkVars, chunkVars
<1>6. FailsOnlyForCause'
  BY <1>1, <1>2, <1>4, CauseStep
<1> QED
  BY <1>1, <1>5, <1>6, LateralFacts, CursorFrame DEF inputVars

\* Steps between the function and the engine.
LEMMA LateralTurns ==
  ASSUME IInv, call.fn = "pdf_redact_lateral",
         HaveMoreOutput \/ NeedMoreInput \/ EngineInput \/ EngineFinished \/ (EngineCall /\ size > 0)
  PROVE  IInv'
<1>1. /\ pc \in {"scan", "idle"} /\ pc' \in {"scan", "idle", "done"} /\ UNCHANGED inputVars
      /\ UNCHANGED <<taken, live, item, rows, rowIdx, given>>
  BY DEF HaveMoreOutput, NeedMoreInput, EngineInput, EngineFinished, EngineCall, walkVars, chunkVars
<1>2. /\ base + size <= Len(Entries) /\ cur <= size /\ Holds(given, base + cur, rowIdx)
      /\ live => cur < size /\ rows = RowsOf(base + cur + 1) /\ rowIdx <= Len(rows) /\ Clean(base + cur + 1)
      /\ ~live => rowIdx = 0 /\ Clean(base + cur)
  BY <1>1, LateralFacts DEF LateralInv, InputRow, Position
<1>3. ASSUME HaveMoreOutput \/ EngineCall PROVE IInv'
  <2>1. UNCHANGED <<cur, base, size>> /\ pc' \in {"idle", "scan"}
        /\ (handed' = Len(given) \/ (handed' = handed /\ pc = "idle"))
    BY <1>3 DEF HaveMoreOutput, EngineCall, walkVars, chunkVars, lateralVars
  <2>2. handed' = Len(given)
    BY <1>1, <2>1, LateralFacts DEF ChunkInv
  <2>3. ChunkInv'
    BY <1>1, <2>2, LateralFacts DEF ChunkInv
  <2> QED
    BY <1>1, <1>2, <2>1, <2>2, <2>3, LateralFacts, LateralStep
<1>4. ASSUME NeedMoreInput PROVE IInv'
  <2>1. ~live /\ cur >= size /\ handed' = Len(given) /\ base' = base + size /\ size' = 0 /\ cur' = 0 /\ pc' = "idle"
    BY <1>4 DEF NeedMoreInput
  <2>2. base' + cur' = base + cur /\ base' \in Nat /\ base' + size' <= Len(Entries)
    BY <1>1, <1>2, <2>1, LateralFacts
  <2>3. ChunkInv'
    BY <1>1, <2>1, LateralFacts DEF ChunkInv
  <2> QED
    BY <1>1, <1>2, <2>1, <2>2, <2>3, LateralFacts, LateralStep
<1>5. ASSUME EngineInput PROVE IInv'
  <2>1. size = 0 /\ (\E n \in 1..(Len(Entries) - base) : size' = n) /\ UNCHANGED <<cur, base, handed>> /\ pc' = pc /\ pc = "idle"
    BY <1>5 DEF EngineInput, walkVars, chunkVars
  <2>2. size' \in Nat /\ base + size' <= Len(Entries) /\ cur <= size' /\ ~live
    BY <1>1, <1>2, <2>1, LateralFacts
  <2>3. ChunkInv'
    BY <1>1, <2>1, LateralFacts DEF ChunkInv
  <2> QED
    BY <1>1, <1>2, <2>1, <2>2, <2>3, LateralFacts, LateralStep
<1>6. ASSUME EngineFinished PROVE IInv'
  <2>1. size = 0 /\ base >= Len(Entries) /\ UNCHANGED <<cur, base, size, handed>> /\ pc' = "done" /\ pc = "idle"
    BY <1>6 DEF EngineFinished, walkVars, chunkVars, lateralVars
  <2>2. base = Len(Entries) /\ cur = 0 /\ ~live
    BY <1>1, <1>2, <2>1, LateralFacts
  <2>3. ChunkInv'
    BY <1>1, <2>1, LateralFacts DEF ChunkInv
  <2> QED
    BY <1>1, <1>2, <2>1, <2>2, <2>3, LateralFacts, LateralStep
<1> QED
  BY <1>3, <1>4, <1>5, <1>6

LEMMA LateralNext ==
  ASSUME IInv, call.fn = "pdf_redact_lateral", Next PROVE IInv'
BY LateralActions, LateralEmits, LateralWalks, LateralThrows, LateralTurns DEF PdfRedactLateralInOut

-----------------------------------------------------------------------------
(* The invariant.                                                          *)

LEMMA InitInv ==
  ASSUME Init PROVE IInv
<1>1. PICK fn \in Functions : call \in Calls(fn) /\ doc \in Documents(fn)
  BY DEF Init
<1>2. call.fn = fn
  BY <1>1 DEF Calls
<1>3. /\ pc = (IF call.fn \in ByPage \cup AtInit THEN "init" ELSE "idle") /\ taken = FALSE /\ live = FALSE /\ cur = 0
      /\ item = 0 /\ rows = <<>> /\ rowIdx = 0 /\ given = <<>> /\ handed = 0 /\ base = 0 /\ size = 0
  BY DEF Init
<1>4. <<>> \in Seq(Rows) /\ Len(<<>>) = 0
  BY EmptySeq
<1>5. TypeOK
  BY <1>1, <1>2, <1>3, <1>4 DEF TypeOK, Points
<1>6. ChunkInv
  BY <1>3, <1>4, SizesPositive DEF ChunkInv
<1>7. FailsOnlyForCause
  BY <1>3 DEF FailsOnlyForCause
<1>8. VectorInv
  BY <1>3, <1>4 DEF VectorInv
<1>9. FileInv \/ call.fn \notin FileFunctions
  BY <1>3 DEF FileInv, FileFunctions, ByPage, AtInit
<1>10. PagedInv \/ call.fn \notin ByPage
  BY <1>3 DEF PagedInv
<1>11. Holds(<<>>, 0, 0) /\ Clean(0) /\ Clean(0 + 0)
  <2>1. \A r \in Expected \cap Rows : r[1] > 0
    BY RowIsPair
  <2>2. Broken \subseteq Nat /\ \A b \in Broken : b > 0
    BY <1>5, DocFacts DEF Broken
  <2> QED
    BY <2>1, <2>2, HoldsNothing DEF Holds, Clean
<1>12. ASSUME call.fn = "pdf_page_images" PROVE ImagesInv
  BY <1>3, <1>11, <1>12 DEF ImagesInv, ByPage, AtInit
<1>13. ASSUME call.fn = "pdf_redact_lateral" PROVE LateralInv
  <2>1. doc.opens /\ Len(Entries) \in Nat
    BY <1>5, <1>13, DocFacts, SizesPositive
  <2> QED
    BY <1>3, <1>11, <1>13, <2>1 DEF LateralInv, Position, ByPage, AtInit
<1> QED
  BY <1>3, <1>5, <1>6, <1>7, <1>8, <1>9, <1>10, <1>12, <1>13 DEF IInv

LEMMA NextInv ==
  ASSUME IInv, [Next]_vars PROVE IInv'
<1>1. ASSUME UNCHANGED vars PROVE IInv'
  <2>1. UNCHANGED inputVars
    BY <1>1 DEF vars, inputVars
  <2> QED
    BY <1>1, <2>1, InputsStay
       DEF vars, IInv, TypeOK, ChunkInv, FailsOnlyForCause, VectorInv, FileInv, PagedInv, ImagesInv, LateralInv,
           Holds, HoldsAll, Clean, Position, InputRow, RowsOf, Wanted, Throws, Entries
<1>2. call.fn \in AllFunctions
  BY CallFacts DEF IInv
<1> QED
  BY <1>1, <1>2, Kinds, VectorNext, FileNext, ByPageNext, ImagesNext, LateralNext

\* In every reachable state each function stands where its cursors say, whatever
\* the sizes: the rows given are the rows of the answer up to the position.
THEOREM Invariance == Spec => []IInv
<1>1. Init => IInv
  BY InitInv
<1>2. IInv /\ [Next]_vars => IInv'
  BY NextInv
<1> QED
  BY <1>1, <1>2, PTL DEF Spec

\* Every function has values of the declared types: no cursor goes below zero and
\* no row outside the document is given.
THEOREM TypeCorrect == Spec => []TypeOK
<1>1. IInv => TypeOK
  BY DEF IInv
<1> QED
  BY <1>1, Invariance, PTL

\* A query fails only on a file it was not asked to skip or on a page it was asked
\* for, and does not end when there is one.
THEOREM CauseOfFailure == Spec => []FailsOnlyForCause
<1>1. IInv => FailsOnlyForCause
  BY DEF IInv
<1> QED
  BY <1>1, Invariance, PTL

-----------------------------------------------------------------------------
(* The stream.                                                             *)

\* The elementary steps, and which functions take those that write a row.
Emits == call.fn \in Vectored \/ (call.fn \in ByPage \cup {"pdf_redact_lateral"} /\ live)
Writes ==
  \/ EmitRow /\ Emits
  \/ FileRow /\ call.fn \in FileFunctions
  \/ DrawPage /\ call.fn = "pdf_page_images"
Returns == Break \/ LastPageDone \/ PagedReturn \/ ReturnImage
Turns == HaveMoreOutput \/ NeedMoreInput
Works ==
  \/ BeginFile /\ pc \in {"init", "scan"}
  \/ \E keeps \in BOOLEAN : PushRow(keeps)
  \/ NextEntry
  \/ EntryThrows
  \/ \E then \in {"scan", "idle"} : Collected(then)
  \/ OpenPaged \/ NextPage
  \/ OpenForImages \/ CannotDraw
  \/ SkipNullRow \/ RowThrows \/ RedactRow \/ RowDone
  \/ EngineInput \/ EngineCall

LEMMA Steps ==
  ASSUME call.fn \in AllFunctions, Next
  PROVE  Writes \/ Returns \/ Turns \/ Works \/ EngineFinished
<1>1. ASSUME NEW keeps \in BOOLEAN, CollectingScan(keeps), call.fn \in Vectored
      PROVE  Writes \/ Returns \/ Works
  BY <1>1 DEF CollectingScan, Collect, Writes, Emits, Returns, Works
<1>2. ASSUME InitCollect PROVE Works
  BY <1>2 DEF InitCollect, Collect, Works
<1>3. ASSUME VectorScan, call.fn \in Vectored PROVE Writes \/ Returns
  BY <1>3 DEF VectorScan, Writes, Emits, Returns
<1>4. ASSUME Inspections PROVE Writes \/ Returns \/ Works
  <2>1. ASSUME PdfInfoScan \/ PdfQpdfInfoScan PROVE Writes \/ Returns
    BY <2>1 DEF PdfInfoScan, PdfQpdfInfoScan, FileFunctions, Writes, Returns
  <2>2. ASSUME PdfStructureScan PROVE Writes \/ Returns \/ Works
    <3>1. InStructureRange(Entries[cur + 1].page) \in BOOLEAN /\ call.fn \in Vectored
      BY <2>2 DEF PdfStructureScan, InStructureRange, Vectored, FileFunctions, Cursored, ByPage, AllFunctions, OfDocument
    <3> QED
      BY <1>1, <2>2, <3>1 DEF PdfStructureScan
  <2>3. ASSUME PdfOutlineScan \/ PdfAttachmentsScan \/ PdfRevisionsScan \/ PdfPagesInfoScan \/ PdfFontsScan
                 \/ PdfDestinationsScan
        PROVE  CollectingScan(TRUE) /\ call.fn \in Vectored
    BY <2>3 DEF PdfOutlineScan, PdfAttachmentsScan, PdfRevisionsScan, PdfPagesInfoScan, PdfFontsScan,
                PdfDestinationsScan, Vectored, FileFunctions, Cursored, ByPage, AllFunctions, OfDocument, OncePerPage
  <2> QED
    BY <1>1, <1>4, <2>1, <2>2, <2>3 DEF Inspections
<1>5. ASSUME Materialised PROVE Writes \/ Returns \/ Works
  <2>1. (InitCollect \/ VectorScan) /\ call.fn \in Vectored
    BY <1>5 DEF Materialised, ReadPdfElementsInit, ReadPdfElementsScan, PdfChunksInit, PdfChunksScan,
                ReadPdfTablesInit, ReadPdfTablesScan, Vectored, FileFunctions, Cursored, ByPage, AllFunctions, AtInit
  <2> QED
    BY <1>2, <1>3, <2>1
<1>6. ASSUME PageCursors PROVE Writes \/ Returns \/ Works
  <2>1. (call.fn \in ByPage /\ (OpenPaged \/ PagedScan)) \/ PdfPageImagesScan
    BY <1>6 DEF PageCursors, ReadPdfWordsInit, ReadPdfWordsScan, ReadPdfLinesInit, ReadPdfLinesScan, ByPage
  <2> QED
    BY <2>1 DEF PagedScan, PdfPageImagesScan, Writes, Emits, Returns, Works
<1>7. ASSUME Executed PROVE Writes \/ Returns \/ Works
  <2>1. CollectingScan(TRUE) /\ call.fn \in Vectored
    BY <1>7 DEF Executed, PdfSplitScan, PdfSplitBlankScan, PdfOcrScan, PdfRedactScan, PdfWritePageImagesScan,
                PdfSignScan, PdfFormFieldsScan, PdfAnnotationsScan, PdfSignaturesScan, PdfImagesScan,
                Vectored, FileFunctions, Cursored, ByPage, AllFunctions, OncePerPage, Rewritten, Drawn, OfQpdf, OneRow
  <2> QED
    BY <1>1, <2>1
<1>8. ASSUME PdfRedactLateralInOut PROVE Writes \/ Turns \/ Works
  BY <1>8 DEF PdfRedactLateralInOut, Lateral, Writes, Emits, Turns, Works
<1>9. ASSUME Engine PROVE Works \/ EngineFinished
  BY <1>9 DEF Engine, Works
<1> QED
  BY <1>4, <1>5, <1>6, <1>7, <1>8, <1>9 DEF Next

LEMMA ProducedFacts ==
  ASSUME NEW r PROVE r \in Stream!Produced <=> IsIn(r, given)
BY DEF Stream!Produced, IsIn

\* The row behind the position is the next one of the stream.
LEMMA NextOfStream ==
  ASSUME TypeOK, NEW e \in Nat, NEW k \in Nat, Holds(given, e, k), <<e + 1, k + 1>> \in Expected
  PROVE  /\ <<e + 1, k + 1>> \in Expected \ Stream!Produced
         /\ \A other \in Expected \ Stream!Produced :
              other = <<e + 1, k + 1>> \/ Stream!Before(<<e + 1, k + 1>>, other)
<1>1. <<e + 1, k + 1>> \in Rows /\ Expected \subseteq Rows
  BY DEF Expected, Rows
<1>2. \A r \in Expected : r \in Stream!Produced <=> Behind(r, e, k)
  BY <1>1, ProducedFacts DEF Holds, HoldsOf
<1>3. ~Behind(<<e + 1, k + 1>>, e, k)
  BY DEF Behind
<1>4. ASSUME NEW other \in Expected \ Stream!Produced
      PROVE  other = <<e + 1, k + 1>> \/ Stream!Before(<<e + 1, k + 1>>, other)
  <2>1. ~Behind(other, e, k) /\ other \in Rows
    BY <1>1, <1>2
  <2> QED
    BY <2>1, RowIsPair DEF Behind, Stream!Before
<1> QED
  BY <1>2, <1>3, <1>4

LEMMA FillStep ==
  ASSUME pc \notin {"done", "failed"}, pc' = pc, UNCHANGED inputVars, handed' = handed, Len(given) - handed < VectorSize,
         NEW x \in Expected \ Stream!Produced, given' = Append(given, x),
         \A other \in Expected \ Stream!Produced : other = x \/ Stream!Before(x, other)
  PROVE  Stream!Fill
BY InputsStay DEF Stream!Fill

LEMMA WritesFill ==
  ASSUME IInv, Writes, UNCHANGED inputVars
  PROVE  Stream!Fill \/ Stream!Fail \/ UNCHANGED Stream!vars
<1>1. TypeOK /\ ChunkInv /\ Len(given) \in Nat /\ handed \in Nat /\ Len(rows) \in Nat /\ rowIdx \in Nat
      /\ cur \in Nat /\ base \in Nat /\ VectorSize \in Nat \ {0} /\ given \in Seq(Rows) /\ rows \in Seq(Rows)
  BY LenProperties, SizesPositive DEF IInv, TypeOK
<1>2. ASSUME EmitRow
      PROVE  /\ pc = "scan" /\ pc' = pc /\ handed' = handed /\ Len(given) - handed < VectorSize
             /\ rowIdx < Len(rows) /\ given' = Append(given, rows[rowIdx + 1])
  BY <1>1, <1>2 DEF EmitRow, Room, VectorDone
<1>3. ASSUME EmitRow, call.fn \in Vectored PROVE Stream!Fill
  <2> DEFINE x == rows[rowIdx + 1]
  <2>1. VectorInv /\ rowIdx + 1 \in 1..Len(rows)
    BY <1>1, <1>2, <1>3 DEF IInv
  <2>2. rowIdx = Len(given) /\ (\A i \in 1..rowIdx : given[i] = rows[i]) /\ HoldsAll(rows)
    <3>1. taken
      BY <2>1, EmptySeq DEF VectorInv
    <3> QED
      BY <1>2, <1>3, <2>1, <3>1 DEF VectorInv
  <2>3. \A i, j \in 1..Len(rows) : i < j => Before(rows[i], rows[j])
    BY <2>2 DEF HoldsAll, HoldsAllOf, Sorted
  <2>4. \A r \in Rows : r \in Expected <=> \E i \in 1..Len(rows) : rows[i] = r
    BY <2>2 DEF HoldsAll, HoldsAllOf, IsIn
  <2>5. x \in Rows /\ x \in Expected
    BY <1>1, <2>1, <2>4, ElementOfSeq
  <2>6. \A i \in 1..rowIdx : Before(rows[i], x)
    BY <1>1, <2>1, <2>3
  <2>7. x \notin Stream!Produced
    <3> SUFFICES ASSUME x \in Stream!Produced PROVE FALSE
      OBVIOUS
    <3>1. PICK i \in 1..Len(given) : given[i] = x
      BY ProducedFacts DEF IsIn
    <3>2. Before(x, x)
      BY <2>2, <2>6, <3>1
    <3> QED
      BY <2>5, <3>2, RowIsPair DEF Before
  <2>8. ASSUME NEW other \in Expected \ Stream!Produced PROVE other = x \/ Stream!Before(x, other)
    <3>1. other \in Rows
      BY AnswerFacts, <1>1
    <3>2. PICK j \in 1..Len(rows) : rows[j] = other
      BY <2>4, <3>1
    <3>3. j > rowIdx
      <4> SUFFICES ASSUME j <= rowIdx PROVE FALSE
        BY <1>1
      <4>1. j \in 1..Len(given) /\ given[j] = other
        BY <2>2, <3>2, <1>1
      <4> QED
        BY <4>1, ProducedFacts DEF IsIn
    <3>4. j = rowIdx + 1 \/ Before(x, other)
      BY <1>1, <2>1, <2>3, <3>2, <3>3
    <3> QED
      BY <3>2, <3>4 DEF Before, Stream!Before
  <2> HIDE DEF x
  <2>9. given' = Append(given, x)
    BY <1>2, <1>3 DEF x
  <2> QED
    BY <1>2, <1>3, <2>5, <2>7, <2>8, <2>9, FillStep
<1>4. ASSUME EmitRow, call.fn \in ByPage, live PROVE Stream!Fill
  <2>1. /\ doc.opens /\ FirstPage0 <= cur /\ rows = (IF cur < LastPage0 THEN RowsOf(cur + 1) ELSE <<>>)
        /\ Holds(given, cur, rowIdx)
    BY <1>2, <1>4, PagedFacts DEF PagedInv
  <2>2. cur < LastPage0 /\ rows = RowsOf(cur + 1)
    BY <1>2, <1>4, <2>1, PagedFacts, EmptySeq
  <2>3. cur + 1 \in 1..Len(Entries)
    BY <1>4, <2>2, PagedFacts, RangeFacts, DocFacts
  <2>4. rowIdx + 1 \in 1..Entries[cur + 1].rows
    <3>1. Entries[cur + 1].rows = Len(rows)
      BY <1>1, <2>2, <2>3, RowsOfFacts
    <3> QED
      BY <1>1, <1>2, <1>4, <3>1
  <2>5. rows[rowIdx + 1] = <<cur + 1, rowIdx + 1>> /\ rowIdx < Entries[cur + 1].rows
    BY <1>1, <2>2, <2>3, <2>4, RowsOfFacts
  <2>6. <<cur + 1, rowIdx + 1>> \in Expected
    BY <1>1, <1>4, <2>1, <2>2, <2>5, AppendHolds, PagedFacts
  <2> QED
    BY <1>1, <1>2, <1>4, <2>1, <2>5, <2>6, NextOfStream, FillStep
<1>5. ASSUME EmitRow, call.fn = "pdf_redact_lateral", live PROVE Stream!Fill
  <2>1. /\ cur < size /\ base + size <= Len(Entries) /\ rows = RowsOf(base + cur + 1) /\ size \in Nat
        /\ Holds(given, base + cur, rowIdx) /\ doc.opens /\ Len(Entries) \in Nat /\ LastPage0 = Len(Entries) /\ FirstPage0 = 0
    BY <1>2, <1>5, LateralFacts DEF LateralInv, InputRow, Position
  <2>2. base + cur \in Nat /\ base + cur + 1 \in 1..Len(Entries) /\ base + cur < LastPage0 /\ FirstPage0 <= base + cur
    BY <1>1, <2>1
  <2>3. rowIdx + 1 \in 1..Entries[base + cur + 1].rows
    <3>1. Entries[base + cur + 1].rows = Len(rows)
      BY <1>1, <2>1, <2>2, RowsOfFacts
    <3> QED
      BY <1>1, <1>2, <1>5, <3>1
  <2>4. rows[rowIdx + 1] = <<base + cur + 1, rowIdx + 1>> /\ rowIdx < Entries[base + cur + 1].rows
    BY <1>1, <2>1, <2>2, <2>3, RowsOfFacts
  <2>5. <<base + cur + 1, rowIdx + 1>> \in Expected
    BY <1>1, <1>2, <1>5, <2>1, <2>2, <2>4, AppendHolds, LateralFacts
  <2> QED
    BY <1>1, <1>2, <1>5, <2>1, <2>2, <2>4, <2>5, NextOfStream, FillStep
<1>6. ASSUME DrawPage, call.fn = "pdf_page_images" PROVE Stream!Fill
  <2>1. /\ pc = "scan" /\ pc' = pc /\ Len(given) = handed /\ handed' = handed /\ cur < LastPage0 /\ live
        /\ given' = Append(given, <<cur + 1, 1>>)
    BY <1>1, <1>6, ImagesFacts DEF DrawPage, NoPageLeft
  <2>2. Holds(given, cur, 0) /\ doc.opens /\ FirstPage0 <= cur /\ LastPage0 \in Nat
    BY <1>6, <2>1, ImagesFacts DEF ImagesInv
  <2>3. cur + 1 \in 1..Len(Entries)
    BY <1>1, <2>1, <2>2, RangeFacts, DocFacts
  <2>4. Entries[cur + 1].rows = 1
    BY <1>6, <2>1, <2>3, ImagesFacts, DocFacts
  <2>5. <<cur + 1, 0 + 1>> \in Expected
    <3>1. 0 < Entries[cur + 1].rows
      BY <2>4
    <3> QED
      BY <1>1, <1>6, <2>1, <2>2, <3>1, AppendHolds, ImagesFacts
  <2>6. given' = Append(given, <<cur + 1, 0 + 1>>) /\ Len(given) - handed < VectorSize
    BY <1>1, <2>1
  <2> QED
    BY <1>1, <2>1, <2>2, <2>5, <2>6, NextOfStream, FillStep
<1>7. ASSUME FileRow, call.fn \in FileFunctions PROVE Stream!Fill \/ Stream!Fail \/ UNCHANGED Stream!vars
  <2>1. /\ pc = "scan" /\ handed' = handed /\ given = <<>> /\ Len(given) - handed < VectorSize
        /\ doc.opens => pc' = pc /\ given' = Append(given, TheRow)
        /\ ~doc.opens => given' = given /\ pc' \in {"scan", "failed"}
    BY <1>1, <1>7 DEF FileRow, Room, FileInv, IInv
  <2>2. ASSUME doc.opens PROVE Stream!Fill
    <3>1. Len(Entries) = 1 /\ Entries[1].rows = 1 /\ FirstPage0 = 0 /\ LastPage0 = 1 /\ Kept(1)
      BY <1>1, <1>7, <2>2, DocFacts, RangeFacts
         DEF FileFunctions, OneRow, Single, Ranged, ByPage, AtInit, Drawn, Kept
    <3>2. TheRow \in Expected
      BY <1>1, <2>2, <3>1, AnswerFacts DEF TheRow
    <3>3. TheRow = <<0 + 1, 0 + 1>>
      BY DEF TheRow
    <3>4. Holds(given, 0, 0)
      BY <1>1, <2>1, <3>1, NothingYet
    <3>5. <<0 + 1, 0 + 1>> \in Expected /\ given' = Append(given, <<0 + 1, 0 + 1>>) /\ pc' = pc
      BY <2>1, <2>2, <3>2, <3>3
    <3> QED
      BY <1>1, <2>1, <3>4, <3>5, NextOfStream, FillStep
  <2>3. ASSUME ~doc.opens PROVE Stream!Fail \/ UNCHANGED Stream!vars
    BY <2>1, <2>3, InputsStay DEF Stream!Fail, Stream!vars
  <2> QED
    BY <2>2, <2>3, <1>1, DocFacts
<1> QED
  BY <1>3, <1>4, <1>5, <1>6, <1>7 DEF Writes, Emits

\* At the end of an answer the rows given are its rows.
LEMMA AtTheEnd == IInv /\ pc = "done" => Stream!Produced = Expected
<1> SUFFICES ASSUME IInv, pc = "done" PROVE Stream!Produced = Expected
  OBVIOUS
<1>1. TypeOK /\ given \in Seq(Rows) /\ Len(given) \in Nat /\ Len(rows) \in Nat /\ call.fn \in AllFunctions
  BY LenProperties, CallFacts DEF IInv, TypeOK
<1>2. ASSUME HoldsAll(given) PROVE Stream!Produced = Expected
  <2>1. Stream!Produced \subseteq Rows
    BY <1>1, ElementOfSeq DEF Stream!Produced
  <2>2. Expected \subseteq Rows
    BY <1>1, AnswerFacts
  <2>3. \A r \in Rows : r \in Stream!Produced <=> r \in Expected
    BY <1>2, ProducedFacts DEF HoldsAll, HoldsAllOf
  <2> QED
    BY <2>1, <2>2, <2>3
<1>3. CASE call.fn \in Vectored
  <2>1. HoldsAll(rows) /\ rowIdx = Len(rows) /\ rowIdx = Len(given) /\ \A i \in 1..rowIdx : given[i] = rows[i]
    BY <1>3 DEF IInv, VectorInv
  <2>2. Stream!Produced = {rows[i] : i \in 1..Len(rows)}
    BY <2>1 DEF Stream!Produced
  <2>3. \A r \in Rows : r \in Stream!Produced <=> r \in Expected
    BY <2>1, <2>2 DEF HoldsAll, HoldsAllOf, IsIn
  <2>4. Stream!Produced \subseteq Rows /\ Expected \subseteq Rows
    BY <1>1, ElementOfSeq, AnswerFacts DEF Stream!Produced
  <2> QED
    BY <2>3, <2>4
<1>4. CASE call.fn \in FileFunctions
  <2>1. given = IF doc.opens THEN <<TheRow>> ELSE <<>>
    BY <1>4 DEF IInv, FileInv
  <2>2. ASSUME ~doc.opens PROVE Stream!Produced = Expected
    BY <1>1, <2>1, <2>2, AnswerFacts, EmptySeq DEF Stream!Produced
  <2>3. ASSUME doc.opens PROVE Stream!Produced = Expected
    <3>1. Len(Entries) = 1 /\ Entries[1].rows = 1 /\ FirstPage0 = 0 /\ LastPage0 = 1 /\ Kept(1)
      BY <1>1, <1>4, <2>3, DocFacts, RangeFacts
         DEF FileFunctions, OneRow, Single, Ranged, ByPage, AtInit, Drawn, Kept
    <3>2. TheRow \in Expected
      BY <1>1, <2>3, <3>1, AnswerFacts DEF TheRow
    <3>3. ASSUME NEW r \in Expected PROVE r = TheRow
      <4>1. r \in Rows /\ 0 < r[1] /\ r[1] <= 1 /\ r[2] <= Entries[r[1]].rows
        BY <1>1, <3>1, AnswerFacts
      <4>2. r[1] = 1
        BY <4>1, RowIsPair
      <4>3. r[2] = 1
        BY <3>1, <4>1, <4>2, RowIsPair
      <4> QED
        BY <4>1, <4>2, <4>3, RowIsPair DEF TheRow
    <3>4. Stream!Produced = {TheRow}
      BY <2>1, <2>3 DEF Stream!Produced
    <3> QED
      BY <3>2, <3>3, <3>4
  <2> QED
    BY <1>1, <2>2, <2>3, DocFacts
<1>5. CASE call.fn \in ByPage
  BY <1>2, <1>5 DEF IInv, PagedInv
<1>6. CASE call.fn = "pdf_page_images"
  <2>1. Holds(given, cur, 0) /\ cur >= LastPage0 /\ cur \in Nat
    BY <1>6, ImagesFacts DEF ImagesInv
  <2> QED
    BY <1>1, <1>2, <1>6, <2>1, PastLast, ImagesFacts
<1>7. CASE call.fn = "pdf_redact_lateral"
  <2>1. /\ base = Len(Entries) /\ cur = 0 /\ base + size <= Len(Entries) /\ (live => cur < size) /\ (~live => rowIdx = 0)
        /\ Holds(given, base + cur, rowIdx) /\ LastPage0 = Len(Entries) /\ base \in Nat /\ size \in Nat
    BY <1>7, LateralFacts DEF LateralInv, Position
  <2>2. ~live /\ rowIdx = 0 /\ base + cur = base
    BY <2>1
  <2> QED
    BY <1>1, <1>2, <2>1, <2>2, PastLast
<1> QED
  BY <1>1, <1>3, <1>4, <1>5, <1>6, <1>7, Kinds

LEMMA AtTheEndNext == (IInv /\ pc = "done" => Stream!Produced = Expected)'
BY AtTheEnd, PTL

\* An empty chunk is the end of the answer, and every other one is handed over.
LEMMA ReturnsHand ==
  ASSUME IInv, IInv', pc \in {"idle", "scan"}, UNCHANGED inputVars, given' = given, handed' = Len(given),
         pc' \in {"idle", "done"}, pc' = "done" => handed = Len(given)
  PROVE  Stream!Hand \/ Stream!End
<1>1. ASSUME pc' = "idle" PROVE Stream!Hand
  BY <1>1, InputsStay DEF Stream!Hand
<1>2. ASSUME pc' = "done" PROVE Stream!End
  <2>1. Stream!Produced = Expected
    BY <1>2, AtTheEndNext, InputsStay DEF Stream!Produced
  <2> QED
    BY <1>2, <2>1, InputsStay DEF Stream!End
<1> QED
  BY <1>1, <1>2

\* Every step of every function is one of the stream, or none.
LEMMA StreamStep ==
  ASSUME IInv, IInv', [Next]_vars PROVE [Stream!Next]_Stream!vars
<1>1. ASSUME UNCHANGED vars PROVE UNCHANGED Stream!vars
  BY <1>1, InputsStay DEF vars, inputVars, Stream!vars
<1>2. ASSUME Writes PROVE [Stream!Next]_Stream!vars
  <2>1. UNCHANGED inputVars
    BY <1>2 DEF Writes, EmitRow, FileRow, DrawPage
  <2> QED
    BY <1>2, <2>1, WritesFill DEF Stream!Next
<1>3. ASSUME Returns PROVE Stream!Hand \/ Stream!End
  <2>1. pc = "scan" /\ ReturnChunk
    BY <1>3 DEF Returns, Break, LastPageDone, PagedReturn, ReturnImage
  <2> QED
    BY <2>1, ReturnsHand DEF ReturnChunk
<1>4. ASSUME Turns PROVE Stream!Hand
  <2>1. pc = "scan" /\ pc' = "idle" /\ handed' = Len(given) /\ given' = given /\ UNCHANGED inputVars
    BY <1>4 DEF Turns, HaveMoreOutput, NeedMoreInput
  <2> QED
    BY <2>1, InputsStay DEF Stream!Hand
<1>5. ASSUME EngineFinished PROVE Stream!Hand \/ Stream!End
  <2>1. pc = "idle" /\ pc' = "done" /\ UNCHANGED inputVars /\ given' = given /\ handed' = handed
    BY <1>5 DEF EngineFinished, chunkVars
  <2>2. handed = Len(given)
    BY <2>1 DEF IInv, ChunkInv
  <2> QED
    BY <2>1, <2>2, ReturnsHand
<1>6. ASSUME Works PROVE Stream!Fail \/ UNCHANGED Stream!vars
  <2>1. pc \in {"init", "idle", "scan", "collect"} /\ UNCHANGED inputVars /\ given' = given /\ handed' = handed
    BY <1>6 DEF Works, BeginFile, PushRow, NextEntry, EntryThrows, Throw, Collected, OpenPaged, NextPage,
                OpenForImages, CannotDraw, SkipNullRow, RowThrows, RedactRow, RowDone, EngineInput, EngineCall, chunkVars
  <2>2. pc' # "done"
    BY <1>6 DEF Works, BeginFile, PushRow, NextEntry, EntryThrows, Throw, Collected, OpenPaged, NextPage,
                OpenForImages, CannotDraw, SkipNullRow, RowThrows, RedactRow, RowDone, EngineInput, EngineCall
  <2> QED
    BY <2>1, <2>2, InputsStay DEF Stream!Fail, Stream!vars
<1>7. call.fn \in AllFunctions
  BY CallFacts DEF IInv
<1> QED
  BY <1>1, <1>2, <1>3, <1>4, <1>5, <1>6, <1>7, Steps DEF Stream!Next

\* Every function hands the rows of its answer to the engine, each once and in
\* order, in chunks it has room for, and gives the empty chunk that ends the answer
\* only when there are no more.
THEOREM Implements == Spec => KeepsStream
<1>1. Init => Stream!Init
  BY DEF Init, Stream!Init
<1>2. IInv /\ IInv' /\ [Next]_vars => [Stream!Next]_Stream!vars
  BY StreamStep
<1> QED
  BY <1>1, <1>2, Invariance, PTL DEF Spec, KeepsStream, Stream!Spec
=============================================================================
