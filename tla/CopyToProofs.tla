---------------------------- MODULE CopyToProofs ----------------------------
(***************************************************************************)
(* COPY writes the rows of a query in order, and what that rests on: what  *)
(* recursive functions and FlattenSeq return, for sequences of any length. *)
(***************************************************************************)
EXTENDS CopyTo, FiniteSetTheorems, SequenceTheorems, WellFoundedInduction, TLAPS

-----------------------------------------------------------------------------
(* Recursion, and FlattenSeq.                                            *)

\* Numbers, if there are any, have a least one.
LEMMA LeastOf ==
  ASSUME NEW S \in SUBSET Nat, S # {}
  PROVE  \E x \in S : \A y \in S : x <= y
<1>1. PICK x \in S : \A y \in S : <<y, x>> \notin OpToRel(<, Nat)
  BY WFMin, NatLessThanWellFounded
<1>2. \A y \in S : ~(y < x)
  BY <1>1 DEF OpToRel
<1> QED
  BY <1>2

\* What holds at the first of some numbers, and at each that follows one where it
\* holds, holds at all of them.
LEMMA Steps ==
  ASSUME NEW lo \in Nat, NEW m \in Nat, NEW T, lo <= m => lo \in T,
         \A n \in lo..(m - 1) : n \in T => n + 1 \in T
  PROVE  \A n \in lo..m : n \in T
<1> DEFINE bad == {n \in lo..m : n \notin T}
<1> SUFFICES ASSUME bad # {} PROVE FALSE
  OBVIOUS
<1>1. bad \in SUBSET Nat
  OBVIOUS
<1>2. PICK n \in bad : \A k \in bad : n <= k
  BY <1>1, LeastOf
<1>3. n \in lo..m /\ n \notin T
  OBVIOUS
<1>4. n # lo
  BY <1>3
<1>5. n - 1 \in lo..(m - 1) /\ n - 1 \notin bad /\ (n - 1) + 1 = n
  BY <1>2, <1>3, <1>4
<1>6. n - 1 \in T
  BY <1>3, <1>5
<1> QED
  BY <1>3, <1>5, <1>6

\* A function given by its first value and by a step from each value to the next one
\* exists: a recursive definition of this form has what it says.
Recurs(f, m, base, step) == f[0] = base /\ \A n \in 1..m : f[n] = step[<<f[n - 1], n>>]

\* There is such a function, and it is the one that is defined.
LEMMA Recursion ==
  ASSUME NEW X, NEW m \in Nat, NEW base \in X, NEW step \in [X \X (1..m) -> X]
  PROVE  \E f \in [0..m -> X] : Recurs(f, m, base, step)
<1> DEFINE Is(k, f) == f[0] = base /\ \A n \in 1..k : f[n] = step[<<f[n - 1], n>>]
           T == {k \in Nat : \E f \in [0..k -> X] : Is(k, f)}
<1>1. 0 \in T
  <2> DEFINE f == [n \in 0..0 |-> base]
  <2>1. f \in [0..0 -> X] /\ f[0] = base
    OBVIOUS
  <2>2. \A n \in 1..0 : FALSE
    OBVIOUS
  <2> QED
    BY <2>1, <2>2
<1>2. ASSUME NEW k \in 0..(m - 1), k \in T
      PROVE  k + 1 \in T
  <2>1. PICK g \in [0..k -> X] : Is(k, g)
    BY <1>2
  <2>2. k + 1 \in 1..m /\ g[k] \in X
    OBVIOUS
  <2>3. step[<<g[k], k + 1>>] \in X
    BY <2>2
  <2> DEFINE f == [n \in 0..(k + 1) |-> IF n = k + 1 THEN step[<<g[k], n>>] ELSE g[n]]
  <2>4. f \in [0..(k + 1) -> X]
    <3> SUFFICES ASSUME NEW n \in 0..(k + 1)
                 PROVE  (IF n = k + 1 THEN step[<<g[k], n>>] ELSE g[n]) \in X
      OBVIOUS
    <3>1. n # k + 1 => n \in 0..k
      OBVIOUS
    <3> QED
      BY <2>3, <3>1
  <2>5. \A n \in 0..(k + 1) : f[n] = IF n = k + 1 THEN step[<<g[k], n>>] ELSE g[n]
    OBVIOUS
  <2> HIDE DEF f
  <2>6. ASSUME NEW n \in 1..(k + 1)
        PROVE  f[n] = step[<<f[n - 1], n>>]
    <3>1. n - 1 \in 0..(k + 1) /\ n - 1 # k + 1 /\ n \in 0..(k + 1)
      OBVIOUS
    <3>2. f[n - 1] = g[n - 1]
      BY <2>5, <3>1
    <3>3. CASE n = k + 1
      <4>1. f[n] = step[<<g[k], n>>]
        BY <2>5, <3>1, <3>3
      <4>2. n - 1 = k
        BY <3>3
      <4> QED
        BY <3>2, <4>1, <4>2
    <3>4. CASE n # k + 1
      <4>1. f[n] = g[n]
        BY <2>5, <3>1, <3>4
      <4>2. n \in 1..k
        BY <3>4
      <4> QED
        BY <2>1, <3>2, <4>1, <4>2
    <3> QED
      BY <3>3, <3>4
  <2>7. f[0] = base
    <3>1. 0 \in 0..(k + 1) /\ 0 # k + 1
      OBVIOUS
    <3> QED
      BY <2>1, <2>5, <3>1
  <2>8. k + 1 \in Nat /\ Is(k + 1, f)
    BY <2>6, <2>7
  <2> QED
    BY <2>4, <2>8
<1>3. m \in T
  <2> HIDE DEF T
  <2>1. \A n \in 0..m : n \in T
    BY <1>1, <1>2, Steps
  <2> QED
    BY <2>1
<1> QED
  BY <1>3 DEF Recurs

-----------------------------------------------------------------------------
(* FlattenSeq.                                                             *)

\* The sequences before the last one flattened, and then the last.
LEMMA FlattenIs ==
  ASSUME NEW S, NEW ss \in Seq(Seq(S))
  PROVE  \E f \in [0..Len(ss) -> Seq(S)] :
           /\ FlattenSeq(ss) = f[Len(ss)]
           /\ f[0] = <<>>
           /\ \A i \in 1..Len(ss) : f[i] = f[i - 1] \o ss[i]
<1> DEFINE n == Len(ss)
           X == Seq(S)
           step == [x \in X \X (1..n) |-> x[1] \o ss[x[2]]]
           Eq(g) == g = [i \in 1..n |-> IF i = 1 THEN ss[i] ELSE g[i - 1] \o ss[i]]
           g == CHOOSE g : Eq(g)
<1>1. n \in Nat /\ ss \in [1..n -> X] /\ <<>> \in X
  OBVIOUS
<1>2. step \in [X \X (1..n) -> X]
  <2> SUFFICES ASSUME NEW x \in X \X (1..n) PROVE x[1] \o ss[x[2]] \in X
    OBVIOUS
  <2>1. x[1] \in X /\ x[2] \in 1..n
    OBVIOUS
  <2>2. ss[x[2]] \in X
    BY <1>1, <2>1
  <2> QED
    BY <2>1, <2>2
<1>3. PICK f \in [0..n -> X] : Recurs(f, n, <<>>, step)
  <2> HIDE DEF step, n, X
  <2> QED
    BY <1>1, <1>2, Recursion
<1>4. ASSUME NEW i \in 1..n PROVE f[i] = f[i - 1] \o ss[i]
  <2>1. i - 1 \in 0..n
    BY <1>1
  <2>2. f[i - 1] \in X
    BY <2>1
  <2> QED
    BY <1>3, <2>2 DEF Recurs
<1> HIDE DEF step
<1>5. FlattenSeq(ss) = f[n]
  <2>1. CASE n = 0
    <3>1. ss = <<>> /\ FlattenSeq(ss) = <<>>
      BY <2>1 DEF FlattenSeq
    <3> QED
      BY <1>3, <2>1, <3>1 DEF Recurs
  <2>2. CASE n # 0
    <3> DEFINE h == [i \in 1..n |-> f[i]]
    <3>1. \A i \in 1..n : h[i] = IF i = 1 THEN ss[i] ELSE h[i - 1] \o ss[i]
      <4> SUFFICES ASSUME NEW i \in 1..n PROVE h[i] = IF i = 1 THEN ss[i] ELSE h[i - 1] \o ss[i]
        OBVIOUS
      <4>1. h[i] = f[i - 1] \o ss[i]
        BY <1>4
      <4>2. CASE i = 1
        <5>1. f[i - 1] = <<>> /\ ss[i] \in Seq(S)
          BY <1>1, <1>3, <4>2 DEF Recurs
        <5>2. <<>> \o ss[i] = ss[i]
          BY <5>1
        <5> QED
          BY <4>1, <4>2, <5>1, <5>2
      <4>3. CASE i # 1
        <5>1. i - 1 \in 1..n
          BY <4>3
        <5>2. h[i - 1] = f[i - 1]
          BY <5>1
        <5> QED
          BY <4>1, <4>3, <5>2
      <4> QED
        BY <4>2, <4>3
    <3>2. h = [i \in 1..n |-> h[i]]
      OBVIOUS
    <3>3. Eq(h)
      <4> HIDE DEF h
      <4> QED
        BY <3>1, <3>2
    <3>4. Eq(g)
      BY <3>3
    <3>5. FlattenSeq(ss) = g[n]
      BY <2>2 DEF FlattenSeq
    <3> HIDE DEF g
    <3>6. \A i \in 1..n : g[i] = IF i = 1 THEN ss[i] ELSE g[i - 1] \o ss[i]
      BY <3>4
    <3> DEFINE T == {i \in 1..n : g[i] = h[i]}
    <3>7. \A i \in 1..n : i \in T
      <4>1. 1 \in T
        BY <1>1, <2>2, <3>1, <3>6
      <4>2. ASSUME NEW i \in 1..(n - 1), i \in T PROVE i + 1 \in T
        <5>1. i + 1 \in 1..n /\ (i + 1) - 1 = i /\ i + 1 # 1
          BY <1>1
        <5>2. g[i + 1] = g[i] \o ss[i + 1] /\ h[i + 1] = h[i] \o ss[i + 1]
          BY <3>1, <3>6, <5>1
        <5>3. g[i] = h[i]
          BY <4>2
        <5> QED
          BY <5>1, <5>2, <5>3
      <4> HIDE DEF T
      <4> QED
        BY <1>1, <4>1, <4>2, Steps
    <3>8. n \in 1..n /\ h[n] = f[n]
      BY <1>1, <2>2
    <3> QED
      BY <3>5, <3>7, <3>8
  <2> QED
    BY <2>1, <2>2
<1> QED
  BY <1>3, <1>4, <1>5 DEF Recurs

\* Any function that adds the sequences one at a time ends with FlattenSeq.
LEMMA FlattenFrom ==
  ASSUME NEW S, NEW ss \in Seq(Seq(S)), NEW g, g[0] = <<>>, \A i \in 1..Len(ss) : g[i] = g[i - 1] \o ss[i]
  PROVE  FlattenSeq(ss) = g[Len(ss)] /\ \A i \in 0..Len(ss) : g[i] \in Seq(S)
<1>1. PICK f \in [0..Len(ss) -> Seq(S)] :
        FlattenSeq(ss) = f[Len(ss)] /\ f[0] = <<>> /\ \A i \in 1..Len(ss) : f[i] = f[i - 1] \o ss[i]
  BY FlattenIs
<1> DEFINE n == Len(ss)
           T == {i \in 0..n : f[i] = g[i]}
<1>2. n \in Nat
  OBVIOUS
<1>3. 0 \in T
  BY <1>1, <1>2
<1>4. ASSUME NEW i \in 0..(n - 1), i \in T PROVE i + 1 \in T
  <2>1. i + 1 \in 1..n /\ i + 1 \in 0..n /\ (i + 1) - 1 = i
    BY <1>2
  <2>2. f[i + 1] = f[i] \o ss[i + 1] /\ g[i + 1] = g[i] \o ss[i + 1] /\ f[i] = g[i]
    BY <1>1, <1>4, <2>1
  <2> QED
    BY <2>1, <2>2
<1>5. \A i \in 0..n : i \in T
  <2> HIDE DEF T, n
  <2> QED
    BY <1>2, <1>3, <1>4, Steps
<1>6. n \in 0..n
  BY <1>2
<1> QED
  BY <1>1, <1>5, <1>6

\* What is flattened is of the elements of the sequences.
LEMMA FlattenTyped ==
  ASSUME NEW S, NEW ss \in Seq(Seq(S))
  PROVE  FlattenSeq(ss) \in Seq(S)
<1>1. PICK f \in [0..Len(ss) -> Seq(S)] : FlattenSeq(ss) = f[Len(ss)]
  BY FlattenIs
<1>2. Len(ss) \in 0..Len(ss)
  OBVIOUS
<1> QED
  BY <1>1, <1>2

\* One more sequence is flattened to what there was, and it.
LEMMA FlattenAppend ==
  ASSUME NEW S, NEW ss \in Seq(Seq(S)), NEW s \in Seq(S)
  PROVE  FlattenSeq(Append(ss, s)) = FlattenSeq(ss) \o s
<1> DEFINE n == Len(ss)
           tt == Append(ss, s)
           X == Seq(S)
<1>1. n \in Nat /\ tt \in Seq(X) /\ Len(tt) = n + 1 /\ (\A i \in 1..n : tt[i] = ss[i]) /\ tt[n + 1] = s
  <2> HIDE DEF X
  <2>1. ss \in Seq(X) /\ s \in X
    BY DEF X
  <2> QED
    BY <2>1
<1> HIDE DEF tt
<1>2. PICK f \in [0..Len(tt) -> X] :
        FlattenSeq(tt) = f[Len(tt)] /\ f[0] = <<>> /\ \A i \in 1..Len(tt) : f[i] = f[i - 1] \o tt[i]
  BY <1>1, FlattenIs
<1>3. ASSUME NEW i \in 1..n PROVE f[i] = f[i - 1] \o ss[i]
  <2>1. i \in 1..Len(tt) /\ tt[i] = ss[i]
    BY <1>1
  <2>2. f[i] = f[i - 1] \o tt[i]
    BY <1>2, <2>1
  <2> QED
    BY <2>1, <2>2
<1>4. FlattenSeq(ss) = f[n]
  BY <1>2, <1>3, FlattenFrom
<1>5. n + 1 \in 1..Len(tt) /\ (n + 1) - 1 = n
  BY <1>1
<1>6. f[n + 1] = f[n] \o s
  BY <1>1, <1>2, <1>5
<1> QED
  BY <1>1, <1>2, <1>4, <1>6 DEF tt

\* Three sequences are one whichever two are joined first.
LEMMA Associative ==
  ASSUME NEW S, NEW x \in Seq(S), NEW y \in Seq(S), NEW z \in Seq(S),
         NEW xy, xy = x \o y, NEW yz, yz = y \o z
  PROVE  xy \o z = x \o yz
  BY ConcatAssociative

\* Two sequences of sequences flattened together, or one after the other.
LEMMA FlattenConcat ==
  ASSUME NEW S, NEW ss \in Seq(Seq(S)), NEW tt \in Seq(Seq(S))
  PROVE  FlattenSeq(ss \o tt) = FlattenSeq(ss) \o FlattenSeq(tt)
<1> DEFINE n == Len(ss)
           m == Len(tt)
           X == Seq(S)
           uu == ss \o tt
<1>1. n \in Nat /\ m \in Nat /\ uu \in Seq(X) /\ Len(uu) = n + m
      /\ (\A i \in 1..n : uu[i] = ss[i]) /\ (\A k \in 1..m : uu[n + k] = tt[k])
  <2> HIDE DEF X
  <2>1. ss \in Seq(X) /\ tt \in Seq(X)
    BY DEF X
  <2>2. uu \in Seq(X) /\ Len(uu) = n + m
        /\ \A i \in 1..(n + m) : uu[i] = IF i <= n THEN ss[i] ELSE tt[i - n]
    BY <2>1, ConcatProperties
  <2>3. n \in Nat /\ m \in Nat
    BY <2>1
  <2> HIDE DEF uu, n, m
  <2>4. ASSUME NEW k \in 1..m PROVE uu[n + k] = tt[k]
    <3>1. n + k \in 1..(n + m) /\ ~(n + k <= n) /\ (n + k) - n = k
      BY <2>3
    <3> QED
      BY <2>2, <3>1
  <2>5. \A i \in 1..n : i \in 1..(n + m) /\ i <= n
    BY <2>3
  <2> QED
    BY <2>2, <2>3, <2>4, <2>5
<1> HIDE DEF uu
<1>2. PICK f \in [0..Len(uu) -> X] :
        FlattenSeq(uu) = f[Len(uu)] /\ f[0] = <<>> /\ \A i \in 1..Len(uu) : f[i] = f[i - 1] \o uu[i]
  <2>1. uu \in Seq(Seq(S))
    BY <1>1
  <2> HIDE DEF n, m
  <2> QED
    BY <2>1, FlattenIs
<1>3. PICK h \in [0..m -> X] :
        FlattenSeq(tt) = h[m] /\ h[0] = <<>> /\ \A i \in 1..m : h[i] = h[i - 1] \o tt[i]
  BY FlattenIs
<1>4. FlattenSeq(ss) = f[n]
  <2>1. ASSUME NEW i \in 1..n PROVE f[i] = f[i - 1] \o ss[i]
    <3>1. i \in 1..Len(uu) /\ uu[i] = ss[i]
      BY <1>1
    <3>2. f[i] = f[i - 1] \o uu[i]
      BY <1>2, <3>1
    <3> QED
      BY <3>1, <3>2
  <2> QED
    BY <1>2, <2>1, FlattenFrom
<1>5. \A i \in 0..Len(uu) : f[i] \in X
  BY <1>2
<1> DEFINE T == {k \in 0..m : f[n + k] = f[n] \o h[k]}
<1>6. 0 \in T
  <2>1. f[n] \in X /\ n + 0 = n
    BY <1>1, <1>5
  <2>2. f[n] \o <<>> = f[n]
    BY <2>1, ConcatEmptySeq
  <2> QED
    BY <1>1, <1>3, <2>1, <2>2
<1>7. ASSUME NEW k \in 0..(m - 1), k \in T PROVE k + 1 \in T
  <2>1. k + 1 \in 1..m /\ k + 1 \in 0..m /\ (k + 1) - 1 = k /\ k \in 0..m
    BY <1>1
  <2>2. n + (k + 1) \in 1..Len(uu) /\ (n + (k + 1)) - 1 = n + k /\ n \in 0..Len(uu)
    BY <1>1, <2>1
  <2>3. f[n + (k + 1)] = f[n + k] \o tt[k + 1] /\ h[k + 1] = h[k] \o tt[k + 1]
    BY <1>1, <1>2, <1>3, <2>1, <2>2
  <2>4. f[n] \in X /\ h[k] \in X /\ tt[k + 1] \in X
    <3>1. tt \in Seq(X)
      OBVIOUS
    <3> HIDE DEF X
    <3>2. tt[k + 1] \in X
      BY <2>1, <3>1
    <3> QED
      BY <1>3, <1>5, <2>1, <2>2, <3>2
  <2>6. f[n + k] = f[n] \o h[k]
    BY <1>7
  <2>7. f[n + (k + 1)] = f[n] \o h[k + 1]
    <3>1. f[n] \in Seq(S) /\ h[k] \in Seq(S) /\ tt[k + 1] \in Seq(S)
      BY <2>4
    <3>2. f[n + k] \o tt[k + 1] = f[n] \o h[k + 1]
      <4> DEFINE p == f[n]
                 q == h[k]
                 r == tt[k + 1]
                 pq == f[n + k]
                 qr == h[k + 1]
      <4>1. p \in Seq(S) /\ q \in Seq(S) /\ r \in Seq(S) /\ pq = p \o q /\ qr = q \o r
        BY <2>3, <2>6, <3>1
      <4> HIDE DEF n, m, X, T, p, q, r, pq, qr
      <4>2. pq \o r = p \o qr
        BY <4>1, Associative
      <4> QED
        BY <4>2 DEF p, q, r, pq, qr
    <3> QED
      BY <2>3, <3>2
  <2> QED
    BY <2>1, <2>7
<1>8. m \in T
  <2> HIDE DEF T, m
  <2>1. \A k \in 0..m : k \in T
    BY <1>1, <1>6, <1>7, Steps
  <2> QED
    BY <1>1, <2>1
<1> QED
  BY <1>1, <1>2, <1>3, <1>4, <1>8 DEF uu

\* Flattened from the inside or from the outside.
LEMMA FlattenFlatten ==
  ASSUME NEW S, NEW sss \in Seq(Seq(Seq(S)))
  PROVE  FlattenSeq(FlattenSeq(sss)) = FlattenSeq([i \in 1..Len(sss) |-> FlattenSeq(sss[i])])
<1> DEFINE n == Len(sss)
           X == Seq(S)
           Y == Seq(X)
           uu == [i \in 1..n |-> FlattenSeq(sss[i])]
<1>1. n \in Nat /\ sss \in Seq(Y) /\ \A i \in 1..n : sss[i] \in Y
  <2>1. sss \in Seq(Y)
    OBVIOUS
  <2> HIDE DEF Y
  <2> QED
    BY <2>1
<1>2. uu \in Seq(X) /\ Len(uu) = n /\ \A i \in 1..n : uu[i] = FlattenSeq(sss[i])
  <2>1. \A i \in 1..n : FlattenSeq(sss[i]) \in X
    BY <1>1, FlattenTyped
  <2> HIDE DEF X
  <2> QED
    BY <1>1, <2>1
<1> HIDE DEF uu, n
<1>3. PICK g \in [0..n -> Y] :
        FlattenSeq(sss) = g[n] /\ g[0] = <<>> /\ \A i \in 1..n : g[i] = g[i - 1] \o sss[i]
  BY FlattenIs DEF n
<1>4. PICK f \in [0..n -> X] :
        FlattenSeq(uu) = f[n] /\ f[0] = <<>> /\ \A i \in 1..n : f[i] = f[i - 1] \o uu[i]
  BY <1>2, FlattenIs
<1> DEFINE T == {i \in 0..n : FlattenSeq(g[i]) = f[i]}
<1>5. 0 \in T
  <2>1. FlattenSeq(<<>>) = <<>>
    BY DEF FlattenSeq
  <2> QED
    BY <1>1, <1>3, <1>4, <2>1
<1>6. ASSUME NEW i \in 0..(n - 1), i \in T PROVE i + 1 \in T
  <2>1. i + 1 \in 1..n /\ i + 1 \in 0..n /\ (i + 1) - 1 = i /\ i \in 0..n
    BY <1>1
  <2>2. g[i] \in Y /\ sss[i + 1] \in Y
    BY <1>1, <1>3, <2>1
  <2>3. FlattenSeq(g[i] \o sss[i + 1]) = FlattenSeq(g[i]) \o FlattenSeq(sss[i + 1])
    BY <2>2, FlattenConcat
  <2>4. g[i + 1] = g[i] \o sss[i + 1] /\ f[i + 1] = f[i] \o FlattenSeq(sss[i + 1])
    BY <1>2, <1>3, <1>4, <2>1
  <2>5. FlattenSeq(g[i]) = f[i]
    BY <1>6
  <2> QED
    BY <2>1, <2>3, <2>4, <2>5
<1>7. n \in T
  <2> HIDE DEF T
  <2>1. \A i \in 0..n : i \in T
    BY <1>1, <1>5, <1>6, Steps
  <2> QED
    BY <1>1, <2>1
<1> QED
  BY <1>3, <1>4, <1>7 DEF uu, n

\* Sequences none of which is empty are at least as many elements.
LEMMA FlattenLonger ==
  ASSUME NEW S, NEW ss \in Seq(Seq(S)), \A i \in 1..Len(ss) : Len(ss[i]) >= 1
  PROVE  Len(FlattenSeq(ss)) >= Len(ss)
<1> DEFINE n == Len(ss)
<1>1. n \in Nat /\ \A i \in 1..n : ss[i] \in Seq(S)
  OBVIOUS
<1>2. PICK f \in [0..n -> Seq(S)] :
        FlattenSeq(ss) = f[n] /\ f[0] = <<>> /\ \A i \in 1..n : f[i] = f[i - 1] \o ss[i]
  BY FlattenIs
<1> DEFINE T == {i \in 0..n : Len(f[i]) >= i}
<1>3. 0 \in T
  BY <1>1, <1>2
<1>4. ASSUME NEW i \in 0..(n - 1), i \in T PROVE i + 1 \in T
  <2>1. i + 1 \in 1..n /\ i + 1 \in 0..n /\ (i + 1) - 1 = i /\ i \in 0..n
    BY <1>1
  <2>2. f[i] \in Seq(S) /\ ss[i + 1] \in Seq(S) /\ Len(ss[i + 1]) >= 1 /\ Len(f[i]) >= i
    BY <1>1, <1>2, <1>4, <2>1
  <2>3. f[i + 1] = f[i] \o ss[i + 1]
    BY <1>2, <2>1
  <2>4. Len(f[i + 1]) = Len(f[i]) + Len(ss[i + 1])
    BY <2>2, <2>3, ConcatProperties
  <2> QED
    BY <2>1, <2>2, <2>4
<1>5. n \in T
  <2> HIDE DEF T, n
  <2>1. \A i \in 0..n : i \in T
    BY <1>1, <1>3, <1>4, Steps
  <2> QED
    BY <1>1, <2>1
<1> QED
  BY <1>2, <1>5

-----------------------------------------------------------------------------
(* What of a text is of some kind.                                       *)

\* What is picked is of the text.
LEMMA PickedTyped ==
  ASSUME NEW S, NEW text \in Seq(S), NEW kinds
  PROVE  Picked(text, kinds) \in Seq(S)
<1> DEFINE X == Seq(S)
           n == Len(text)
           ss == [i \in 1..n |-> IF text[i] \in kinds THEN <<text[i]>> ELSE <<>>]
<1>1. n \in Nat /\ DOMAIN text = 1..n
  OBVIOUS
<1>2. \A i \in 1..n : (IF text[i] \in kinds THEN <<text[i]>> ELSE <<>>) \in X
  OBVIOUS
<1>3. ss \in Seq(X)
  <2> HIDE DEF X, n
  <2> QED
    BY <1>1, <1>2
<1>4. FlattenSeq(ss) \in Seq(S)
  BY <1>3, FlattenTyped
<1> QED
  BY <1>1, <1>4 DEF Picked

\* One more word is picked, or not, after the others (Picked).
LEMMA PickedAppend ==
  ASSUME NEW S, NEW text \in Seq(S), NEW w \in S, NEW kinds
  PROVE  Picked(Append(text, w), kinds) = IF w \in kinds THEN Append(Picked(text, kinds), w) ELSE Picked(text, kinds)
<1> DEFINE X == Seq(S)
           n == Len(text)
           more == Append(text, w)
           of(v) == IF v \in kinds THEN <<v>> ELSE <<>>
           ss == [i \in DOMAIN text |-> IF text[i] \in kinds THEN <<text[i]>> ELSE <<>>]
           tt == [i \in DOMAIN more |-> IF more[i] \in kinds THEN <<more[i]>> ELSE <<>>]
<1>1. /\ n \in Nat /\ DOMAIN text = 1..n /\ DOMAIN more = 1..(n + 1)
      /\ (\A i \in 1..n : more[i] = text[i]) /\ more[n + 1] = w
      /\ \A i \in 1..n : text[i] \in S
  OBVIOUS
<1>2. \A v \in S : of(v) \in X
  OBVIOUS
<1> HIDE DEF more
<1>3. ss \in Seq(X) /\ Len(ss) = n /\ \A i \in 1..n : ss[i] = of(text[i])
  <2>1. \A i \in 1..n : of(text[i]) \in X
    BY <1>1, <1>2
  <2> HIDE DEF X, n
  <2> QED
    BY <1>1, <2>1
<1>4. tt = Append(ss, of(w))
  <2>1. Append(ss, of(w)) = [i \in 1..(n + 1) |-> IF i = n + 1 THEN of(w) ELSE ss[i]]
    <3>1. of(w) \in X
      BY <1>2
    <3>2. n \in Nat
      OBVIOUS
    <3> HIDE DEF X, n, ss, of
    <3> DEFINE longer == Append(ss, of(w))
    <3>3. longer \in Seq(X) /\ Len(longer) = n + 1
          /\ \A i \in 1..(n + 1) : longer[i] = IF i = n + 1 THEN of(w) ELSE ss[i]
      BY <1>3, <3>1, <3>2
    <3> HIDE DEF longer
    <3>4. longer = [i \in 1..(n + 1) |-> longer[i]]
      BY <3>2, <3>3
    <3> QED
      BY <3>3, <3>4 DEF longer
  <2>2. ASSUME NEW i \in 1..(n + 1) PROVE of(more[i]) = IF i = n + 1 THEN of(w) ELSE ss[i]
    <3>1. CASE i = n + 1
      BY <1>1, <3>1
    <3>2. CASE i # n + 1
      <4>1. i \in 1..n
        BY <1>1, <3>2
      <4>2. more[i] = text[i] /\ ss[i] = of(text[i])
        BY <1>1, <1>3, <4>1
      <4> HIDE DEF ss, n
      <4> QED
        BY <3>2, <4>2
    <3> QED
      BY <3>1, <3>2
  <2> HIDE DEF ss
  <2> QED
    BY <1>1, <2>1, <2>2
<1>5. FlattenSeq(tt) = FlattenSeq(ss) \o of(w)
  <2>1. of(w) \in Seq(S)
    BY <1>2
  <2> HIDE DEF ss, tt, of
  <2> QED
    BY <1>3, <1>4, <2>1, FlattenAppend
<1>6. Picked(text, kinds) = FlattenSeq(ss) /\ Picked(more, kinds) = FlattenSeq(tt)
  BY DEF Picked
<1>7. FlattenSeq(ss) \in Seq(S)
  BY <1>6, PickedTyped
<1> DEFINE p == FlattenSeq(ss)
<1>8. w \in kinds => p \o <<w>> = Append(p, w)
  <2> HIDE DEF p
  <2> QED
    BY <1>7
<1>9. w \notin kinds => p \o <<>> = p
  <2> HIDE DEF p
  <2> QED
    BY <1>7
<1> QED
  BY <1>5, <1>6, <1>8, <1>9 DEF more

\* Picked from two texts, one after the other.
LEMMA PickedConcat ==
  ASSUME NEW S, NEW text \in Seq(S), NEW more \in Seq(S), NEW kinds
  PROVE  Picked(text \o more, kinds) = Picked(text, kinds) \o Picked(more, kinds)
<1> DEFINE X == Seq(S)
           n == Len(text)
           m == Len(more)
           all == text \o more
           of(v) == IF v \in kinds THEN <<v>> ELSE <<>>
           ss == [i \in DOMAIN text |-> IF text[i] \in kinds THEN <<text[i]>> ELSE <<>>]
           tt == [i \in DOMAIN more |-> IF more[i] \in kinds THEN <<more[i]>> ELSE <<>>]
           uu == [i \in DOMAIN all |-> IF all[i] \in kinds THEN <<all[i]>> ELSE <<>>]
<1>1. /\ n \in Nat /\ DOMAIN text = 1..n /\ m \in Nat /\ DOMAIN more = 1..m
      /\ (\A i \in 1..n : text[i] \in S) /\ (\A i \in 1..m : more[i] \in S)
  OBVIOUS
<1>2. /\ DOMAIN all = 1..(n + m)
      /\ \A i \in 1..(n + m) : all[i] = IF i <= n THEN text[i] ELSE more[i - n]
  <2>1. /\ all \in Seq(S) /\ Len(all) = n + m
        /\ \A i \in 1..(n + m) : all[i] = IF i <= n THEN text[i] ELSE more[i - n]
    BY ConcatProperties
  <2> HIDE DEF all, n, m
  <2> QED
    BY <2>1
<1>3. \A v \in S : of(v) \in X
  OBVIOUS
<1>4. ss \in Seq(X) /\ Len(ss) = n /\ \A i \in 1..n : ss[i] = of(text[i])
  <2>1. \A i \in 1..n : of(text[i]) \in X
    BY <1>1, <1>3
  <2> HIDE DEF X, n
  <2> QED
    BY <1>1, <2>1
<1>5. tt \in Seq(X) /\ Len(tt) = m /\ \A i \in 1..m : tt[i] = of(more[i])
  <2>1. \A i \in 1..m : of(more[i]) \in X
    BY <1>1, <1>3
  <2> HIDE DEF X, m
  <2> QED
    BY <1>1, <2>1
<1> HIDE DEF all
<1>6. uu = ss \o tt
  <2>1. ss \o tt = [i \in 1..(n + m) |-> IF i <= n THEN ss[i] ELSE tt[i - n]]
    <3> HIDE DEF X, n, m, ss, tt
    <3> DEFINE joined == ss \o tt
    <3>1. joined \in Seq(X) /\ Len(joined) = n + m
          /\ \A i \in 1..(n + m) : joined[i] = IF i <= n THEN ss[i] ELSE tt[i - n]
      <4>1. ss \in Seq(X) /\ tt \in Seq(X) /\ Len(ss) = n /\ Len(tt) = m
        BY <1>4, <1>5
      <4> QED
        BY <4>1, ConcatProperties
    <3> HIDE DEF joined
    <3>2. joined = [i \in 1..(n + m) |-> joined[i]]
      BY <3>1
    <3> QED
      BY <3>1, <3>2 DEF joined
  <2>2. ASSUME NEW i \in 1..(n + m) PROVE of(all[i]) = IF i <= n THEN ss[i] ELSE tt[i - n]
    <3>1. CASE i <= n
      <4>1. i \in 1..n
        BY <1>1, <3>1
      <4>2. all[i] = text[i] /\ ss[i] = of(text[i])
        BY <1>2, <1>4, <3>1, <4>1
      <4> HIDE DEF ss, n, m
      <4> QED
        BY <3>1, <4>2
    <3>2. CASE ~(i <= n)
      <4>1. i - n \in 1..m
        BY <1>1, <3>2
      <4>2. all[i] = more[i - n] /\ tt[i - n] = of(more[i - n])
        BY <1>2, <1>5, <3>2, <4>1
      <4> HIDE DEF tt, n, m
      <4> QED
        BY <3>2, <4>2
    <3> QED
      BY <3>1, <3>2
  <2> HIDE DEF ss, tt, n, m
  <2> QED
    BY <1>2, <2>1, <2>2
<1>7. FlattenSeq(uu) = FlattenSeq(ss) \o FlattenSeq(tt)
  <2> HIDE DEF ss, tt, uu
  <2> QED
    BY <1>4, <1>5, <1>6, FlattenConcat
<1>8. Picked(text, kinds) = FlattenSeq(ss) /\ Picked(more, kinds) = FlattenSeq(tt) /\ Picked(all, kinds) = FlattenSeq(uu)
  BY DEF Picked
<1> QED
  BY <1>7, <1>8 DEF all

\* Picked from each text, or from all of them together.
LEMMA PickedFlatten ==
  ASSUME NEW S, NEW ss \in Seq(Seq(S)), NEW kinds
  PROVE  Picked(FlattenSeq(ss), kinds) = FlattenSeq([i \in 1..Len(ss) |-> Picked(ss[i], kinds)])
<1> DEFINE X == Seq(S)
           n == Len(ss)
           tt == [i \in 1..n |-> Picked(ss[i], kinds)]
<1>1. n \in Nat /\ \A i \in 1..n : ss[i] \in Seq(S)
  OBVIOUS
<1>2. tt \in Seq(X) /\ Len(tt) = n /\ \A i \in 1..n : tt[i] = Picked(ss[i], kinds)
  <2>1. \A i \in 1..n : Picked(ss[i], kinds) \in X
    BY <1>1, PickedTyped
  <2> HIDE DEF X, n
  <2> QED
    BY <1>1, <2>1
<1>3. PICK f \in [0..n -> X] :
        FlattenSeq(ss) = f[n] /\ f[0] = <<>> /\ \A i \in 1..n : f[i] = f[i - 1] \o ss[i]
  BY FlattenIs
<1> HIDE DEF tt, n
<1>4. PICK g \in [0..n -> X] :
        FlattenSeq(tt) = g[n] /\ g[0] = <<>> /\ \A i \in 1..n : g[i] = g[i - 1] \o tt[i]
  BY <1>2, FlattenIs
<1> DEFINE T == {i \in 0..n : Picked(f[i], kinds) = g[i]}
<1>5. 0 \in T
  <2>1. Picked(<<>>, kinds) = <<>>
    BY DEF Picked, FlattenSeq
  <2> QED
    BY <1>1, <1>3, <1>4, <2>1
<1>6. ASSUME NEW i \in 0..(n - 1), i \in T PROVE i + 1 \in T
  <2>1. i + 1 \in 1..n /\ i + 1 \in 0..n /\ (i + 1) - 1 = i /\ i \in 0..n
    BY <1>1
  <2>2. f[i] \in Seq(S) /\ ss[i + 1] \in Seq(S)
    BY <1>1, <1>3, <2>1
  <2>3. Picked(f[i] \o ss[i + 1], kinds) = Picked(f[i], kinds) \o Picked(ss[i + 1], kinds)
    <3> DEFINE p == f[i]
               q == ss[i + 1]
    <3>1. p \in Seq(S) /\ q \in Seq(S)
      BY <2>2
    <3> HIDE DEF p, q
    <3>2. Picked(p \o q, kinds) = Picked(p, kinds) \o Picked(q, kinds)
      BY <3>1, PickedConcat
    <3> QED
      BY <3>2 DEF p, q
  <2>4. f[i + 1] = f[i] \o ss[i + 1] /\ g[i + 1] = g[i] \o Picked(ss[i + 1], kinds)
    BY <1>2, <1>3, <1>4, <2>1
  <2>5. Picked(f[i], kinds) = g[i]
    BY <1>6
  <2> QED
    BY <2>1, <2>3, <2>4, <2>5
<1>7. n \in T
  <2> HIDE DEF T
  <2>1. \A i \in 0..n : i \in T
    BY <1>1, <1>5, <1>6, Steps
  <2> QED
    BY <1>1, <2>1
<1> QED
  BY <1>3, <1>4, <1>7 DEF tt, n

(* Pointwise no shorter, together no shorter.                              *)
LEMMA FlattenLengths ==
  ASSUME NEW S, NEW R, NEW ss \in Seq(Seq(S)), NEW tt \in Seq(Seq(R)), Len(ss) = Len(tt),
         \A i \in 1..Len(ss) : Len(ss[i]) >= Len(tt[i])
  PROVE  Len(FlattenSeq(ss)) >= Len(FlattenSeq(tt))
<1> DEFINE n == Len(ss)
<1>1. n \in Nat /\ \A i \in 1..n : ss[i] \in Seq(S) /\ tt[i] \in Seq(R)
  OBVIOUS
<1>2. PICK f \in [0..n -> Seq(S)] :
        FlattenSeq(ss) = f[n] /\ f[0] = <<>> /\ \A i \in 1..n : f[i] = f[i - 1] \o ss[i]
  BY FlattenIs
<1>3. PICK g \in [0..n -> Seq(R)] :
        FlattenSeq(tt) = g[n] /\ g[0] = <<>> /\ \A i \in 1..n : g[i] = g[i - 1] \o tt[i]
  <2>1. PICK g \in [0..Len(tt) -> Seq(R)] :
          FlattenSeq(tt) = g[Len(tt)] /\ g[0] = <<>> /\ \A i \in 1..Len(tt) : g[i] = g[i - 1] \o tt[i]
    BY FlattenIs
  <2>2. Len(tt) = n
    OBVIOUS
  <2> QED
    BY <2>1, <2>2
<1> DEFINE T == {i \in 0..n : Len(f[i]) >= Len(g[i])}
<1>4. 0 \in T
  BY <1>1, <1>2, <1>3
<1>5. ASSUME NEW i \in 0..(n - 1), i \in T PROVE i + 1 \in T
  <2>1. i + 1 \in 1..n /\ i + 1 \in 0..n /\ (i + 1) - 1 = i /\ i \in 0..n
    BY <1>1
  <2>2. f[i] \in Seq(S) /\ ss[i + 1] \in Seq(S) /\ Len(f[i]) >= Len(g[i])
    BY <1>1, <1>2, <1>5, <2>1
  <2>3. g[i] \in Seq(R) /\ tt[i + 1] \in Seq(R) /\ Len(ss[i + 1]) >= Len(tt[i + 1])
    BY <1>1, <1>3, <2>1
  <2>4. f[i + 1] = f[i] \o ss[i + 1] /\ g[i + 1] = g[i] \o tt[i + 1]
    BY <1>2, <1>3, <2>1
  <2>5. Len(f[i + 1]) = Len(f[i]) + Len(ss[i + 1])
    BY <2>2, <2>4, ConcatProperties
  <2>6. Len(g[i + 1]) = Len(g[i]) + Len(tt[i + 1])
    BY <2>3, <2>4, ConcatProperties
  <2>7. Len(f[i]) \in Nat /\ Len(g[i]) \in Nat /\ Len(ss[i + 1]) \in Nat /\ Len(tt[i + 1]) \in Nat
    BY <2>2, <2>3
  <2> QED
    BY <2>1, <2>2, <2>3, <2>5, <2>6, <2>7
<1>6. n \in T
  <2> HIDE DEF T, n
  <2>1. \A i \in 0..n : i \in T
    BY <1>1, <1>4, <1>5, Steps
  <2> QED
    BY <1>1, <2>1
<1> QED
  BY <1>2, <1>3, <1>6

-----------------------------------------------------------------------------
(* The words of lines: Width, Lines, WrapLine.                           *)

Words == Nat \ {LineFeed}

\* The width of a line is a number (Width).
LEMMA WidthIs ==
  ASSUME NEW words \in Seq(Nat)
  PROVE  Width(words) \in Int
<1> DEFINE n == Len(words)
           step == [x \in Int \X (1..n) |-> x[1] + words[x[2]]]
           Eq(sum) == sum = [i \in 0..n |-> IF i = 0 THEN 0 ELSE sum[i - 1] + words[i]]
           sum == CHOOSE sum : Eq(sum)
<1>1. n \in Nat /\ \A i \in 1..n : words[i] \in Nat
  OBVIOUS
<1>2. step \in [Int \X (1..n) -> Int]
  <2> SUFFICES ASSUME NEW x \in Int \X (1..n) PROVE x[1] + words[x[2]] \in Int
    OBVIOUS
  <2>1. x[1] \in Int /\ x[2] \in 1..n
    OBVIOUS
  <2>2. words[x[2]] \in Nat
    BY <1>1, <2>1
  <2> QED
    BY <2>1, <2>2
<1>3. PICK f \in [0..n -> Int] : Recurs(f, n, 0, step)
  <2>1. 0 \in Int
    OBVIOUS
  <2> HIDE DEF step, n
  <2> QED
    BY <1>1, <1>2, <2>1, Recursion
<1>4. ASSUME NEW i \in 0..n
      PROVE  f[i] = IF i = 0 THEN 0 ELSE f[i - 1] + words[i]
  <2>1. CASE i = 0
    BY <1>3, <2>1 DEF Recurs
  <2>2. CASE i # 0
    <3>1. i \in 1..n /\ i - 1 \in 0..n
      BY <1>1, <2>2
    <3>2. f[i - 1] \in Int
      BY <3>1
    <3>3. f[i] = step[<<f[i - 1], i>>]
      BY <1>3, <3>1 DEF Recurs
    <3>4. step[<<f[i - 1], i>>] = f[i - 1] + words[i]
      BY <3>1, <3>2
    <3> QED
      BY <2>2, <3>3, <3>4
  <2> QED
    BY <2>1, <2>2
<1>5. Eq(f)
  <2>1. f = [i \in 0..n |-> f[i]]
    OBVIOUS
  <2> HIDE DEF n
  <2> QED
    BY <1>4, <2>1
<1>6. Eq(sum)
  BY <1>5
<1>7. Width(words) = sum[n] + (IF words = <<>> THEN 0 ELSE Space * (n - 1))
  BY DEF Width
<1> HIDE DEF sum
<1>8. ASSUME NEW i \in 0..n
      PROVE  sum[i] = IF i = 0 THEN 0 ELSE sum[i - 1] + words[i]
  BY <1>6
<1> DEFINE T == {i \in 0..n : sum[i] \in Int}
<1>9. 0 \in T
  BY <1>1, <1>8
<1>10. ASSUME NEW i \in 0..(n - 1), i \in T PROVE i + 1 \in T
  <2>1. i + 1 \in 0..n /\ i + 1 \in 1..n /\ i + 1 # 0 /\ (i + 1) - 1 = i
    BY <1>1
  <2>2. sum[i + 1] = sum[i] + words[i + 1]
    BY <1>8, <2>1
  <2> QED
    BY <1>1, <1>10, <2>1, <2>2
<1>11. n \in T
  <2> HIDE DEF T, n
  <2>1. \A i \in 0..n : i \in T
    BY <1>1, <1>9, <1>10, Steps
  <2> QED
    BY <1>1, <2>1
<1>12. sum[n] \in Int
  BY <1>11
<1>13. (IF words = <<>> THEN 0 ELSE Space * (n - 1)) \in Int
  BY <1>1 DEF Space
<1> HIDE DEF n
<1> QED
  BY <1>7, <1>12, <1>13

LinesSoFar == [done : Seq(Seq(Nat)), cur : Seq(Nat)]
ReadOn(state, w) ==
  IF w = LineFeed THEN [done |-> Append(state.done, state.cur), cur |-> <<>>]
  ELSE [done |-> state.done, cur |-> Append(state.cur, w)]

\* done and cur are the lines of a text read so far: its words are all there.
ReadRight(done, cur, text) ==
  /\ FlattenSeq(done) \o cur = Picked(text, Words)
  /\ Len(done) = Len(Picked(text, {LineFeed}))

\* One more word read keeps what was read: its words, and a line for each line feed.
LEMMA ReadOnRight ==
  ASSUME NEW done \in Seq(Seq(Nat)), NEW cur \in Seq(Nat), NEW text \in Seq(Nat), NEW w \in Nat,
         ReadRight(done, cur, text)
  PROVE  IF w = LineFeed THEN ReadRight(Append(done, cur), <<>>, Append(text, w))
         ELSE ReadRight(done, Append(cur, w), Append(text, w))
<1> DEFINE p == FlattenSeq(done)
           whole == p \o cur
           feeds == Picked(text, {LineFeed})
<1>1. p \in Seq(Nat) /\ feeds \in Seq(Nat)
  BY FlattenTyped, PickedTyped
<1>2. /\ Picked(Append(text, w), Words) = IF w \in Words THEN Append(Picked(text, Words), w) ELSE Picked(text, Words)
      /\ Picked(Append(text, w), {LineFeed}) = IF w \in {LineFeed} THEN Append(feeds, w) ELSE feeds
  BY PickedAppend
<1>3. whole = Picked(text, Words) /\ Len(done) = Len(feeds)
  BY DEF ReadRight
<1>4. FlattenSeq(Append(done, cur)) = whole
  BY FlattenAppend
<1> HIDE DEF p, feeds
<1>5. whole \in Seq(Nat)
  BY <1>1
<1>6. p \o Append(cur, w) = Append(whole, w)
  BY <1>1
<1> HIDE DEF whole
<1>7. whole \o <<>> = whole
  BY <1>5
<1>8. Len(Append(done, cur)) = Len(done) + 1
  OBVIOUS
<1>9. Len(Append(feeds, w)) = Len(feeds) + 1
  BY <1>1
<1>10. CASE w = LineFeed
  <2>1. w \notin Words /\ w \in {LineFeed}
    BY <1>10 DEF Words
  <2> QED
    BY <1>2, <1>3, <1>4, <1>7, <1>8, <1>9, <1>10, <2>1 DEF ReadRight
<1>11. CASE w # LineFeed
  <2>1. w \in Words /\ w \notin {LineFeed}
    BY <1>11 DEF Words
  <2>2. FlattenSeq(done) \o Append(cur, w) = Append(whole, w)
    BY <1>6 DEF p
  <2> QED
    BY <1>2, <1>3, <1>11, <2>1, <2>2 DEF ReadRight
<1> QED
  BY <1>10, <1>11

\* The lines of a text hold its words, and each line feed ended one of them.
LEMMA LinesHoldText ==
  ASSUME NEW text \in Seq(Nat)
  PROVE  /\ Lines(text) \in Seq(Seq(Nat))
         /\ FlattenSeq(Lines(text)) = Picked(text, Words)
         /\ Len(Lines(text)) >= Len(Picked(text, {LineFeed}))
<1> DEFINE n == Len(text)
           X == LinesSoFar
           base == [done |-> <<>>, cur |-> <<>>]
           step == [x \in X \X (1..n) |-> ReadOn(x[1], text[x[2]])]
           Eq(read) == read = [i \in 0..n |->
                          IF i = 0 THEN [done |-> <<>>, cur |-> <<>>]
                          ELSE IF text[i] = LineFeed THEN [done |-> Append(read[i - 1].done, read[i - 1].cur), cur |-> <<>>]
                          ELSE [done |-> read[i - 1].done, cur |-> Append(read[i - 1].cur, text[i])]]
           read == CHOOSE read : Eq(read)
           Before(i) == SubSeq(text, 1, i)
<1>1. n \in Nat /\ (\A i \in 1..n : text[i] \in Nat) /\ base \in X
  BY DEF LinesSoFar
<1>2. ASSUME NEW s \in X, NEW w \in Nat PROVE ReadOn(s, w) \in X
  <2> DEFINE Z == Seq(Nat)
  <2>1. s.done \in Seq(Z) /\ s.cur \in Z /\ <<>> \in Z /\ Append(s.cur, w) \in Z
    BY DEF LinesSoFar
  <2> HIDE DEF Z
  <2>2. Append(s.done, s.cur) \in Seq(Z)
    BY <2>1
  <2> QED
    BY <2>1, <2>2 DEF ReadOn, LinesSoFar, Z
<1> HIDE DEF X
<1>3. step \in [X \X (1..n) -> X]
  <2> SUFFICES ASSUME NEW x \in X \X (1..n) PROVE ReadOn(x[1], text[x[2]]) \in X
    OBVIOUS
  <2>1. x[1] \in X /\ x[2] \in 1..n
    OBVIOUS
  <2> QED
    BY <1>1, <1>2, <2>1
<1>4. PICK f \in [0..n -> X] : Recurs(f, n, base, step)
  <2> HIDE DEF step, n, base
  <2> QED
    BY <1>1, <1>3, Recursion
<1>5. ASSUME NEW i \in 0..n
      PROVE  f[i] = IF i = 0 THEN base ELSE ReadOn(f[i - 1], text[i])
  <2>1. CASE i = 0
    BY <1>4, <2>1 DEF Recurs
  <2>2. CASE i # 0
    <3>1. i \in 1..n /\ i - 1 \in 0..n
      BY <1>1, <2>2
    <3>2. f[i - 1] \in X
      BY <3>1
    <3>3. f[i] = step[<<f[i - 1], i>>]
      BY <1>4, <3>1 DEF Recurs
    <3>4. step[<<f[i - 1], i>>] = ReadOn(f[i - 1], text[i])
      BY <3>1, <3>2
    <3> QED
      BY <2>2, <3>3, <3>4
  <2> QED
    BY <2>1, <2>2
<1>6. Eq(f)
  <2>1. f = [i \in 0..n |-> f[i]]
    OBVIOUS
  <2> HIDE DEF n
  <2> QED
    BY <1>5, <2>1 DEF ReadOn
<1>7. Eq(read)
  BY <1>6
<1>8. Lines(text) = IF read[n].cur = <<>> THEN read[n].done ELSE Append(read[n].done, read[n].cur)
  BY DEF Lines
<1> HIDE DEF read
<1>9. ASSUME NEW i \in 0..n
      PROVE  read[i] = IF i = 0 THEN base ELSE ReadOn(read[i - 1], text[i])
  BY <1>7 DEF ReadOn
<1>10. /\ Before(0) = <<>> /\ Before(n) = text
       /\ \A i \in 1..n : Before(i) = Append(Before(i - 1), text[i]) /\ Before(i - 1) \in Seq(Nat)
  <2>1. ASSUME NEW i \in 1..n PROVE Before(i) = Append(Before(i - 1), text[i]) /\ Before(i - 1) \in Seq(Nat)
    BY <1>1
  <2> QED
    BY <1>1, <2>1
<1> HIDE DEF Before, base
<1> DEFINE Holds(i) == read[i] \in X /\ ReadRight(read[i].done, read[i].cur, Before(i))
           T == {i \in 0..n : Holds(i)}
<1>11. 0 \in T
  <2>1. read[0] = base /\ 0 \in 0..n
    BY <1>1, <1>9
  <2>2. FlattenSeq(<<>>) = <<>> /\ Picked(<<>>, Words) = <<>> /\ Picked(<<>>, {LineFeed}) = <<>>
    BY DEF Picked, FlattenSeq
  <2>3. <<>> \o <<>> = <<>>
    OBVIOUS
  <2>4. ReadRight(<<>>, <<>>, <<>>)
    BY <2>2, <2>3 DEF ReadRight
  <2>5. base.done = <<>> /\ base.cur = <<>>
    BY DEF base
  <2> QED
    BY <1>1, <1>10, <2>1, <2>4, <2>5
<1>12. ASSUME NEW i \in 0..(n - 1), i \in T PROVE i + 1 \in T
  <2>1. i + 1 \in 1..n /\ i + 1 \in 0..n /\ i + 1 # 0 /\ (i + 1) - 1 = i
    BY <1>1
  <2>2. PICK s \in X : s = read[i] /\ ReadRight(s.done, s.cur, Before(i))
    BY <1>12
  <2>3. PICK w \in Nat : w = text[i + 1]
    BY <1>1, <2>1
  <2>4. read[i + 1] = ReadOn(s, w)
    BY <1>9, <2>1, <2>2, <2>3
  <2>5. PICK b \in Seq(Nat) : b = Before(i) /\ Before(i + 1) = Append(b, w)
    BY <1>10, <2>1, <2>3
  <2>6. PICK done \in Seq(Seq(Nat)), cur \in Seq(Nat) : done = s.done /\ cur = s.cur
    BY DEF X, LinesSoFar
  <2>7. IF w = LineFeed THEN ReadRight(Append(done, cur), <<>>, Append(b, w))
        ELSE ReadRight(done, Append(cur, w), Append(b, w))
    BY <2>2, <2>5, <2>6, ReadOnRight
  <2>8. read[i + 1] \in X
    BY <1>2, <2>4
  <2>9. CASE w = LineFeed
    <3>1. ReadRight(Append(done, cur), <<>>, Append(b, w))
      BY <2>7, <2>9
    <3>2. read[i + 1].done = Append(done, cur) /\ read[i + 1].cur = <<>>
      BY <2>4, <2>6, <2>9 DEF ReadOn
    <3> QED
      BY <2>1, <2>5, <2>8, <3>1, <3>2
  <2>10. CASE w # LineFeed
    <3>1. ReadRight(done, Append(cur, w), Append(b, w))
      BY <2>7, <2>10
    <3>2. read[i + 1].done = done /\ read[i + 1].cur = Append(cur, w)
      BY <2>4, <2>6, <2>10 DEF ReadOn
    <3> QED
      BY <2>1, <2>5, <2>8, <3>1, <3>2
  <2> QED
    BY <2>9, <2>10
<1>13. n \in T
  <2> HIDE DEF T, n
  <2>1. \A i \in 0..n : i \in T
    BY <1>1, <1>11, <1>12, Steps
  <2> QED
    BY <1>1, <2>1
<1>14. PICK s \in X : s = read[n] /\ FlattenSeq(s.done) \o s.cur = Picked(text, Words)
                      /\ Len(s.done) = Len(Picked(text, {LineFeed}))
  BY <1>10, <1>13 DEF ReadRight
<1>15. PICK done \in Seq(Seq(Nat)), cur \in Seq(Nat) : done = s.done /\ cur = s.cur
  BY DEF X, LinesSoFar
<1>16. FlattenSeq(done) \in Seq(Nat) /\ FlattenSeq(Append(done, cur)) = FlattenSeq(done) \o cur
  BY FlattenTyped, FlattenAppend
<1>17. Len(Append(done, cur)) = Len(done) + 1 /\ Len(done) \in Nat
  OBVIOUS
<1>18. Append(done, cur) \in Seq(Seq(Nat))
  <2> DEFINE Z == Seq(Nat)
  <2>1. done \in Seq(Z) /\ cur \in Z
    OBVIOUS
  <2> HIDE DEF Z
  <2>2. Append(done, cur) \in Seq(Z)
    BY <2>1
  <2> QED
    BY <2>2 DEF Z
<1>19. CASE cur = <<>>
  <2>1. Lines(text) = done
    BY <1>8, <1>14, <1>15, <1>19
  <2>2. FlattenSeq(done) \o cur = FlattenSeq(done)
    BY <1>16, <1>19
  <2> QED
    BY <1>14, <1>15, <1>17, <2>1, <2>2
<1>20. CASE cur # <<>>
  <2>1. Lines(text) = Append(done, cur)
    BY <1>8, <1>14, <1>15, <1>20
  <2>2. FlattenSeq(Lines(text)) = Picked(text, Words)
    BY <1>14, <1>15, <1>16, <2>1
  <2>3. Len(Lines(text)) >= Len(done)
    BY <1>17, <2>1
  <2> QED
    BY <1>14, <1>15, <1>18, <2>1, <2>2, <2>3
<1> QED
  BY <1>19, <1>20

\* A sequence of some elements is one of more elements.
LEMMA Wider ==
  ASSUME NEW A, NEW B, A \subseteq B, NEW s \in Seq(A)
  PROVE  s \in Seq(B)
  OBVIOUS

\* What a line may be: wider than the page only if it is one word.
Narrow(max_width) == {line \in Seq(Nat) : Len(line) > 1 => Width(line) <= max_width}
WrapRight(out, cur, text, max_width) ==
  /\ out \in Seq(Narrow(max_width))
  /\ cur \in Narrow(max_width)
  /\ FlattenSeq(out) \o cur = text

\* A word put on a line, or on the next one (PutWord), stays within the width.
LEMMA PutWordRight ==
  ASSUME NEW out, NEW cur, NEW text \in Seq(Nat), NEW word \in Nat, NEW max_width \in Int,
         WrapRight(out, cur, text, max_width)
  PROVE  LET put == PutWord(out, cur, word, max_width)
         IN WrapRight(put.out, put.cur, Append(text, word), max_width)
<1> DEFINE N == Narrow(max_width)
           Z == Seq(Nat)
           p == FlattenSeq(out)
<1>1. out \in Seq(N) /\ cur \in N /\ p \o cur = text /\ N \subseteq Z
  BY DEF WrapRight, Narrow
<1>2. cur \in Z /\ out \in Seq(Z)
  <2> HIDE DEF N, Z
  <2> QED
    BY <1>1, Wider
<1>3. p \in Z /\ FlattenSeq(Append(out, cur)) = p \o cur
  BY <1>2, FlattenTyped, FlattenAppend
<1> HIDE DEF p
<1>4. <<word>> \in N
  BY DEF Narrow
<1>5. p \o Append(cur, word) = Append(text, word)
  <2>1. cur \in Seq(Nat) /\ p \in Seq(Nat) /\ <<word>> \in Seq(Nat)
    BY <1>2, <1>3
  <2>2. Append(cur, word) = cur \o <<word>> /\ Append(text, word) = text \o <<word>>
    BY <2>1, AppendIsConcat
  <2>3. (p \o cur) \o <<word>> = p \o (cur \o <<word>>)
    BY <2>1, ConcatAssociative
  <2> HIDE DEF Z
  <2> QED
    BY <1>1, <2>2, <2>3
<1>6. Append(text, word) = text \o <<word>>
  OBVIOUS
<1>7. CASE Width(Append(cur, word)) > max_width /\ cur # <<>>
  <2>1. PutWord(out, cur, word, max_width) = [out |-> Append(out, cur), cur |-> <<word>>]
    BY <1>7 DEF PutWord
  <2>2. Append(out, cur) \in Seq(N)
    <3> HIDE DEF N
    <3> QED
      BY <1>1
  <2>3. FlattenSeq(Append(out, cur)) \o <<word>> = Append(text, word)
    BY <1>1, <1>3, <1>6
  <2>4. PICK put : put = PutWord(out, cur, word, max_width) /\ put.out = Append(out, cur) /\ put.cur = <<word>>
    BY <2>1
  <2>5. FlattenSeq(put.out) \o put.cur = Append(text, word)
    BY <2>3, <2>4
  <2>6. put.out \in Seq(N) /\ put.cur \in N
    <3> HIDE DEF N
    <3> QED
      BY <1>4, <2>2, <2>4
  <2>7. WrapRight(put.out, put.cur, Append(text, word), max_width)
    BY <2>5, <2>6 DEF WrapRight
  <2> HIDE DEF N
  <2> QED
    BY <2>4, <2>7
<1>8. CASE ~(Width(Append(cur, word)) > max_width /\ cur # <<>>)
  <2>1. PutWord(out, cur, word, max_width) = [out |-> out, cur |-> Append(cur, word)]
    BY <1>8 DEF PutWord
  <2>2. Append(cur, word) \in Seq(Nat) /\ Width(Append(cur, word)) \in Int
    <3> DEFINE longer == Append(cur, word)
    <3>1. longer \in Seq(Nat)
      BY <1>2
    <3> HIDE DEF longer
    <3>2. Width(longer) \in Int
      BY <3>1, WidthIs
    <3> QED
      BY <3>1, <3>2 DEF longer
  <2>3. cur = <<>> => Len(Append(cur, word)) = 1
    OBVIOUS
  <2>4. Append(cur, word) \in N
    BY <1>8, <2>2, <2>3 DEF Narrow
  <2>5. FlattenSeq(out) \o Append(cur, word) = Append(text, word)
    BY <1>5 DEF p
  <2>6. PICK put : put = PutWord(out, cur, word, max_width) /\ put.out = out /\ put.cur = Append(cur, word)
    BY <2>1
  <2>7. FlattenSeq(put.out) \o put.cur = Append(text, word)
    BY <2>5, <2>6
  <2> QED
    BY <1>1, <2>4, <2>6, <2>7 DEF WrapRight
<1> QED
  BY <1>7, <1>8

\* A line is wrapped into lines that hold its words, none too wide.
LEMMA WrapIs ==
  ASSUME NEW words \in Seq(Nat), NEW max_width \in Int
  PROVE  /\ WrapLine(words, max_width) \in Seq(Narrow(max_width))
         /\ WrapLine(words, max_width) \in Seq(Seq(Nat))
         /\ FlattenSeq(WrapLine(words, max_width)) = words
         /\ Len(WrapLine(words, max_width)) >= 1
<1> DEFINE n == Len(words)
           base == [out |-> <<>>, cur |-> <<>>]
           Eq(wrap) == wrap = [i \in 0..n |->
                          IF i = 0 THEN [out |-> <<>>, cur |-> <<>>]
                          ELSE PutWord(wrap[i - 1].out, wrap[i - 1].cur, words[i], max_width)]
           wrap == CHOOSE wrap : Eq(wrap)
           N == Narrow(max_width)
           X == [out : Seq(N), cur : N]
           step == [x \in X \X (1..n) |-> PutWord(x[1].out, x[1].cur, words[x[2]], max_width)]
           Before(i) == SubSeq(words, 1, i)
<1>1. n \in Nat /\ (\A i \in 1..n : words[i] \in Nat)
  OBVIOUS
<1>2. <<>> \in N /\ <<>> \in Seq(N)
  BY DEF Narrow
<1> HIDE DEF N
<1>3. base \in X
  BY <1>2
<1>4. ASSUME NEW s \in X, NEW w \in Nat
      PROVE  PutWord(s.out, s.cur, w, max_width) \in X
  <2> DEFINE text == FlattenSeq(s.out) \o s.cur
  <2>1. s.out \in Seq(N) /\ s.cur \in N
    OBVIOUS
  <2>2. N \subseteq Seq(Nat)
    BY DEF N, Narrow
  <2>3. s.cur \in Seq(Nat) /\ FlattenSeq(s.out) \in Seq(Nat)
    <3> DEFINE Z == Seq(Nat)
    <3> HIDE DEF Z
    <3>1. s.cur \in Z /\ s.out \in Seq(Z)
      BY <2>1, <2>2, Wider DEF Z
    <3> QED
      BY <3>1, FlattenTyped DEF Z
  <2>4. text \in Seq(Nat)
    BY <2>3
  <2> HIDE DEF X
  <2>5. WrapRight(s.out, s.cur, text, max_width)
    BY <2>1 DEF WrapRight, N
  <2> HIDE DEF text
  <2> DEFINE put == PutWord(s.out, s.cur, w, max_width)
  <2>6. WrapRight(put.out, put.cur, Append(text, w), max_width)
    BY <2>4, <2>5, PutWordRight
  <2>7. put = [out |-> put.out, cur |-> put.cur]
    BY DEF PutWord
  <2> HIDE DEF put
  <2> QED
    BY <2>6, <2>7 DEF WrapRight, X, N, put
<1> HIDE DEF X
<1>5. step \in [X \X (1..n) -> X]
  <2> SUFFICES ASSUME NEW x \in X \X (1..n) PROVE PutWord(x[1].out, x[1].cur, words[x[2]], max_width) \in X
    OBVIOUS
  <2>1. x[1] \in X /\ x[2] \in 1..n
    OBVIOUS
  <2> QED
    BY <1>1, <1>4, <2>1
<1>6. PICK f \in [0..n -> X] : Recurs(f, n, base, step)
  <2> HIDE DEF step, n, base
  <2> QED
    BY <1>1, <1>3, <1>5, Recursion
<1>7. ASSUME NEW i \in 0..n
      PROVE  f[i] = IF i = 0 THEN base ELSE PutWord(f[i - 1].out, f[i - 1].cur, words[i], max_width)
  <2>1. CASE i = 0
    BY <1>6, <2>1 DEF Recurs
  <2>2. CASE i # 0
    <3>1. i \in 1..n /\ i - 1 \in 0..n
      BY <1>1, <2>2
    <3>2. f[i - 1] \in X
      BY <3>1
    <3>3. f[i] = step[<<f[i - 1], i>>]
      BY <1>6, <3>1 DEF Recurs
    <3>4. step[<<f[i - 1], i>>] = PutWord(f[i - 1].out, f[i - 1].cur, words[i], max_width)
      BY <3>1, <3>2
    <3> QED
      BY <2>2, <3>3, <3>4
  <2> QED
    BY <2>1, <2>2
<1>8. Eq(f)
  <2>1. f = [i \in 0..n |-> f[i]]
    OBVIOUS
  <2> HIDE DEF n
  <2> QED
    BY <1>7, <2>1
<1>9. Eq(wrap)
  BY <1>8
<1>10. WrapLine(words, max_width) = Append(wrap[n].out, wrap[n].cur)
  BY DEF WrapLine
<1> HIDE DEF wrap
<1>11. ASSUME NEW i \in 0..n
       PROVE  wrap[i] = IF i = 0 THEN base ELSE PutWord(wrap[i - 1].out, wrap[i - 1].cur, words[i], max_width)
  BY <1>9
<1>12. /\ Before(0) = <<>> /\ Before(n) = words
       /\ \A i \in 1..n : Before(i) = Append(Before(i - 1), words[i]) /\ Before(i - 1) \in Seq(Nat)
  <2>1. ASSUME NEW i \in 1..n PROVE Before(i) = Append(Before(i - 1), words[i]) /\ Before(i - 1) \in Seq(Nat)
    BY <1>1
  <2> QED
    BY <1>1, <2>1
<1> HIDE DEF Before
<1> DEFINE T == {i \in 0..n : WrapRight(wrap[i].out, wrap[i].cur, Before(i), max_width)}
<1>13. 0 \in T
  <2>1. wrap[0] = base /\ 0 \in 0..n
    BY <1>1, <1>11
  <2>2. FlattenSeq(<<>>) = <<>>
    BY DEF FlattenSeq
  <2>3. <<>> \o <<>> = <<>>
    OBVIOUS
  <2>4. WrapRight(<<>>, <<>>, <<>>, max_width)
    BY <1>2, <2>2, <2>3 DEF WrapRight, N
  <2> QED
    BY <1>12, <2>1, <2>4
<1> HIDE DEF base
<1>14. ASSUME NEW i \in 0..(n - 1), i \in T PROVE i + 1 \in T
  <2>1. i + 1 \in 1..n /\ i + 1 \in 0..n /\ i + 1 # 0 /\ (i + 1) - 1 = i
    BY <1>1
  <2>2. PICK w \in Nat : w = words[i + 1]
    BY <1>1, <2>1
  <2>3. PICK b \in Seq(Nat) : b = Before(i) /\ Before(i + 1) = Append(b, w)
    BY <1>12, <2>1, <2>2
  <2> DEFINE put == PutWord(wrap[i].out, wrap[i].cur, w, max_width)
  <2>4. wrap[i + 1] = put
    BY <1>11, <2>1, <2>2
  <2>5. WrapRight(wrap[i].out, wrap[i].cur, b, max_width)
    BY <1>14, <2>3
  <2>6. WrapRight(put.out, put.cur, Append(b, w), max_width)
    BY <2>5, PutWordRight
  <2> HIDE DEF put
  <2> QED
    BY <2>1, <2>3, <2>4, <2>6
<1>15. n \in T
  <2> HIDE DEF T, n
  <2>1. \A i \in 0..n : i \in T
    BY <1>1, <1>13, <1>14, Steps
  <2> QED
    BY <1>1, <2>1
<1>16. WrapRight(wrap[n].out, wrap[n].cur, words, max_width)
  BY <1>12, <1>15
<1>17. PICK out, cur : out = wrap[n].out /\ cur = wrap[n].cur
  OBVIOUS
<1>18. out \in Seq(N) /\ cur \in N /\ FlattenSeq(out) \o cur = words
  BY <1>16, <1>17 DEF WrapRight, N
<1>19. Append(out, cur) \in Seq(N) /\ Len(Append(out, cur)) >= 1
  BY <1>18
<1>20. N \subseteq Seq(Nat)
  BY DEF N, Narrow
<1> DEFINE Z == Seq(Nat)
<1>21. out \in Seq(Z) /\ cur \in Z /\ Append(out, cur) \in Seq(Z)
  <2>1. N \subseteq Z
    BY <1>20
  <2> HIDE DEF Z
  <2> QED
    BY <1>18, <1>19, <2>1, Wider
<1>22. FlattenSeq(Append(out, cur)) = FlattenSeq(out) \o cur
  BY <1>21, FlattenAppend
<1> QED
  BY <1>10, <1>17, <1>18, <1>19, <1>21, <1>22 DEF N

-----------------------------------------------------------------------------
(* Pages.                                                                *)

\* What a quotient of integers is at most.
LEMMA Quotients ==
  ASSUME NEW a \in Int, NEW d \in Nat \ {0}, NEW q \in Int
  PROVE  a \div d \in Int /\ (a \div d <= q <=> a < (q + 1) * d)
<1>1. a \div d \in Int /\ d * (a \div d) <= a /\ a < d * (a \div d) + d
  OBVIOUS
<1> DEFINE v == a \div d
<1> HIDE DEF v
<1>2. v \in Int /\ d * v <= a /\ a < d * v + d
  BY <1>1 DEF v
<1>3. ASSUME v <= q PROVE a < (q + 1) * d
  <2>1. d * v <= d * q
    BY <1>2, <1>3
  <2> QED
    BY <1>2, <2>1
<1>4. ASSUME a < (q + 1) * d PROVE v <= q
  <2> SUFFICES ASSUME q + 1 <= v PROVE FALSE
    BY <1>2
  <2>1. d * (q + 1) <= d * v
    BY <1>2
  <2> QED
    BY <1>2, <1>4, <2>1
<1> QED
  BY <1>1, <1>3, <1>4 DEF v

Printable(o) ==
  /\ PdfCopyBind(o)
  /\ o.font_size \in Int /\ o.margin \in Int /\ o.header \in BOOLEAN /\ o.footer \in BOOLEAN

\* A page that can be written on has room for a line, and is full when the next line
\* would run into the margin.
LEMMA PageRoom ==
  ASSUME NEW o, Printable(o)
  PROVE  /\ Top(o) \in Int /\ LineHeight(o) \in Nat \ {0} /\ TextWidth(o) \in Int
         /\ Capacity(o) \in Nat /\ Capacity(o) >= 1
         /\ \A k \in Nat : 2 * (Top(o) - k * LineHeight(o)) < 2 * o.margin + LineHeight(o) <=> Capacity(o) <= k
<1> DEFINE h == LineHeight(o)
           top == Top(o)
           a == 2 * (top - o.margin) - h
<1>1. /\ o.font_size \in Int /\ 400 <= o.font_size /\ o.font_size <= 7200
      /\ o.margin \in Int /\ 0 <= o.margin /\ o.margin <= 21600
      /\ o.page_size \in {"letter", "a4", "legal"}
  <2>1. /\ o.font_size \in Int /\ 400 <= o.font_size /\ o.font_size <= 7200
        /\ o.margin \in Int /\ 0 <= o.margin /\ o.margin <= 21600
        /\ o.page_size \in DOMAIN PageHeight
    BY DEF Printable, PdfCopyBind
  <2>2. DOMAIN PageHeight = {"letter", "a4", "legal"}
    BY DEF PageHeight
  <2> QED
    BY <2>1, <2>2
<1>2. PageHeight[o.page_size] \in {79200, 84189, 100800} /\ PageWidth[o.page_size] \in {61200, 59528}
  <2>1. \A size \in {"letter", "a4", "legal"} :
          PageHeight[size] \in {79200, 84189, 100800} /\ PageWidth[size] \in {61200, 59528}
    BY DEF PageHeight, PageWidth
  <2> QED
    BY <1>1, <2>1
<1>3. /\ h = o.font_size + 400 /\ top = PageHeight[o.page_size] - o.margin
      /\ TextWidth(o) = PageWidth[o.page_size] - 2 * o.margin
  BY DEF LineHeight, Top, TextWidth
<1> HIDE DEF h, top
<1>4. h \in Int /\ 800 <= h /\ h <= 7600 /\ top \in Int /\ top >= 79200 - 21600 /\ TextWidth(o) \in Int /\ a \in Int /\ a >= 0
  <2>1. PICK height \in {79200, 84189, 100800}, width \in {61200, 59528}, size \in Int, margin \in Int :
          /\ 400 <= size /\ size <= 7200 /\ 0 <= margin /\ margin <= 21600
          /\ height = PageHeight[o.page_size] /\ width = PageWidth[o.page_size]
          /\ size = o.font_size /\ margin = o.margin
    BY <1>1, <1>2
  <2> QED
    BY <1>3, <2>1
<1>5. Capacity(o) = (a \div (2 * h)) + 1
  BY DEF Capacity, h, top
<1> HIDE DEF a
<1>6. 2 * h \in Nat \ {0} /\ h \in Nat \ {0}
  BY <1>4
<1>7. ASSUME NEW q \in Int PROVE a \div (2 * h) \in Int /\ (a \div (2 * h) <= q <=> a < (q + 1) * (2 * h))
  <2> DEFINE d == 2 * h
  <2>1. d \in Nat \ {0}
    BY <1>6
  <2> HIDE DEF d
  <2>2. a \div d \in Int /\ (a \div d <= q <=> a < (q + 1) * d)
    BY <1>4, <2>1, Quotients
  <2> QED
    BY <2>2 DEF d
<1>8. a \div (2 * h) \in Int /\ ~(a \div (2 * h) <= -1)
  <2>1. ~(a < (-1 + 1) * (2 * h))
    BY <1>4, <1>6
  <2> QED
    BY <1>7, <2>1
<1>9. ASSUME NEW k \in Nat
      PROVE  2 * (top - k * h) < 2 * o.margin + h <=> Capacity(o) <= k
  <2>1. a \div (2 * h) <= k - 1 <=> a < ((k - 1) + 1) * (2 * h)
    BY <1>7
  <2>2. ((k - 1) + 1) * (2 * h) = 2 * (k * h) /\ k * h \in Int
    BY <1>6
  <2>3. 2 * (top - k * h) < 2 * o.margin + h <=> 2 * (top - o.margin) - h < 2 * (k * h)
    <3> DEFINE kh == k * h
    <3> HIDE DEF kh
    <3>1. kh \in Int
      BY <2>2 DEF kh
    <3>2. 2 * (top - kh) < 2 * o.margin + h <=> 2 * (top - o.margin) - h < 2 * kh
      BY <1>1, <1>4, <3>1
    <3> QED
      BY <3>2 DEF kh
  <2>4. Capacity(o) <= k <=> a \div (2 * h) <= k - 1
    BY <1>5, <1>8
  <2>5. a = 2 * (top - o.margin) - h
    BY DEF a
  <2> QED
    BY <2>1, <2>2, <2>3, <2>4, <2>5
<1>10. Capacity(o) \in Nat /\ Capacity(o) >= 1
  BY <1>5, <1>8
<1> QED
  BY <1>4, <1>6, <1>9, <1>10 DEF h, top

PagesOf(L) == [header : BOOLEAN, lines : Seq(L), footer : Nat]
BodiesOf(drawn) == [k \in DOMAIN drawn |-> drawn[k].lines]

\* One more page has its lines after those of the pages before it.
LEMMA BodiesAppend ==
  ASSUME NEW L, NEW drawn \in Seq(PagesOf(L)), NEW page \in PagesOf(L)
  PROVE  /\ BodiesOf(drawn) \in Seq(Seq(L))
         /\ BodiesOf(Append(drawn, page)) = Append(BodiesOf(drawn), page.lines)
<1> DEFINE P == PagesOf(L)
           Z == Seq(L)
           n == Len(drawn)
           all == Append(drawn, page)
           bodies == BodiesOf(drawn)
<1>1. /\ n \in Nat /\ DOMAIN drawn = 1..n /\ (\A i \in 1..n : drawn[i] \in P)
      /\ all \in Seq(P) /\ DOMAIN all = 1..(n + 1) /\ all[n + 1] = page /\ \A i \in 1..n : all[i] = drawn[i]
  <2> HIDE DEF P
  <2> QED
    BY DEF P
<1>2. (\A i \in 1..n : drawn[i].lines \in Z) /\ page.lines \in Z
  BY <1>1 DEF PagesOf
<1>3. bodies \in Seq(Z) /\ Len(bodies) = n /\ \A i \in 1..n : bodies[i] = drawn[i].lines
  <2>1. bodies = [i \in 1..n |-> drawn[i].lines]
    BY <1>1 DEF BodiesOf
  <2> HIDE DEF Z, n, bodies
  <2> QED
    BY <1>1, <1>2, <2>1
<1>4. BodiesOf(all) = [i \in 1..(n + 1) |-> all[i].lines]
  BY <1>1 DEF BodiesOf
<1> DEFINE longer == Append(bodies, page.lines)
<1>5. longer \in Seq(Z) /\ Len(longer) = n + 1
      /\ \A i \in 1..(n + 1) : longer[i] = IF i = n + 1 THEN page.lines ELSE bodies[i]
  <2> HIDE DEF Z, n, bodies
  <2> QED
    BY <1>1, <1>2, <1>3
<1> HIDE DEF longer, all, n, bodies
<1>6. longer = [i \in 1..(n + 1) |-> longer[i]]
  BY <1>1, <1>5
<1>7. ASSUME NEW i \in 1..(n + 1) PROVE all[i].lines = longer[i]
  <2>1. CASE i = n + 1
    BY <1>1, <1>5, <2>1
  <2>2. CASE i # n + 1
    <3>1. i \in 1..n
      BY <1>1, <2>2
    <3> QED
      BY <1>1, <1>3, <1>5, <2>2, <3>1
  <2> QED
    BY <2>1, <2>2
<1>8. BodiesOf(all) = longer
  BY <1>4, <1>6, <1>7
<1> QED
  BY <1>3, <1>8 DEF longer, all, bodies

\* The pages left behind and the page at hand, after some lines.
DrawRight(L, o, done, lines, y, wrapped) ==
  /\ done \in Seq(PagesOf(L))
  /\ lines \in Seq(L)
  /\ Len(lines) <= Capacity(o)
  /\ y = Top(o) - Len(lines) * LineHeight(o)
  /\ \A k \in 1..Len(done) : /\ Len(done[k].lines) = Capacity(o)
                             /\ done[k].header = o.header
                             /\ done[k].footer = IF o.footer THEN k ELSE 0
  /\ FlattenSeq(BodiesOf(done)) \o lines = wrapped

\* Pages with one more behind those already left.
LeftRight(L, o, done, lines, left, wrapped) ==
  /\ left \in Seq(PagesOf(L)) /\ Len(left) = Len(done) + 1
  /\ FlattenSeq(BodiesOf(left)) = wrapped
  /\ \A k \in 1..Len(left) :
       /\ Len(left[k].lines) <= Capacity(o)
       /\ k < Len(left) \/ Len(lines) = Capacity(o) => Len(left[k].lines) = Capacity(o)
       /\ left[k].header = o.header
       /\ left[k].footer = IF o.footer THEN k ELSE 0

\* A page that is left when it is full is as a page should be (DrawnPage).
LEMMA PageLeft ==
  ASSUME NEW L, NEW o, Printable(o), NEW done, NEW lines, NEW y, NEW wrapped, DrawRight(L, o, done, lines, y, wrapped)
  PROVE  LeftRight(L, o, done, lines, Append(done, DrawnPage(o, done, lines)), wrapped)
<1> DEFINE P == PagesOf(L)
           page == DrawnPage(o, done, lines)
           n == Len(done)
           left == Append(done, page)
<1>1. done \in Seq(P) /\ lines \in Seq(L) /\ Len(lines) <= Capacity(o) /\ n \in Nat
      /\ FlattenSeq(BodiesOf(done)) \o lines = wrapped
  BY DEF DrawRight
<1>2. page = [header |-> o.header, lines |-> lines, footer |-> IF o.footer THEN n + 1 ELSE 0]
  BY DEF DrawnPage
<1>3. page \in P /\ page.lines = lines
  BY <1>1, <1>2 DEF PagesOf, Printable
<1>4. left \in Seq(P) /\ Len(left) = n + 1 /\ left[n + 1] = page /\ \A k \in 1..n : left[k] = done[k]
  <2> HIDE DEF P, page
  <2> QED
    BY <1>1, <1>3
<1>5. BodiesOf(left) = Append(BodiesOf(done), lines) /\ BodiesOf(done) \in Seq(Seq(L))
  <2> HIDE DEF page
  <2> QED
    BY <1>1, <1>3, BodiesAppend
<1>6. FlattenSeq(BodiesOf(left)) = wrapped
  BY <1>1, <1>5, FlattenAppend
<1>7. ASSUME NEW k \in 1..(n + 1)
      PROVE  /\ Len(left[k].lines) <= Capacity(o)
             /\ k < n + 1 \/ Len(lines) = Capacity(o) => Len(left[k].lines) = Capacity(o)
             /\ left[k].header = o.header
             /\ left[k].footer = IF o.footer THEN k ELSE 0
  <2>1. CASE k = n + 1
    <3> HIDE DEF left, n, page
    <3> QED
      BY <1>1, <1>2, <1>4, <2>1
  <2>2. CASE k # n + 1
    <3>1. k \in 1..n
      BY <1>1, <2>2
    <3>2. Len(done[k].lines) = Capacity(o) /\ done[k].header = o.header /\ done[k].footer = IF o.footer THEN k ELSE 0
      BY <3>1 DEF DrawRight
    <3>3. Capacity(o) \in Nat
      BY PageRoom
    <3>4. left[k] = done[k]
      BY <1>4, <3>1
    <3> HIDE DEF left
    <3> QED
      BY <3>2, <3>3, <3>4
  <2> QED
    BY <2>1, <2>2
<1> HIDE DEF left, page, P, n
<1> QED
  BY <1>4, <1>6, <1>7 DEF left, page, P, n, LeftRight

\* One more line, drawn on the page at hand or on a new one (DrawLine), is in its place.
LEMMA DrawLineRight ==
  ASSUME NEW L, NEW o, Printable(o), NEW done, NEW lines, NEW y, NEW wrapped \in Seq(L), NEW line \in L,
         DrawRight(L, o, done, lines, y, wrapped)
  PROVE  LET drawn == DrawLine(o, done, lines, y, line)
         IN DrawRight(L, o, drawn.done, drawn.lines, drawn.y, Append(wrapped, line))
<1> DEFINE m == Len(lines)
           h == LineHeight(o)
<1>1. Top(o) \in Int /\ h \in Nat \ {0} /\ Capacity(o) \in Nat /\ Capacity(o) >= 1
  BY PageRoom
<1>2. lines \in Seq(L) /\ m \in Nat /\ m <= Capacity(o) /\ y = Top(o) - m * h
  BY DEF DrawRight
<1>3. 2 * y < 2 * o.margin + h <=> Capacity(o) <= m
  BY <1>2, PageRoom
<1>4. Append(wrapped, line) = wrapped \o <<line>> /\ <<line>> \in Seq(L) /\ Len(<<line>>) = 1
  OBVIOUS
<1>5. CASE 2 * y < 2 * o.margin + h
  <2> DEFINE left == Append(done, DrawnPage(o, done, lines))
  <2>1. DrawLine(o, done, lines, y, line) = [done |-> left, lines |-> <<line>>, y |-> Top(o) - h]
    BY <1>5 DEF DrawLine
  <2>2. m = Capacity(o)
    BY <1>1, <1>2, <1>3, <1>5
  <2>3. /\ left \in Seq(PagesOf(L)) /\ FlattenSeq(BodiesOf(left)) = wrapped
        /\ \A k \in 1..Len(left) : /\ Len(left[k].lines) = Capacity(o)
                                   /\ left[k].header = o.header
                                   /\ left[k].footer = IF o.footer THEN k ELSE 0
    <3>1. LeftRight(L, o, done, lines, left, wrapped)
      BY PageLeft
    <3> HIDE DEF left
    <3> QED
      BY <2>2, <3>1 DEF LeftRight
  <2> HIDE DEF left
  <2>4. Top(o) - h = Top(o) - 1 * h
    BY <1>1
  <2>5. DrawRight(L, o, left, <<line>>, Top(o) - h, Append(wrapped, line))
    BY <1>1, <1>4, <2>3, <2>4 DEF DrawRight
  <2> QED
    BY <2>1, <2>5
<1>6. CASE ~(2 * y < 2 * o.margin + h)
  <2>1. DrawLine(o, done, lines, y, line) = [done |-> done, lines |-> Append(lines, line), y |-> y - h]
    BY <1>6 DEF DrawLine
  <2>2. m + 1 <= Capacity(o)
    BY <1>1, <1>2, <1>3, <1>6
  <2>3. Append(lines, line) \in Seq(L) /\ Len(Append(lines, line)) = m + 1
    BY <1>2
  <2>4. y - h = Top(o) - (m + 1) * h
    BY <1>1, <1>2
  <2>5. FlattenSeq(BodiesOf(done)) \o Append(lines, line) = Append(wrapped, line)
    <3> DEFINE p == FlattenSeq(BodiesOf(done))
    <3>1. p \o lines = wrapped /\ p \in Seq(L)
      <4>1. done \in Seq(PagesOf(L)) /\ p \o lines = wrapped
        BY DEF DrawRight
      <4>2. \E page : page \in PagesOf(L)
        <5>1. [header |-> TRUE, lines |-> <<>>, footer |-> 0] \in PagesOf(L)
          BY DEF PagesOf
        <5> QED
          BY <5>1
      <4>3. BodiesOf(done) \in Seq(Seq(L))
        BY <4>1, <4>2, BodiesAppend
      <4> QED
        BY <4>1, <4>3, FlattenTyped
    <3> HIDE DEF p
    <3>2. p \o Append(lines, line) = Append(p \o lines, line)
      BY <1>2, <3>1
    <3> QED
      BY <3>1, <3>2 DEF p
  <2>6. DrawRight(L, o, done, Append(lines, line), y - h, Append(wrapped, line))
    <3> DEFINE longer == Append(lines, line)
    <3> HIDE DEF longer
    <3>1. longer \in Seq(L) /\ Len(longer) = m + 1 /\ FlattenSeq(BodiesOf(done)) \o longer = Append(wrapped, line)
      BY <2>3, <2>5 DEF longer
    <3>2. DrawRight(L, o, done, longer, y - h, Append(wrapped, line))
      BY <2>2, <2>4, <3>1 DEF DrawRight
    <3> QED
      BY <3>2 DEF longer
  <2> QED
    BY <2>1, <2>6
<1> QED
  BY <1>5, <1>6

\* The pages hold the lines, in order; each but the last is full.
PagesRight(L, o, drawn, wrapped) ==
  /\ drawn \in Seq(PagesOf(L)) /\ drawn # <<>>
  /\ FlattenSeq(BodiesOf(drawn)) = wrapped
  /\ \A k \in 1..Len(drawn) :
       /\ Len(drawn[k].lines) <= Capacity(o)
       /\ k < Len(drawn) => Len(drawn[k].lines) = Capacity(o)
       /\ drawn[k].header = o.header
       /\ drawn[k].footer = IF o.footer THEN k ELSE 0

\* All lines drawn: the pages hold them, in order (DrawLines).
LEMMA DrawIs ==
  ASSUME NEW L, NEW o, Printable(o), NEW wrapped \in Seq(L)
  PROVE  PagesRight(L, o, DrawLines(wrapped, o), wrapped)
<1> DEFINE n == Len(wrapped)
           base == [done |-> <<>>, lines |-> <<>>, y |-> Top(o)]
           Eq(draw) == draw = [i \in 0..n |->
                          IF i = 0 THEN [done |-> <<>>, lines |-> <<>>, y |-> Top(o)]
                          ELSE DrawLine(o, draw[i - 1].done, draw[i - 1].lines, draw[i - 1].y, wrapped[i])]
           draw == CHOOSE draw : Eq(draw)
           P == PagesOf(L)
           X == [done : Seq(P), lines : Seq(L), y : Int]
           step == [x \in X \X (1..n) |-> DrawLine(o, x[1].done, x[1].lines, x[1].y, wrapped[x[2]])]
           Before(i) == SubSeq(wrapped, 1, i)
<1>1. n \in Nat /\ (\A i \in 1..n : wrapped[i] \in L)
  OBVIOUS
<1>2. Top(o) \in Int /\ LineHeight(o) \in Int /\ Capacity(o) \in Nat /\ o.header \in BOOLEAN /\ o.footer \in BOOLEAN
  BY PageRoom DEF Printable
<1>3. base \in X
  BY <1>2
<1>4. ASSUME NEW s \in X, NEW line \in L
      PROVE  DrawLine(o, s.done, s.lines, s.y, line) \in X
  <2>1. s.done \in Seq(P) /\ s.lines \in Seq(L) /\ s.y \in Int
    OBVIOUS
  <2>2. DrawnPage(o, s.done, s.lines) \in P
    <3>1. Len(s.done) \in Nat
      BY <2>1
    <3> QED
      BY <1>2, <2>1, <3>1 DEF DrawnPage, PagesOf
  <2>3. Append(s.done, DrawnPage(o, s.done, s.lines)) \in Seq(P)
    <3> HIDE DEF P
    <3> QED
      BY <2>1, <2>2
  <2>4. Append(s.lines, line) \in Seq(L) /\ <<line>> \in Seq(L)
    BY <2>1
  <2>5. Top(o) - LineHeight(o) \in Int /\ s.y - LineHeight(o) \in Int
    BY <1>2, <2>1
  <2> QED
    BY <2>1, <2>3, <2>4, <2>5 DEF DrawLine
<1> HIDE DEF X, P
<1>5. step \in [X \X (1..n) -> X]
  <2> SUFFICES ASSUME NEW x \in X \X (1..n)
               PROVE DrawLine(o, x[1].done, x[1].lines, x[1].y, wrapped[x[2]]) \in X
    OBVIOUS
  <2>1. x[1] \in X /\ x[2] \in 1..n
    OBVIOUS
  <2> QED
    BY <1>1, <1>4, <2>1
<1>6. PICK f \in [0..n -> X] : Recurs(f, n, base, step)
  <2> HIDE DEF step, n, base
  <2> QED
    BY <1>1, <1>3, <1>5, Recursion
<1>7. ASSUME NEW i \in 0..n
      PROVE  f[i] = IF i = 0 THEN base ELSE DrawLine(o, f[i - 1].done, f[i - 1].lines, f[i - 1].y, wrapped[i])
  <2>1. CASE i = 0
    BY <1>6, <2>1 DEF Recurs
  <2>2. CASE i # 0
    <3>1. i \in 1..n /\ i - 1 \in 0..n
      BY <1>1, <2>2
    <3>2. f[i - 1] \in X
      BY <3>1
    <3>3. f[i] = step[<<f[i - 1], i>>]
      BY <1>6, <3>1 DEF Recurs
    <3>4. step[<<f[i - 1], i>>] = DrawLine(o, f[i - 1].done, f[i - 1].lines, f[i - 1].y, wrapped[i])
      BY <3>1, <3>2
    <3> QED
      BY <2>2, <3>3, <3>4
  <2> QED
    BY <2>1, <2>2
<1>8. Eq(f)
  <2>1. f = [i \in 0..n |-> f[i]]
    OBVIOUS
  <2> HIDE DEF n
  <2> QED
    BY <1>7, <2>1
<1>9. Eq(draw)
  BY <1>8
<1>10. DrawLines(wrapped, o) = Append(draw[n].done, DrawnPage(o, draw[n].done, draw[n].lines))
  BY DEF DrawLines
<1> HIDE DEF draw
<1>11. ASSUME NEW i \in 0..n
       PROVE  draw[i] = IF i = 0 THEN base ELSE DrawLine(o, draw[i - 1].done, draw[i - 1].lines, draw[i - 1].y, wrapped[i])
  BY <1>9
<1>12. /\ Before(0) = <<>> /\ Before(n) = wrapped
       /\ \A i \in 1..n : Before(i) = Append(Before(i - 1), wrapped[i]) /\ Before(i - 1) \in Seq(L)
  <2>1. ASSUME NEW i \in 1..n PROVE Before(i) = Append(Before(i - 1), wrapped[i]) /\ Before(i - 1) \in Seq(L)
    BY <1>1
  <2> QED
    BY <1>1, <2>1
<1> HIDE DEF Before
<1> DEFINE T == {i \in 0..n : DrawRight(L, o, draw[i].done, draw[i].lines, draw[i].y, Before(i))}
<1>13. 0 \in T
  <2>1. draw[0] = base /\ 0 \in 0..n
    BY <1>1, <1>11
  <2>2. BodiesOf(<<>>) = <<>> /\ FlattenSeq(<<>>) = <<>>
    BY DEF FlattenSeq, BodiesOf
  <2>3. FlattenSeq(BodiesOf(<<>>)) \o <<>> = <<>>
    BY <2>2
  <2>4. Top(o) = Top(o) - 0 * LineHeight(o) /\ 0 <= Capacity(o)
    BY <1>2
  <2>5. DrawRight(L, o, <<>>, <<>>, Top(o), <<>>)
    BY <2>3, <2>4 DEF DrawRight
  <2>6. base.done = <<>> /\ base.lines = <<>> /\ base.y = Top(o)
    OBVIOUS
  <2> HIDE DEF base
  <2> QED
    BY <1>12, <2>1, <2>5, <2>6
<1> HIDE DEF base
<1>14. ASSUME NEW i \in 0..(n - 1), i \in T PROVE i + 1 \in T
  <2>1. i + 1 \in 1..n /\ i + 1 \in 0..n /\ i + 1 # 0 /\ (i + 1) - 1 = i
    BY <1>1
  <2>2. PICK line \in L : line = wrapped[i + 1]
    BY <1>1, <2>1
  <2>3. PICK b \in Seq(L) : b = Before(i) /\ Before(i + 1) = Append(b, line)
    BY <1>12, <2>1, <2>2
  <2> DEFINE drawn == DrawLine(o, draw[i].done, draw[i].lines, draw[i].y, line)
  <2>4. draw[i + 1] = drawn
    BY <1>11, <2>1, <2>2
  <2>5. DrawRight(L, o, draw[i].done, draw[i].lines, draw[i].y, b)
    BY <1>14, <2>3
  <2>6. DrawRight(L, o, drawn.done, drawn.lines, drawn.y, Append(b, line))
    BY <2>5, DrawLineRight
  <2> HIDE DEF drawn
  <2> QED
    BY <2>1, <2>3, <2>4, <2>6
<1>15. n \in T
  <2> HIDE DEF T, n
  <2>1. \A i \in 0..n : i \in T
    BY <1>1, <1>13, <1>14, Steps
  <2> QED
    BY <1>1, <2>1
<1>16. DrawRight(L, o, draw[n].done, draw[n].lines, draw[n].y, wrapped)
  BY <1>12, <1>15
<1> DEFINE done == draw[n].done
           lines == draw[n].lines
           y == draw[n].y
           left == Append(done, DrawnPage(o, done, lines))
<1> HIDE DEF done, lines, y
<1>21. DrawRight(L, o, done, lines, y, wrapped)
  BY <1>16 DEF done, lines, y
<1>17. /\ left \in Seq(PagesOf(L)) /\ Len(left) = Len(done) + 1
       /\ FlattenSeq(BodiesOf(left)) = wrapped
       /\ \A k \in 1..Len(left) :
            /\ Len(left[k].lines) <= Capacity(o)
            /\ k < Len(left) \/ Len(lines) = Capacity(o) => Len(left[k].lines) = Capacity(o)
            /\ left[k].header = o.header
            /\ left[k].footer = IF o.footer THEN k ELSE 0
  <2>1. LeftRight(L, o, done, lines, left, wrapped)
    BY <1>21, PageLeft
  <2> HIDE DEF left
  <2> QED
    BY <2>1 DEF LeftRight
<1>18. Len(done) \in Nat
  BY <1>21 DEF DrawRight
<1>19. DrawLines(wrapped, o) = left
  BY <1>10 DEF done, lines
<1> HIDE DEF left
<1>20. left # <<>>
  <2>1. Len(left) >= 1
    BY <1>17, <1>18
  <2> QED
    BY <2>1
<1> QED
  BY <1>17, <1>19, <1>20 DEF PagesRight

\* The document of a text: its words, in lines that are not too wide and at least as
\* many as those of the text, on full pages.
LEMMA RenderIs ==
  ASSUME NEW o, Printable(o), NEW content \in Seq(Nat)
  PROVE  \E wrapped \in Seq(Narrow(TextWidth(o))) :
           /\ PagesRight(Narrow(TextWidth(o)), o, RenderTextToPdf(content, o), wrapped)
           /\ FlattenSeq(wrapped) = Picked(content, Words)
           /\ Len(wrapped) >= Len(Picked(content, {LineFeed}))
<1> DEFINE max == TextWidth(o)
           N == Narrow(max)
           Z == Seq(Nat)
           lines == Lines(content)
           n == Len(lines)
           parts == [i \in 1..n |-> WrapLine(lines[i], max)]
           wrapped == FlattenSeq(parts)
<1>1. max \in Int
  BY PageRoom
<1>2. lines \in Seq(Z) /\ FlattenSeq(lines) = Picked(content, Words) /\ Len(lines) >= Len(Picked(content, {LineFeed}))
  BY LinesHoldText
<1> HIDE DEF lines, max
<1>3. n \in Nat /\ DOMAIN lines = 1..n /\ \A i \in 1..n : lines[i] \in Seq(Nat)
  <2> HIDE DEF Z
  <2>1. n \in Nat /\ DOMAIN lines = 1..n /\ \A i \in 1..n : lines[i] \in Z
    BY <1>2
  <2> QED
    BY <2>1 DEF Z
<1>4. ASSUME NEW i \in 1..n
      PROVE  /\ parts[i] \in Seq(N) /\ parts[i] \in Seq(Z)
             /\ FlattenSeq(parts[i]) = lines[i] /\ Len(parts[i]) >= 1
  <2> DEFINE w == lines[i]
  <2>1. w \in Seq(Nat)
    BY <1>3
  <2> HIDE DEF w, n
  <2>2. /\ WrapLine(w, max) \in Seq(N) /\ WrapLine(w, max) \in Seq(Z)
        /\ FlattenSeq(WrapLine(w, max)) = w /\ Len(WrapLine(w, max)) >= 1
    BY <1>1, <2>1, WrapIs
  <2>3. parts[i] = WrapLine(w, max)
    BY DEF w
  <2> HIDE DEF parts
  <2> QED
    BY <2>2, <2>3 DEF w
<1>5. parts = [i \in 1..n |-> parts[i]] /\ DOMAIN parts = 1..n
  OBVIOUS
<1>6. RenderTextToPdf(content, o) = DrawLines(wrapped, o)
  BY <1>3 DEF RenderTextToPdf, lines, max
<1> HIDE DEF parts
<1>7. parts \in Seq(Seq(N)) /\ parts \in Seq(Seq(Z)) /\ Len(parts) = n
  <2> DEFINE A == Seq(N)
             B == Seq(Z)
  <2>1. \A i \in 1..n : parts[i] \in A /\ parts[i] \in B
    <3> HIDE DEF n, N, Z
    <3> QED
      BY <1>4
  <2> HIDE DEF A, B, n
  <2>2. parts \in Seq(A) /\ parts \in Seq(B) /\ Len(parts) = n
    <3>1. n \in Nat
      BY <1>3
    <3>2. parts \in [1..n -> A] /\ parts \in [1..n -> B]
      BY <1>5, <2>1
    <3> QED
      BY <3>1, <3>2
  <2> QED
    BY <2>2 DEF A, B
<1> HIDE DEF N
<1>8. wrapped \in Seq(N)
  BY <1>7, FlattenTyped
<1>9. FlattenSeq(wrapped) = FlattenSeq([i \in 1..n |-> FlattenSeq(parts[i])])
  BY <1>7, FlattenFlatten
<1>10. [i \in 1..n |-> FlattenSeq(parts[i])] = lines
  <2>1. lines = [i \in 1..n |-> lines[i]]
    <3> HIDE DEF Z
    <3> QED
      BY <1>2, <1>3
  <2> HIDE DEF n
  <2> QED
    BY <1>4, <2>1
<1>11. Len(wrapped) >= n
  BY <1>4, <1>7, FlattenLonger
<1>12. PagesRight(N, o, DrawLines(wrapped, o), wrapped)
  BY <1>8, DrawIs
<1> DEFINE feeds == Picked(content, {LineFeed})
<1>13. Len(feeds) \in Nat /\ Len(wrapped) \in Nat
  <2>1. feeds \in Seq(Nat)
    BY PickedTyped
  <2> HIDE DEF feeds, wrapped
  <2> QED
    BY <1>8, <2>1
<1>14. Len(wrapped) >= Len(feeds)
  BY <1>2, <1>3, <1>11, <1>13
<1> HIDE DEF wrapped
<1> QED
  BY <1>2, <1>6, <1>8, <1>9, <1>10, <1>12, <1>14 DEF N, max

-----------------------------------------------------------------------------
(* Chunks, and the invariant of a copy.                                  *)

\* Texts with the same words piece by piece have the same words.
LEMMA SamePicked ==
  ASSUME NEW S, NEW ss \in Seq(Seq(S)), NEW tt \in Seq(Seq(S)), NEW kinds, Len(ss) = Len(tt),
         \A i \in 1..Len(ss) : Picked(ss[i], kinds) = Picked(tt[i], kinds)
  PROVE  Picked(FlattenSeq(ss), kinds) = Picked(FlattenSeq(tt), kinds)
<1>1. /\ Picked(FlattenSeq(ss), kinds) = FlattenSeq([i \in 1..Len(ss) |-> Picked(ss[i], kinds)])
      /\ Picked(FlattenSeq(tt), kinds) = FlattenSeq([i \in 1..Len(tt) |-> Picked(tt[i], kinds)])
  BY PickedFlatten
<1>2. [i \in 1..Len(ss) |-> Picked(ss[i], kinds)] = [i \in 1..Len(tt) |-> Picked(tt[i], kinds)]
  OBVIOUS
<1> QED
  BY <1>1, <1>2

\* A row of the output holds the words of its cells, and at least one line feed (RowText).
LEMMA RowIs ==
  ASSUME NEW row \in Seq(Seq(Nat))
  PROVE  /\ RowText(row) \in Seq(Nat)
         /\ Picked(RowText(row), Words) = Picked(FlattenSeq(row), Words)
         /\ Len(Picked(RowText(row), {LineFeed})) >= 1
<1> DEFINE cells == FlattenSeq(row)
           feeds == Picked(cells, {LineFeed})
<1>1. cells \in Seq(Nat)
  BY FlattenTyped
<1>2. LineFeed \in Nat /\ LineFeed \notin Words /\ LineFeed \in {LineFeed}
  BY DEF LineFeed, Words
<1>3. RowText(row) = Append(cells, LineFeed)
  BY DEF RowText
<1> HIDE DEF cells
<1>4. /\ Picked(Append(cells, LineFeed), Words) = Picked(cells, Words)
      /\ Picked(Append(cells, LineFeed), {LineFeed}) = Append(feeds, LineFeed)
      /\ feeds \in Seq(Nat)
  <2>1. feeds \in Seq(Nat)
    BY <1>1, PickedTyped
  <2>2. Picked(Append(cells, LineFeed), Words) = Picked(cells, Words)
    BY <1>1, <1>2, PickedAppend
  <2>3. Picked(Append(cells, LineFeed), {LineFeed}) = Append(feeds, LineFeed)
    BY <1>1, <1>2, PickedAppend
  <2> QED
    BY <2>1, <2>2, <2>3
<1> HIDE DEF feeds
<1>5. Len(Append(feeds, LineFeed)) >= 1
  BY <1>2, <1>4
<1>6. Append(cells, LineFeed) \in Seq(Nat)
  BY <1>1, <1>2
<1> QED
  BY <1>3, <1>4, <1>5, <1>6 DEF cells

\* A chunk of the output holds the words of its rows, in order, and a line feed for each (ChunkText).
LEMMA ChunkIs ==
  ASSUME NEW chunk \in Seq(Seq(Seq(Nat)))
  PROVE  /\ ChunkText(chunk) \in Seq(Nat)
         /\ Picked(ChunkText(chunk), Words) = Picked(FlattenSeq(FlattenSeq(chunk)), Words)
         /\ Len(Picked(ChunkText(chunk), {LineFeed})) >= Len(chunk)
<1> DEFINE n == Len(chunk)
           Z == Seq(Nat)
           Y == Seq(Z)
           parts == [r \in 1..n |-> RowText(chunk[r])]
           cells == [r \in 1..n |-> FlattenSeq(chunk[r])]
           feeds == [r \in 1..n |-> Picked(parts[r], {LineFeed})]
<1>1. n \in Nat /\ DOMAIN chunk = 1..n /\ \A r \in 1..n : chunk[r] \in Seq(Seq(Nat))
  <2> HIDE DEF Y
  <2>1. chunk \in Seq(Y)
    BY DEF Y
  <2>2. n \in Nat /\ DOMAIN chunk = 1..n /\ \A r \in 1..n : chunk[r] \in Y
    BY <2>1
  <2> QED
    BY <2>2 DEF Y
<1>2. ASSUME NEW r \in 1..n
      PROVE  /\ parts[r] = RowText(chunk[r]) /\ cells[r] = FlattenSeq(chunk[r])
             /\ parts[r] \in Z /\ cells[r] \in Z
             /\ Picked(parts[r], Words) = Picked(cells[r], Words)
             /\ Len(Picked(parts[r], {LineFeed})) >= 1
             /\ Picked(parts[r], {LineFeed}) \in Z
  <2> DEFINE row == chunk[r]
  <2>1. row \in Seq(Seq(Nat)) /\ parts[r] = RowText(row) /\ cells[r] = FlattenSeq(row)
    BY <1>1
  <2> HIDE DEF row, parts, cells
  <2>2. /\ RowText(row) \in Z /\ FlattenSeq(row) \in Z
        /\ Picked(RowText(row), Words) = Picked(FlattenSeq(row), Words)
        /\ Len(Picked(RowText(row), {LineFeed})) >= 1
    BY <2>1, RowIs, FlattenTyped
  <2>3. Picked(RowText(row), {LineFeed}) \in Z
    BY <2>2, PickedTyped
  <2> QED
    BY <2>1, <2>2, <2>3 DEF row
<1>3. parts \in Seq(Z) /\ cells \in Seq(Z) /\ feeds \in Seq(Z) /\ Len(parts) = n /\ Len(cells) = n /\ Len(feeds) = n
  <2>1. \A r \in 1..n : parts[r] \in Z /\ cells[r] \in Z /\ feeds[r] \in Z
    <3> HIDE DEF parts, cells, Z, n
    <3> QED
      BY <1>2
  <2>2. DOMAIN parts = 1..n /\ DOMAIN cells = 1..n /\ DOMAIN feeds = 1..n
    OBVIOUS
  <2>3. /\ parts = [r \in 1..n |-> parts[r]] /\ cells = [r \in 1..n |-> cells[r]]
        /\ feeds = [r \in 1..n |-> feeds[r]]
    OBVIOUS
  <2> HIDE DEF Z, n, parts, cells, feeds
  <2>4. parts \in [1..n -> Z] /\ cells \in [1..n -> Z] /\ feeds \in [1..n -> Z]
    BY <2>1, <2>3
  <2> QED
    BY <1>1, <2>4
<1>4. ChunkText(chunk) = FlattenSeq(parts)
  BY <1>1 DEF ChunkText
<1>5. FlattenSeq(parts) \in Seq(Nat)
  <2> HIDE DEF parts
  <2> QED
    BY <1>3, FlattenTyped
<1>6. FlattenSeq(FlattenSeq(chunk)) = FlattenSeq(cells)
  BY FlattenFlatten
<1>7. Picked(FlattenSeq(parts), Words) = Picked(FlattenSeq(cells), Words)
  <2> HIDE DEF parts, cells, n
  <2>1. \A i \in 1..n : Picked(parts[i], Words) = Picked(cells[i], Words)
    BY <1>2
  <2>2. parts \in Seq(Seq(Nat)) /\ cells \in Seq(Seq(Nat)) /\ Len(parts) = n /\ Len(cells) = n
    BY <1>3
  <2> QED
    BY <2>1, <2>2, SamePicked
<1>8. Picked(FlattenSeq(parts), {LineFeed}) = FlattenSeq(feeds)
  <2> HIDE DEF parts, n
  <2>1. Picked(FlattenSeq(parts), {LineFeed}) = FlattenSeq([r \in 1..Len(parts) |-> Picked(parts[r], {LineFeed})])
    BY <1>3, PickedFlatten
  <2>2. Len(parts) = n
    BY <1>3
  <2>3. [r \in 1..Len(parts) |-> Picked(parts[r], {LineFeed})] = feeds
    BY <2>2
  <2> QED
    BY <2>1, <2>3
<1>9. Len(FlattenSeq(feeds)) >= n
  <2>1. \A r \in 1..n : Len(feeds[r]) >= 1
    BY <1>2
  <2> HIDE DEF feeds, n
  <2> QED
    BY <1>3, <2>1, FlattenLonger
<1> HIDE DEF parts, cells, feeds, n
<1> QED
  BY <1>4, <1>5, <1>6, <1>7, <1>8, <1>9 DEF n

\* The text of the first chunks.
SunkText(chunks, n) == FlattenSeq([i \in 1..n |-> ChunkText(chunks[i])])

\* The text of some chunks holds the words of their rows, and a line feed for each.
LEMMA SunkIs ==
  ASSUME NEW chunks \in Seq(Seq(Seq(Seq(Nat))))
  PROVE  /\ SunkText(chunks, Len(chunks)) \in Seq(Nat)
         /\ Picked(SunkText(chunks, Len(chunks)), Words) = Picked(FlattenSeq(FlattenSeq(FlattenSeq(chunks))), Words)
         /\ Len(Picked(SunkText(chunks, Len(chunks)), {LineFeed})) >= Len(FlattenSeq(chunks))
<1> DEFINE n == Len(chunks)
           Z == Seq(Nat)
           Y == Seq(Z)
           V == Seq(Y)
           parts == [i \in 1..n |-> ChunkText(chunks[i])]
           rows == [i \in 1..n |-> FlattenSeq(chunks[i])]
           cells == [i \in 1..n |-> FlattenSeq(FlattenSeq(chunks[i]))]
           feeds == [i \in 1..n |-> Picked(parts[i], {LineFeed})]
<1>1. n \in Nat /\ \A i \in 1..n : chunks[i] \in Seq(Seq(Seq(Nat)))
  <2> HIDE DEF V
  <2>1. chunks \in Seq(V)
    BY DEF V
  <2>2. n \in Nat /\ \A i \in 1..n : chunks[i] \in V
    BY <2>1
  <2> QED
    BY <2>2 DEF V
<1>2. ASSUME NEW i \in 1..n
      PROVE  /\ rows[i] = FlattenSeq(chunks[i]) /\ cells[i] = FlattenSeq(rows[i])
             /\ parts[i] \in Z /\ cells[i] \in Z /\ rows[i] \in Y /\ feeds[i] \in Z
             /\ Picked(parts[i], Words) = Picked(cells[i], Words)
             /\ feeds[i] = Picked(parts[i], {LineFeed})
             /\ Len(feeds[i]) >= Len(chunks[i])
  <2> DEFINE chunk == chunks[i]
  <2>1. /\ chunk \in Seq(Seq(Seq(Nat))) /\ parts[i] = ChunkText(chunk) /\ rows[i] = FlattenSeq(chunk)
        /\ cells[i] = FlattenSeq(FlattenSeq(chunk)) /\ feeds[i] = Picked(parts[i], {LineFeed})
    BY <1>1
  <2> HIDE DEF chunk, parts, cells, rows, feeds, Y, Z
  <2>2. /\ ChunkText(chunk) \in Seq(Nat)
        /\ Picked(ChunkText(chunk), Words) = Picked(FlattenSeq(FlattenSeq(chunk)), Words)
        /\ Len(Picked(ChunkText(chunk), {LineFeed})) >= Len(chunk)
    BY <2>1, ChunkIs
  <2>3. FlattenSeq(chunk) \in Seq(Seq(Nat))
    BY <2>1, FlattenTyped
  <2>4. FlattenSeq(FlattenSeq(chunk)) \in Seq(Nat)
    BY <2>3, FlattenTyped
  <2>5. Picked(ChunkText(chunk), {LineFeed}) \in Seq(Nat)
    BY <2>2, PickedTyped
  <2> QED
    BY <2>1, <2>2, <2>3, <2>4, <2>5 DEF chunk, Y, Z
<1>3. /\ parts \in Seq(Z) /\ cells \in Seq(Z) /\ feeds \in Seq(Z) /\ rows \in Seq(Y)
      /\ Len(parts) = n /\ Len(cells) = n /\ Len(feeds) = n /\ Len(rows) = n
  <2>1. \A i \in 1..n : parts[i] \in Z /\ cells[i] \in Z /\ feeds[i] \in Z /\ rows[i] \in Y
    <3> HIDE DEF parts, cells, feeds, rows, Z, Y, n
    <3> QED
      BY <1>2
  <2>2. /\ parts = [i \in 1..n |-> parts[i]] /\ cells = [i \in 1..n |-> cells[i]]
        /\ feeds = [i \in 1..n |-> feeds[i]] /\ rows = [i \in 1..n |-> rows[i]]
    OBVIOUS
  <2> HIDE DEF Z, Y, n, parts, cells, feeds, rows
  <2>3. parts \in [1..n -> Z] /\ cells \in [1..n -> Z] /\ feeds \in [1..n -> Z] /\ rows \in [1..n -> Y]
    BY <2>1, <2>2
  <2> QED
    BY <1>1, <2>3
<1>4. SunkText(chunks, n) = FlattenSeq(parts)
  BY DEF SunkText
<1>5. FlattenSeq(parts) \in Seq(Nat)
  <2> HIDE DEF parts
  <2> QED
    BY <1>3, FlattenTyped
<1>6. FlattenSeq(FlattenSeq(FlattenSeq(chunks))) = FlattenSeq(cells)
  <2>1. FlattenSeq(FlattenSeq(chunks)) = FlattenSeq(rows)
    BY FlattenFlatten
  <2>2. FlattenSeq(FlattenSeq(rows)) = FlattenSeq([i \in 1..n |-> FlattenSeq(rows[i])])
    <3> HIDE DEF rows, n
    <3> QED
      BY <1>3, FlattenFlatten
  <2>3. [i \in 1..n |-> FlattenSeq(rows[i])] = cells
    OBVIOUS
  <2> QED
    BY <2>1, <2>2, <2>3
<1>7. Picked(FlattenSeq(parts), Words) = Picked(FlattenSeq(cells), Words)
  <2> HIDE DEF parts, cells, n
  <2>1. \A i \in 1..n : Picked(parts[i], Words) = Picked(cells[i], Words)
    BY <1>2
  <2>2. parts \in Seq(Seq(Nat)) /\ cells \in Seq(Seq(Nat)) /\ Len(parts) = n /\ Len(cells) = n
    BY <1>3
  <2> QED
    BY <2>1, <2>2, SamePicked
<1>8. Picked(FlattenSeq(parts), {LineFeed}) = FlattenSeq(feeds)
  <2> HIDE DEF parts, n
  <2>1. Picked(FlattenSeq(parts), {LineFeed}) = FlattenSeq([i \in 1..Len(parts) |-> Picked(parts[i], {LineFeed})])
    BY <1>3, PickedFlatten
  <2>2. Len(parts) = n
    BY <1>3
  <2>3. [i \in 1..Len(parts) |-> Picked(parts[i], {LineFeed})] = feeds
    BY <2>2
  <2> QED
    BY <2>1, <2>3
<1>9. Len(FlattenSeq(feeds)) >= Len(FlattenSeq(chunks))
  <2>1. \A i \in 1..n : Len(feeds[i]) >= Len(chunks[i])
    BY <1>2
  <2> HIDE DEF feeds
  <2> QED
    BY <1>3, <2>1, FlattenLengths
<1> HIDE DEF parts, cells, feeds, n
<1> QED
  BY <1>4, <1>5, <1>6, <1>7, <1>8, <1>9 DEF n

\* One more chunk in the buffer.
LEMMA SunkMore ==
  ASSUME NEW chunks \in Seq(Seq(Seq(Seq(Nat)))), NEW n \in Nat, n + 1 <= Len(chunks)
  PROVE  SunkText(chunks, n + 1) = SunkText(chunks, n) \o ChunkText(chunks[n + 1])
<1> DEFINE Z == Seq(Nat)
           ss == [i \in 1..n |-> ChunkText(chunks[i])]
           tt == [i \in 1..(n + 1) |-> ChunkText(chunks[i])]
           s == ChunkText(chunks[n + 1])
<1>1. \A i \in 1..(n + 1) : ChunkText(chunks[i]) \in Z
  <2> SUFFICES ASSUME NEW i \in 1..(n + 1) PROVE ChunkText(chunks[i]) \in Z
    OBVIOUS
  <2> DEFINE V == Seq(Seq(Seq(Nat)))
             chunk == chunks[i]
  <2>1. chunk \in V
    <3>1. chunks \in Seq(V) /\ i \in 1..Len(chunks)
      OBVIOUS
    <3> HIDE DEF V
    <3> QED
      BY <3>1
  <2> HIDE DEF chunk
  <2>2. ChunkText(chunk) \in Z
    BY <2>1, ChunkIs
  <2> QED
    BY <2>2 DEF chunk
<1>2. ss \in Seq(Z) /\ s \in Z /\ tt = Append(ss, s)
  <2>1. \A i \in 1..n : ss[i] \in Z /\ ss[i] = ChunkText(chunks[i]) /\ i \in 1..(n + 1)
    BY <1>1
  <2>2. s \in Z
    BY <1>1
  <2>3. ss = [i \in 1..n |-> ss[i]]
    OBVIOUS
  <2> HIDE DEF Z, ss, s
  <2>4. ss \in Seq(Z) /\ Len(ss) = n
    <3>1. ss \in [1..n -> Z]
      BY <2>1, <2>3
    <3> QED
      BY <3>1
  <2> DEFINE longer == Append(ss, s)
  <2>5. longer \in Seq(Z) /\ Len(longer) = n + 1
        /\ \A i \in 1..(n + 1) : longer[i] = IF i = n + 1 THEN s ELSE ss[i]
    BY <2>2, <2>4
  <2> HIDE DEF longer
  <2>6. longer = [i \in 1..(n + 1) |-> longer[i]]
    BY <2>5
  <2>7. ASSUME NEW i \in 1..(n + 1) PROVE longer[i] = ChunkText(chunks[i])
    <3>1. CASE i = n + 1
      BY <2>5, <3>1 DEF s
    <3>2. CASE i # n + 1
      <4>1. i \in 1..n
        BY <3>2
      <4> QED
        BY <2>1, <2>5, <3>2, <4>1
    <3> QED
      BY <3>1, <3>2
  <2> QED
    BY <2>2, <2>4, <2>6, <2>7 DEF longer
<1> HIDE DEF ss, s, tt
<1>3. FlattenSeq(tt) = FlattenSeq(ss) \o s
  BY <1>2, FlattenAppend
<1> QED
  BY <1>3 DEF SunkText, ss, s, tt

-----------------------------------------------------------------------------
Free == \A w \in Workers : holding[w] = None

CopyInv ==
  /\ source \in Sources /\ options \in OptionSets
  /\ copy \in {"refused", "sinking", "rendered"}
  /\ copy # "refused" => PdfCopyBind(options)
  /\ taken \in Nat /\ taken <= Len(source)
  /\ holding \in [Workers -> {None, taken}]
  /\ taken = 0 => Free
  /\ \A v, w \in Workers : holding[v] # None /\ holding[w] # None => v = w
  /\ Free => buffer = SunkText(source, taken)
  /\ ~Free => buffer = SunkText(source, taken - 1)
  /\ copy = "rendered" => Free /\ taken = Len(source) /\ pages = RenderTextToPdf(buffer, options)

\* The invariant holds when a query is bound.
LEMMA CopyStart == CopyInit => CopyInv
<1> SUFFICES ASSUME CopyInit PROVE CopyInv
  OBVIOUS
<1>1. source \in Seq(Seq(Seq(Seq(Nat))))
  BY CopyAssumption DEF CopyInit
<1>2. 0 <= Len(source)
  <2> DEFINE V == Seq(Seq(Seq(Nat)))
  <2> HIDE DEF V
  <2>1. source \in Seq(V)
    BY <1>1 DEF V
  <2> QED
    BY <2>1
<1>3. SunkText(source, 0) = <<>>
  BY DEF SunkText, FlattenSeq
<1>4. Free /\ holding \in [Workers -> {None, taken}]
  BY DEF CopyInit, Free
<1>5. copy \in {"refused", "sinking"} /\ (copy # "refused" => PdfCopyBind(options))
  BY DEF CopyInit
<1> QED
  BY <1>2, <1>3, <1>4, <1>5 DEF CopyInit, CopyInv, Free

\* Every step of a worker, and the last one, keeps the invariant.
LEMMA CopyStep == CopyInv /\ [CopyNext]_copyVars => CopyInv'
<1> SUFFICES ASSUME CopyInv, [CopyNext]_copyVars PROVE CopyInv'
  OBVIOUS
<1> USE DEF CopyInv
<1>1. source \in Seq(Seq(Seq(Seq(Nat))))
  BY CopyAssumption
<1>2. None # taken /\ taken \in Nat
  BY CopyAssumption
<1>3. Len(source) \in Nat
  <2> DEFINE V == Seq(Seq(Seq(Nat)))
  <2> HIDE DEF V
  <2>1. source \in Seq(V)
    BY <1>1 DEF V
  <2> QED
    BY <2>1
<1>4. ASSUME NEW w \in Workers, TakeChunk(w)
      PROVE  CopyInv'
  <2>1. Free
    BY <1>4 DEF TakeChunk, PdfCopyExecutionMode, Free
  <2>2. taken' = taken + 1 /\ taken < Len(source) /\ copy = "sinking" /\ UNCHANGED <<source, options, copy, buffer, pages>>
    BY <1>4 DEF TakeChunk
  <2>3. holding' = [holding EXCEPT ![w] = taken + 1]
    BY <1>4 DEF TakeChunk
  <2>4. holding \in [Workers -> {None}]
    BY <2>1 DEF Free
  <2>5. holding' \in [Workers -> {None, taken'}] /\ holding'[w] = taken' /\ \A v \in Workers : v # w => holding'[v] = None
    BY <2>2, <2>3, <2>4
  <2>6. taken' # None /\ taken' \in Nat /\ taken' <= Len(source) /\ taken' # 0
    BY <1>2, <1>3, <2>2, CopyAssumption
  <2>7. ~Free'
    BY <2>5, <2>6 DEF Free
  <2>8. buffer = SunkText(source, taken) /\ taken' - 1 = taken
    BY <1>2, <2>1, <2>2
  <2>9. \A u, v \in Workers : holding'[u] # None /\ holding'[v] # None => u = v
    BY <2>5
  <2> QED
    BY <2>2, <2>5, <2>6, <2>7, <2>8, <2>9
<1>5. ASSUME NEW w \in Workers, PdfCopySink(w)
      PROVE  CopyInv'
  <2>1. holding[w] # None /\ holding[w] = taken /\ taken # 0
    BY <1>5 DEF PdfCopySink, Free
  <2>2. ~Free
    BY <2>1 DEF Free
  <2>3. buffer' = buffer \o ChunkText(source[taken]) /\ UNCHANGED <<source, options, copy, taken, pages>>
    BY <1>5, <2>1 DEF PdfCopySink
  <2>4. holding' = [holding EXCEPT ![w] = None]
    BY <1>5 DEF PdfCopySink
  <2>5. \A v \in Workers : holding'[v] = None
    BY <2>1, <2>4
  <2>6. Free' /\ holding' \in [Workers -> {None, taken}]
    BY <2>4, <2>5 DEF Free
  <2>7. taken - 1 \in Nat /\ (taken - 1) + 1 = taken
    BY <1>2, <2>1
  <2>8. SunkText(source, taken) = SunkText(source, taken - 1) \o ChunkText(source[taken])
    <3>1. (taken - 1) + 1 <= Len(source)
      BY <2>7
    <3>2. SunkText(source, (taken - 1) + 1) = SunkText(source, taken - 1) \o ChunkText(source[(taken - 1) + 1])
      BY <1>1, <2>7, <3>1, SunkMore
    <3> QED
      BY <2>7, <3>2
  <2>9. buffer' = SunkText(source, taken)
    BY <2>2, <2>3, <2>8
  <2> QED
    BY <2>2, <2>3, <2>5, <2>6, <2>9
<1>6. CASE PdfCopyFinalize
  <2>1. Free /\ copy = "sinking" /\ taken = Len(source) /\ copy' = "rendered" /\ pages' = RenderTextToPdf(buffer, options)
    BY <1>6 DEF PdfCopyFinalize, Free
  <2>2. UNCHANGED <<source, options, taken, holding, buffer>>
    BY <1>6 DEF PdfCopyFinalize
  <2>3. Free'
    BY <2>1, <2>2 DEF Free
  <2> QED
    BY <2>1, <2>2, <2>3
<1>7. CASE UNCHANGED copyVars
  <2>1. UNCHANGED <<source, options, copy, taken, holding, buffer, pages>>
    BY <1>7 DEF copyVars
  <2>2. Free' <=> Free
    BY <2>1 DEF Free
  <2> QED
    BY <2>1, <2>2
<1> QED
  BY <1>4, <1>5, <1>6, <1>7 DEF CopyNext

\* The invariant says more than that the text is in order.
LEMMA CopyOrdered == CopyInv => TextInOrder
<1> SUFFICES ASSUME CopyInv, copy = "rendered" PROVE TextInOrder
  BY DEF TextInOrder
<1> DEFINE o == options
           max == TextWidth(o)
           drawn == FlattenSeq([k \in DOMAIN pages |-> pages[k].lines])
           rows == FlattenSeq(source)
           words == Picked(FlattenSeq(FlattenSeq(rows)), Nat \ {LineFeed})
<1>1. source \in Seq(Seq(Seq(Seq(Nat)))) /\ Printable(o)
  BY CopyAssumption DEF CopyInv, Printable
<1>2. buffer = SunkText(source, Len(source)) /\ pages = RenderTextToPdf(buffer, o)
  BY DEF CopyInv
<1>3. /\ buffer \in Seq(Nat)
      /\ Picked(buffer, Words) = words
      /\ Len(Picked(buffer, {LineFeed})) >= Len(rows)
  BY <1>1, <1>2, SunkIs DEF Words
<1> HIDE DEF o
<1>4. PICK wrapped \in Seq(Narrow(max)) :
        /\ PagesRight(Narrow(max), o, pages, wrapped)
        /\ FlattenSeq(wrapped) = Picked(buffer, Words)
        /\ Len(wrapped) >= Len(Picked(buffer, {LineFeed}))
  BY <1>1, <1>2, <1>3, RenderIs
<1>5. drawn = wrapped
  BY <1>4 DEF PagesRight, BodiesOf
<1> HIDE DEF drawn, words, rows
<1>6. FlattenSeq(drawn) = words
  BY <1>3, <1>4, <1>5
<1>7. Len(rows) \in Nat /\ Len(wrapped) \in Nat /\ Len(Picked(buffer, {LineFeed})) \in Nat
  <2>1. rows \in Seq(Seq(Seq(Nat)))
    BY <1>1, FlattenTyped DEF rows
  <2>2. Picked(buffer, {LineFeed}) \in Seq(Nat)
    BY <1>3, PickedTyped
  <2> DEFINE Y == Seq(Seq(Nat))
             N == Narrow(max)
             feeds == Picked(buffer, {LineFeed})
  <2> HIDE DEF Y, N, feeds
  <2>3. rows \in Seq(Y) /\ wrapped \in Seq(N) /\ feeds \in Seq(Nat)
    BY <1>4, <2>1, <2>2 DEF Y, N, feeds
  <2>4. Len(rows) \in Nat /\ Len(wrapped) \in Nat /\ Len(feeds) \in Nat
    BY <2>3
  <2> QED
    BY <2>4 DEF feeds
<1>8. Len(drawn) >= Len(rows)
  BY <1>3, <1>4, <1>5, <1>7
<1>9. \A i \in DOMAIN drawn : Len(drawn[i]) > 1 => Width(drawn[i]) <= max
  <2> DEFINE N == Narrow(max)
  <2> HIDE DEF N
  <2>1. \A i \in DOMAIN drawn : drawn[i] \in N
    BY <1>4, <1>5 DEF N
  <2> QED
    BY <2>1 DEF N, Narrow
<1>10. /\ pages # <<>> /\ DOMAIN pages = 1..Len(pages)
       /\ \A k \in DOMAIN pages :
            /\ Len(pages[k].lines) <= Capacity(o)
            /\ k < Len(pages) => Len(pages[k].lines) = Capacity(o)
            /\ pages[k].header = o.header
            /\ pages[k].footer = IF o.footer THEN k ELSE 0
  BY <1>4 DEF PagesRight
<1> QED
  BY <1>6, <1>8, <1>9, <1>10 DEF TextInOrder, o, drawn, rows, words

\* COPY writes the words of the query in the order of its rows, on pages that are
\* full, numbered and within their margins, whatever the workers do and whatever the
\* chunks and the options are (PdfCopySink, RenderTextToPdf).
THEOREM CopyCorrect == CopySpec => []TextInOrder
<1>1. CopyInit => CopyInv
  BY CopyStart
<1>2. CopyInv /\ [CopyNext]_copyVars => CopyInv'
  BY CopyStep
<1>3. CopyInv => TextInOrder
  BY CopyOrdered
<1> QED
  BY <1>1, <1>2, <1>3, PTL DEF CopySpec
=============================================================================
