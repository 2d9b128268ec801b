-------------------------- MODULE SequenceLemmas --------------------------
(***************************************************************************)
(* Induction over the naturals, and what it gives for FlattenSeq.           *)
(*                                                                          *)
(* The library's induction theorems take the induction hypothesis as an     *)
(* operator.  Here it is a set, the numbers that have the property, so that *)
(* the provers can instantiate it: a set of numbers that is not empty has a *)
(* least element because < is well founded.                                 *)
(***************************************************************************)
EXTENDS Integers, SequencesExt, WellFoundedInduction, SequenceTheorems, TLAPS

\* A set of natural numbers that is not empty has a least element.
LEMMA LeastNumber ==
  ASSUME NEW T, T \subseteq Nat, T # {}
  PROVE  \E x \in T : \A y \in T : x <= y
<1> DEFINE R == OpToRel(<, Nat)
<1>1. IsWellFoundedOn(R, Nat)
  BY NatLessThanWellFounded
<1>2. \A x, y \in Nat : y < x => <<y, x>> \in R
  BY DEF R, OpToRel
<1> HIDE DEF R
<1>3. PICK x \in T : \A y \in T : ~(<<y, x>> \in R)
  BY <1>1, WFMin
<1>4. \A y \in T : x <= y
  <2> SUFFICES ASSUME NEW y \in T
               PROVE  x <= y
    OBVIOUS
  <2>1. x \in Nat /\ y \in Nat /\ ~(y < x)
    BY <1>2, <1>3
  <2> QED
    BY <2>1
<1> QED
  BY <1>4

\* Induction: a set with 0 and with every successor has every number.
LEMMA SetInduction ==
  ASSUME NEW S, 0 \in S, \A n \in Nat : n \in S => n + 1 \in S
  PROVE  \A n \in Nat : n \in S
<1> SUFFICES ASSUME Nat \ S # {}
             PROVE  FALSE
  OBVIOUS
<1>1. PICK x \in Nat \ S : \A y \in Nat \ S : x <= y
  BY LeastNumber
<1>2. x - 1 \in Nat /\ (x - 1) + 1 = x
  OBVIOUS
<1>3. x - 1 \in S
  BY <1>1, <1>2
<1> QED
  BY <1>2, <1>3

-----------------------------------------------------------------------------
\* The partial results of FlattenSeq on the first n sequences.
IsFlat(f, seqs, n) == f = [i \in 1 .. n |-> IF i = 1 THEN seqs[i] ELSE f[i - 1] \o seqs[i]]

\* The recursion of FlattenSeq has a solution.
LEMMA FlatExists ==
  ASSUME NEW seqs
  PROVE  \A n \in Nat : \E f : IsFlat(f, seqs, n)
<1> DEFINE S == {n \in Nat : \E f : IsFlat(f, seqs, n)}
<1>1. 0 \in S
  <2>1. IsFlat([i \in 1 .. 0 |-> 0], seqs, 0)
    BY DEF IsFlat
  <2> QED
    BY <2>1
<1>2. ASSUME NEW n \in Nat, n \in S
      PROVE  n + 1 \in S
  <2>1. PICK f : IsFlat(f, seqs, n)
    BY <1>2
  <2> DEFINE g == [i \in 1 .. n + 1 |-> IF i = 1 THEN seqs[i] ELSE f[i - 1] \o seqs[i]]
  <2>2. \A i \in 1 .. n : g[i] = f[i]
    <3>1. \A i \in 1 .. n : f[i] = IF i = 1 THEN seqs[i] ELSE f[i - 1] \o seqs[i]
      BY <2>1, Zenon DEF IsFlat
    <3> HIDE <2>1
    <3>2. \A i \in 1 .. n : i \in 1 .. n + 1
      OBVIOUS
    <3> QED
      BY <3>1, <3>2
  <2>3. g = [i \in 1 .. n + 1 |-> IF i = 1 THEN seqs[i] ELSE g[i - 1] \o seqs[i]]
    <3>1. \A i \in 1 .. n + 1 : i # 1 => i - 1 \in 1 .. n
      OBVIOUS
    <3> HIDE DEF g
    <3>2. \A i \in 1 .. n + 1 : i # 1 => g[i - 1] = f[i - 1]
      BY <2>2, <3>1
    <3> QED
      BY <3>2 DEF g
  <2> HIDE DEF g
  <2>4. IsFlat(g, seqs, n + 1)
    BY <2>3 DEF IsFlat
  <2> QED
    BY <2>4
<1> HIDE DEF S
<1>3. \A n \in Nat : n \in S
  BY <1>1, <1>2, SetInduction
<1> QED
  BY <1>3 DEF S

\* FlattenSeq is the last partial result.
LEMMA FlatUnfold ==
  ASSUME NEW seqs, Len(seqs) \in Nat, Len(seqs) # 0
  PROVE  \E f : IsFlat(f, seqs, Len(seqs)) /\ FlattenSeq(seqs) = f[Len(seqs)]
<1> DEFINE n == Len(seqs)
           F == CHOOSE f : f = [i \in 1 .. n |->
                                   IF i = 1 THEN seqs[i] ELSE f[i - 1] \o seqs[i]]
<1>1. \E f : f = [i \in 1 .. n |-> IF i = 1 THEN seqs[i] ELSE f[i - 1] \o seqs[i]]
  BY FlatExists DEF IsFlat
<1>2. IsFlat(F, seqs, n)
  BY <1>1 DEF IsFlat
<1>3. FlattenSeq(seqs) = F[n]
  BY DEF FlattenSeq
<1> QED
  BY <1>2, <1>3

\* Flattening nothing.
LEMMA FlattenEmpty ==
  ASSUME NEW S, NEW ss \in Seq(S), Len(ss) = 0
  PROVE  FlattenSeq(ss) = <<>>
<1>1. ss = <<>>
  OBVIOUS
<1> QED
  BY <1>1, Zenon DEF FlattenSeq

\* A sequence appended to a sequence of sequences is flattened last.
LEMMA FlattenAppend ==
  ASSUME NEW S, NEW ss \in Seq(Seq(S)), NEW s \in Seq(S)
  PROVE  FlattenSeq(Append(ss, s)) = FlattenSeq(ss) \o s
<1> DEFINE n == Len(ss)
           tt == Append(ss, s)
<1>1. /\ n \in Nat /\ tt \in Seq(Seq(S)) /\ Len(tt) = n + 1 /\ tt[n + 1] = s
      /\ \A i \in 1 .. n : tt[i] = ss[i]
  OBVIOUS
<1>2. PICK f : IsFlat(f, tt, n + 1) /\ FlattenSeq(tt) = f[n + 1]
  <2>1. Len(tt) \in Nat /\ Len(tt) # 0
    BY <1>1
  <2> HIDE DEF tt
  <2> QED
    BY <1>1, <2>1, FlatUnfold
<1> HIDE DEF tt, n
<1>3. \A i \in 1 .. n + 1 : f[i] = IF i = 1 THEN tt[i] ELSE f[i - 1] \o tt[i]
  BY <1>2, Zenon DEF IsFlat
<1>4. CASE n = 0
  <2>1. FlattenSeq(ss) = <<>>
    BY <1>4, FlattenEmpty DEF n
  <2>2. f[1] = tt[1]
    BY <1>3, <1>4
  <2>3. FlattenSeq(tt) = s
    BY <1>1, <1>2, <2>2, <1>4
  <2> QED
    BY <2>1, <2>3 DEF tt
<1>5. CASE n # 0
  <2>1. PICK g : IsFlat(g, ss, n) /\ FlattenSeq(ss) = g[n]
    BY <1>1, <1>5, FlatUnfold DEF n
  <2>2. \A i \in 1 .. n : g[i] = IF i = 1 THEN ss[i] ELSE g[i - 1] \o ss[i]
    BY <2>1, Zenon DEF IsFlat
  <2> DEFINE T == {i \in Nat : i \in 1 .. n => f[i] = g[i]}
  <2>3. 0 \in T
    OBVIOUS
  <2>4. ASSUME NEW i \in Nat, i \in T
        PROVE  i + 1 \in T
    <3> SUFFICES ASSUME i + 1 \in 1 .. n
                 PROVE  f[i + 1] = g[i + 1]
      OBVIOUS
    <3>1. CASE i = 0
      BY <3>1, <1>1, <1>3, <2>2
    <3>2. CASE i # 0
      <4>1. /\ i \in 1 .. n /\ f[i] = g[i] /\ (i + 1) - 1 = i
            /\ i + 1 # 1 /\ i + 1 \in 1 .. n + 1
        BY <3>2, <2>4, <1>1
      <4> QED
        BY <4>1, <1>1, <1>3, <2>2
    <3> QED
      BY <3>1, <3>2
  <2> HIDE DEF T
  <2>5. \A i \in Nat : i \in T
    BY <2>3, <2>4, SetInduction
  <2>6. f[n] = g[n]
    BY <1>1, <1>5, <2>5 DEF T
  <2>7. f[n + 1] = f[n] \o tt[n + 1]
    <3>1. n + 1 \in 1 .. n + 1 /\ n + 1 # 1 /\ (n + 1) - 1 = n
      BY <1>1, <1>5
    <3> QED
      BY <3>1, <1>3
  <2> QED
    BY <1>1, <1>2, <2>1, <2>6, <2>7 DEF tt
<1> QED
  BY <1>4, <1>5

\* Flattening sequences over S gives a sequence over S.
LEMMA FlattenType ==
  ASSUME NEW S, NEW ss \in Seq(Seq(S))
  PROVE  FlattenSeq(ss) \in Seq(S)
<1> DEFINE n == Len(ss)
<1>1. n \in Nat /\ \A i \in 1 .. n : ss[i] \in Seq(S)
  OBVIOUS
<1> HIDE DEF n
<1>2. CASE n = 0
  <2>1. FlattenSeq(ss) = <<>>
    BY <1>2, FlattenEmpty DEF n
  <2> QED
    BY <2>1
<1>3. CASE n # 0
  <2>1. PICK g : IsFlat(g, ss, n) /\ FlattenSeq(ss) = g[n]
    BY <1>1, <1>3, FlatUnfold DEF n
  <2>2. \A i \in 1 .. n : g[i] = IF i = 1 THEN ss[i] ELSE g[i - 1] \o ss[i]
    BY <2>1, Zenon DEF IsFlat
  <2> DEFINE T == {i \in Nat : i \in 1 .. n => g[i] \in Seq(S)}
  <2>3. 0 \in T
    OBVIOUS
  <2>4. ASSUME NEW i \in Nat, i \in T
        PROVE  i + 1 \in T
    <3> SUFFICES ASSUME i + 1 \in 1 .. n
                 PROVE  g[i + 1] \in Seq(S)
      OBVIOUS
    <3>1. CASE i = 0
      BY <3>1, <1>1, <2>2
    <3>2. CASE i # 0
      <4>1. i \in 1 .. n /\ g[i] \in Seq(S) /\ (i + 1) - 1 = i /\ i + 1 # 1
        BY <3>2, <2>4, <1>1
      <4>2. g[i + 1] = g[i] \o ss[i + 1]
        BY <4>1, <2>2
      <4> QED
        BY <4>1, <4>2, <1>1
    <3> QED
      BY <3>1, <3>2
  <2> HIDE DEF T
  <2>5. \A i \in Nat : i \in T
    BY <2>3, <2>4, SetInduction
  <2> QED
    BY <1>1, <1>3, <2>1, <2>5 DEF T
<1> QED
  BY <1>2, <1>3

\* The first n values of a function on the naturals, flattened.
FirstFlat(g, n) == FlattenSeq([k \in 1 .. n |-> g[k]])

\* One more value is flattened last.
LEMMA FirstFlatStep ==
  ASSUME NEW S, NEW g \in [Nat -> Seq(S)], NEW n \in Nat
  PROVE  /\ FirstFlat(g, n) \in Seq(S)
         /\ FirstFlat(g, n + 1) = FirstFlat(g, n) \o g[n + 1]
         /\ FirstFlat(g, 0) = <<>>
<1> DEFINE ss(m) == [k \in 1 .. m |-> g[k]]
<1>1. \A k \in Nat : g[k] \in Seq(S)
  OBVIOUS
<1>2. \A m \in Nat : ss(m) \in Seq(Seq(S)) /\ Len(ss(m)) = m
  <2> SUFFICES ASSUME NEW m \in Nat
               PROVE  ss(m) \in Seq(Seq(S)) /\ Len(ss(m)) = m
    OBVIOUS
  <2>1. \A k \in 1 .. m : g[k] \in Seq(S)
    BY <1>1
  <2> QED
    BY <2>1
<1>3. ss(n + 1) = Append(ss(n), g[n + 1])
  <2>1. ss(n) \in Seq(Seq(S)) /\ Len(ss(n)) = n
    BY <1>2
  <2>2. g[n + 1] \in Seq(S)
    BY <1>1
  <2>3. ss(n + 1) \in Seq(Seq(S)) /\ Len(ss(n + 1)) = n + 1
    BY <1>2
  <2>4. \A k \in 1 .. n : ss(n)[k] = g[k]
    OBVIOUS
  <2>5. \A k \in 1 .. n + 1 : ss(n + 1)[k] = g[k]
    OBVIOUS
  <2> HIDE DEF ss
  <2>6. /\ Append(ss(n), g[n + 1]) \in Seq(Seq(S))
        /\ Len(Append(ss(n), g[n + 1])) = n + 1
        /\ \A k \in 1 .. n : Append(ss(n), g[n + 1])[k] = g[k]
        /\ Append(ss(n), g[n + 1])[n + 1] = g[n + 1]
    BY <2>1, <2>2, <2>4, AppendProperties
  <2>7. \A k \in 1 .. n + 1 : ss(n + 1)[k] = Append(ss(n), g[n + 1])[k]
    <3>1. \A k \in 1 .. n + 1 : k \in 1 .. n \/ k = n + 1
      OBVIOUS
    <3> QED
      BY <2>5, <2>6, <3>1
  <2> QED
    BY <2>3, <2>6, <2>7, SeqEqual
<1> HIDE DEF ss
<1>4. FlattenSeq(ss(n + 1)) = FlattenSeq(ss(n)) \o g[n + 1]
  <2>1. ss(n) \in Seq(Seq(S)) /\ g[n + 1] \in Seq(S)
    BY <1>1, <1>2
  <2> QED
    BY <1>3, <2>1, FlattenAppend
<1>5. FlattenSeq(ss(n)) \in Seq(S) /\ FlattenSeq(ss(0)) = <<>>
  BY <1>2, FlattenType, FlattenEmpty
<1> QED
  BY <1>4, <1>5 DEF ss, FirstFlat

-----------------------------------------------------------------------------
\* The smaller of two numbers, as ReadBytes uses it.
LEMMA MinOfTwo ==
  ASSUME NEW a \in Int, NEW b \in Int
  PROVE  Min({a, b}) = IF a <= b THEN a ELSE b
<1>1. \E x \in {a, b} : \A y \in {a, b} : x <= y
  OBVIOUS
<1>2. Min({a, b}) \in {a, b} /\ \A y \in {a, b} : Min({a, b}) <= y
  BY <1>1 DEF Min
<1> QED
  BY <1>2

\* A sequence is its first k elements and the rest.
LEMMA SplitAt ==
  ASSUME NEW S, NEW s \in Seq(S), NEW k \in 0 .. Len(s)
  PROVE  /\ SubSeq(s, 1, k) \in Seq(S) /\ Len(SubSeq(s, 1, k)) = k
         /\ SubSeq(s, k + 1, Len(s)) \in Seq(S)
         /\ Len(SubSeq(s, k + 1, Len(s))) = Len(s) - k
         /\ SubSeq(s, 1, k) \o SubSeq(s, k + 1, Len(s)) = s
<1>1. Len(s) \in Nat /\ k \in Nat /\ k <= Len(s) /\ \A i \in 1 .. Len(s) : s[i] \in S
  OBVIOUS
<1>2. SubSeq(s, 1, k) \in Seq(S) /\ Len(SubSeq(s, 1, k)) = k
  <2>1. \A i \in 1 .. k : s[i] \in S
    BY <1>1
  <2> QED
    BY <1>1, <2>1, SubSeqProperties
<1>3. /\ SubSeq(s, k + 1, Len(s)) \in Seq(S)
      /\ Len(SubSeq(s, k + 1, Len(s))) = Len(s) - k
  <2>1. \A i \in k + 1 .. Len(s) : s[i] \in S
    BY <1>1
  <2> QED
    BY <1>1, <2>1, SubSeqProperties
<1>4. SubSeq(s, 1, k) \o SubSeq(s, k + 1, Len(s)) = SubSeq(s, 1, Len(s))
  <2>1. 1 \in 1 .. Len(s) + 1 /\ k \in 1 - 1 .. Len(s) /\ Len(s) \in k .. Len(s)
    BY <1>1
  <2> QED
    BY <2>1, ConcatAdjacentSubSeq
<1> QED
  BY <1>2, <1>3, <1>4, SubSeqFull

-----------------------------------------------------------------------------
\* Induction over sequences, with a set of sequences for the hypothesis.
LEMMA SequenceInduction ==
  ASSUME NEW S, NEW P, <<>> \in P,
         \A s \in Seq(S), e \in S : s \in P => Append(s, e) \in P
  PROVE  \A s \in Seq(S) : s \in P
<1> SUFFICES ASSUME NEW s \in Seq(S)
             PROVE  s \in P
  OBVIOUS
<1> DEFINE T == {n \in Nat : n <= Len(s) => SubSeq(s, 1, n) \in P}
<1>1. 0 \in T
  <2>1. SubSeq(s, 1, 0) = <<>>
    BY SubSeqEmpty
  <2> QED
    BY <2>1
<1>2. ASSUME NEW n \in Nat, n \in T
      PROVE  n + 1 \in T
  <2> SUFFICES ASSUME n + 1 <= Len(s)
               PROVE  SubSeq(s, 1, n + 1) \in P
    OBVIOUS
  <2>1. n \in 0 .. Len(s) /\ n + 1 \in 1 .. Len(s) /\ 1 \in 1 .. Len(s) /\ (n + 1) - 1 = n
    OBVIOUS
  <2>2. SubSeq(s, 1, n) \in Seq(S) /\ SubSeq(s, 1, n) \in P /\ s[n + 1] \in S
    BY <1>2, <2>1, SplitAt
  <2>3. SubSeq(s, 1, n + 1) = SubSeq(s, 1, n) \o <<s[n + 1]>>
    BY <2>1, SubSeqRecursiveSecond
  <2>4. SubSeq(s, 1, n + 1) = Append(SubSeq(s, 1, n), s[n + 1])
    BY <2>2, <2>3, AppendIsConcat
  <2> QED
    BY <2>2, <2>4
<1> HIDE DEF T
<1>3. \A n \in Nat : n \in T
  BY <1>1, <1>2, SetInduction
<1>4. Len(s) \in Nat /\ SubSeq(s, 1, Len(s)) = s
  BY SubSeqFull
<1>5. Len(s) \in T /\ Len(s) <= Len(s)
  BY <1>3, <1>4
<1>6. SubSeq(s, 1, Len(s)) \in P
  BY <1>5 DEF T
<1> QED
  BY <1>4, <1>6, Zenon

\* The elements of a sequence with one more.
LEMMA RangeAppend ==
  ASSUME NEW S, NEW s \in Seq(S), NEW e \in S
  PROVE  Range(Append(s, e)) = Range(s) \cup {e}
<1>1. Append(s, e) = s \o <<e>> /\ <<e>> \in Seq(S)
  BY AppendIsConcat
<1>2. Range(<<e>>) = {<<e>>[i] : i \in 1 .. Len(<<e>>)}
  BY <1>1, RangeEquality
<1>3. Range(<<e>>) = {e}
  BY <1>2
<1>4. Range(s \o <<e>>) = Range(s) \cup Range(<<e>>)
  BY <1>1, RangeConcatenation
<1> QED
  BY <1>1, <1>3, <1>4, Zenon

\* An empty sequence has no elements.
LEMMA RangeEmpty == Range(<<>>) = {}
  BY DEF Range
=============================================================================
