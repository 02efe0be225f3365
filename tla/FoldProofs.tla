----------------------------- MODULE FoldProofs -----------------------------
(***************************************************************************)
(* What FoldLeft computes, for every operator and every sequence: nothing  *)
(* folds to the base, and one element more is one operation more; and what *)
(* FlattenSeq does.  The operators that run once for each event of a       *)
(* sequence, or for each character of a text, are such folds; a proof      *)
(* module instantiates this one for each of them.                          *)
(*                                                                         *)
(* FoldLeft is a recursive function over sets of indices.  That there is   *)
(* one is shown by induction over the length, which here is membership in  *)
(* a set that has 0 and, with each number, the next; for such a set the    *)
(* least number that it does not have is a contradiction.                  *)
(***************************************************************************)
EXTENDS Integers, SequencesExt, SequenceTheorems, FiniteSetTheorems, WellFoundedInduction, TLAPS

CONSTANT op(_, _)      \* what an element does to what is folded so far

-----------------------------------------------------------------------------
(* Induction.                                                               *)

\* Every set of natural numbers that is not empty has a least one.
LEMMA LeastNat ==
    ASSUME NEW T \in SUBSET Nat, T # {}
    PROVE  \E n \in T : \A m \in T : n <= m
<1> DEFINE U == {0 .. n : n \in T}
           R == StrictSubsetOrdering(Nat)
<1>1. U \subseteq FiniteSubsetsOf(Nat)
  <2> SUFFICES ASSUME NEW n \in T PROVE 0 .. n \in SUBSET Nat /\ IsFiniteSet(0 .. n)
    BY DEF FiniteSubsetsOf
  <2>1. QED
    BY FS_Interval
<1>2. IsWellFoundedOn(R, FiniteSubsetsOf(Nat))
  BY FS_StrictSubsetOrderingWellFounded
<1>3. U # {}
  OBVIOUS
<1>4. PICK x \in U : \A y \in U : ~(<<y, x>> \in R)
  BY <1>1, <1>2, <1>3, WFMin
<1>5. PICK n \in T : x = 0 .. n
  OBVIOUS
<1>6. ASSUME NEW m \in T, m < n PROVE FALSE
  <2>1. 0 .. m \in U /\ 0 .. m \in SUBSET Nat /\ 0 .. n \in SUBSET Nat
    OBVIOUS
  <2>2. 0 .. m \subseteq 0 .. n /\ n \in 0 .. n /\ n \notin 0 .. m
    BY <1>6
  <2>3. <<0 .. m, x>> \in R
    BY <1>5, <2>1, <2>2 DEF StrictSubsetOrdering
  <2>4. QED
    BY <1>4, <2>1, <2>3
<1>7. QED
  BY <1>6

\* A set with 0 and with the successor of each number has all of them.
LEMMA NatSetInduction ==
    ASSUME NEW T, 0 \in T, \A n \in Nat : n \in T => n + 1 \in T
    PROVE  Nat \subseteq T
<1> SUFFICES ASSUME Nat \ T # {} PROVE FALSE
  OBVIOUS
<1>1. PICK n \in Nat \ T : \A m \in Nat \ T : n <= m
  BY LeastNat
<1>2. n # 0
  OBVIOUS
<1>3. n - 1 \in Nat /\ n - 1 \in T
  BY <1>1, <1>2
<1>4. QED
  BY <1>1, <1>3

\* A set with the empty sequence and with each of its sequences and an
\* element more has all of them.
LEMMA SeqSetInduction ==
    ASSUME NEW S, NEW T, <<>> \in T, \A s \in Seq(S), e \in S : s \in T => Append(s, e) \in T
    PROVE  Seq(S) \subseteq T
<1> DEFINE N == {n \in Nat : \A s \in Seq(S) : Len(s) = n => s \in T}
<1>1. 0 \in N
  <2>1. ASSUME NEW s \in Seq(S), Len(s) = 0 PROVE s \in T
    <3>1. s = <<>>
      BY <2>1
    <3>2. QED
      BY <3>1
  <2>2. QED
    BY <2>1
<1>2. ASSUME NEW n \in Nat, n \in N PROVE n + 1 \in N
  <2>1. ASSUME NEW s \in Seq(S), Len(s) = n + 1 PROVE s \in T
    <3>1. PICK r, e : r = SubSeq(s, 1, n) /\ e = s[n + 1]
      OBVIOUS
    <3>2. r \in Seq(S) /\ Len(r) = n /\ e \in S /\ \A i \in 1 .. n : r[i] = s[i]
      BY <2>1, <3>1
    <3>3. PICK t : t = Append(r, e)
      OBVIOUS
    <3>4. t \in Seq(S) /\ Len(t) = n + 1 /\ t[n + 1] = e /\ \A i \in 1 .. n : t[i] = r[i]
      BY <3>2, <3>3
    <3>5. \A i \in 1 .. n + 1 : t[i] = s[i]
      BY <3>1, <3>2, <3>4
    <3>6. t = s
      BY <2>1, <3>4, <3>5, SeqEqual
    <3>7. r \in T
      BY <1>2, <3>2
    <3>8. QED
      BY <3>2, <3>3, <3>6, <3>7
  <2>2. QED
    BY <2>1
<1> HIDE DEF N
<1>3. Nat \subseteq N
  BY <1>1, <1>2, NatSetInduction
<1>4. QED
  BY <1>3, LenProperties DEF N

-----------------------------------------------------------------------------
(* The recursive function of FoldLeft: what each set of indices folds to.   *)
Folded(base, s) == FoldLeft(op, base, s)

IsFold(g, base, s, n) ==
    g = [t \in SUBSET (1 .. n) |-> IF t = {} THEN base ELSE op(g[t \ {Max(t)}], s[Max(t)])]

\* The largest of some indices is one of them.
LEMMA MaxIn ==
    ASSUME NEW n \in Nat, NEW t \in SUBSET (1 .. n), t # {}
    PROVE  Max(t) \in t /\ \A y \in t : Max(t) >= y
<1> DEFINE T == {m \in Nat : \A y \in t : m >= y}
<1>1. n \in T
  OBVIOUS
<1>2. PICK m \in T : \A k \in T : m <= k
  <2>1. T # {} /\ T \in SUBSET Nat
    BY <1>1
  <2>2. QED
    BY <2>1, LeastNat
<1>3. m \in t
  <2> SUFFICES ASSUME m \notin t PROVE FALSE
    OBVIOUS
  <2>1. \A y \in t : y \in Nat /\ m > y /\ y >= 1
    BY <1>2
  <2>2. \A y \in t : m - 1 >= y
    BY <2>1
  <2>3. PICK y : y \in t
    OBVIOUS
  <2>4. m - 1 \in Nat
    BY <2>1, <2>3
  <2>5. QED
    BY <1>2, <2>2, <2>4
<1>4. \E x \in t : \A y \in t : x >= y
  BY <1>2, <1>3
<1>5. QED
  BY <1>4 DEF Max

\* The last index is the largest.
LEMMA MaxUpTo == ASSUME NEW n \in Nat PROVE Max(1 .. n + 1) = n + 1
<1>1. PICK t : t = 1 .. n + 1
  OBVIOUS
<1>2. t \in SUBSET (1 .. n + 1) /\ n + 1 \in Nat /\ n + 1 \in t /\ t # {}
  BY <1>1
<1>3. Max(t) \in t /\ \A y \in t : Max(t) >= y
  BY <1>2, MaxIn
<1>4. Max(t) \in 1 .. n + 1 /\ Max(t) >= n + 1
  BY <1>1, <1>2, <1>3
<1>5. QED
  BY <1>1, <1>4

\* There is such a function, for every number of indices.
LEMMA FoldExists == ASSUME NEW base, NEW s, NEW N \in Nat PROVE \E g : IsFold(g, base, s, N)
<1> DEFINE T == {n \in Nat : \E g : IsFold(g, base, s, n)}
<1>1. 0 \in T
  <2>1. \A t \in SUBSET (1 .. 0) : t = {}
    OBVIOUS
  <2>2. IsFold([t \in SUBSET (1 .. 0) |-> base], base, s, 0)
    BY <2>1 DEF IsFold
  <2>3. QED
    BY <2>2
<1>2. ASSUME NEW n \in Nat, n \in T PROVE n + 1 \in T
  <2>1. PICK g : IsFold(g, base, s, n)
    BY <1>2
  <2> DEFINE h == [t \in SUBSET (1 .. n + 1) |->
                     IF n + 1 \in t THEN op(g[t \ {n + 1}], s[n + 1]) ELSE g[t]]
  <2>2. ASSUME NEW t \in SUBSET (1 .. n + 1)
        PROVE  h[t] = IF t = {} THEN base ELSE op(h[t \ {Max(t)}], s[Max(t)])
    <3>1. CASE n + 1 \in t
      <4>1. Max(t) = n + 1
        <5>1. t # {} /\ n + 1 \in Nat
          BY <3>1
        <5>2. Max(t) \in t /\ \A y \in t : Max(t) >= y
          BY <5>1, MaxIn
        <5>3. Max(t) \in 1 .. n + 1 /\ Max(t) >= n + 1
          BY <3>1, <5>2
        <5>4. QED
          BY <5>3
      <4>2. t \ {n + 1} \in SUBSET (1 .. n + 1) /\ n + 1 \notin t \ {n + 1}
        OBVIOUS
      <4>3. h[t \ {n + 1}] = g[t \ {n + 1}]
        BY <4>2
      <4>4. QED
        BY <3>1, <4>1, <4>3
    <3>2. CASE n + 1 \notin t
      <4>1. t \in SUBSET (1 .. n)
        BY <3>2
      <4>2. h[t] = g[t]
        BY <3>2
      <4>3. g[t] = IF t = {} THEN base ELSE op(g[t \ {Max(t)}], s[Max(t)])
        BY <2>1, <4>1 DEF IsFold
      <4>4. h[t \ {Max(t)}] = g[t \ {Max(t)}]
        BY <3>2
      <4>5. QED
        BY <4>2, <4>3, <4>4
    <3>3. QED
      BY <3>1, <3>2
  <2>3. h = [t \in SUBSET (1 .. n + 1) |-> h[t]]
    OBVIOUS
  <2> HIDE DEF h
  <2>4. IsFold(h, base, s, n + 1)
    BY <2>2, <2>3 DEF IsFold
  <2>5. QED
    BY <2>4
<1> HIDE DEF T
<1>3. Nat \subseteq T
  BY <1>1, <1>2, NatSetInduction
<1>4. QED
  BY <1>3 DEF T

\* The fold of the first k + 1 elements.
LEMMA FoldStep ==
    ASSUME NEW base, NEW s, NEW N \in Nat, NEW g, IsFold(g, base, s, N)
    PROVE  \A k \in Nat : k + 1 <= N => g[1 .. k + 1] = op(g[1 .. k], s[k + 1])
<1> SUFFICES ASSUME NEW k \in Nat, k + 1 <= N PROVE g[1 .. k + 1] = op(g[1 .. k], s[k + 1])
  OBVIOUS
<1>1. PICK t : t = 1 .. k + 1
  OBVIOUS
<1>2. t \in SUBSET (1 .. N)
  BY <1>1
<1>3. t # {} /\ Max(t) = k + 1
  <2>1. k + 1 \in t
    BY <1>1
  <2>2. QED
    BY <1>1, <2>1, MaxUpTo
<1>4. t \ {k + 1} = 1 .. k
  BY <1>1
<1>5. g[t] = IF t = {} THEN base ELSE op(g[t \ {Max(t)}], s[Max(t)])
  BY <1>2 DEF IsFold
<1>6. g[t] = op(g[t \ {k + 1}], s[k + 1])
  BY <1>3, <1>5
<1>7. QED
  BY <1>1, <1>4, <1>6

\* The fold of nothing.
LEMMA FoldZero == ASSUME NEW base, NEW s, NEW N \in Nat, NEW g, IsFold(g, base, s, N) PROVE g[1 .. 0] = base
<1>1. {} \in SUBSET (1 .. N) /\ 1 .. 0 = {}
  OBVIOUS
<1>2. QED
  BY <1>1 DEF IsFold

\* Where two sequences are the same, so are their folds.
LEMMA FoldUnique ==
    ASSUME NEW base, NEW r, NEW s, NEW M \in Nat, NEW N \in Nat, NEW g, NEW h,
           IsFold(g, base, r, M), IsFold(h, base, s, N), NEW n \in 0 .. M, n <= N,
           \A i \in 1 .. n : r[i] = s[i]
    PROVE  g[1 .. n] = h[1 .. n]
<1> DEFINE T == {k \in Nat : k <= n => g[1 .. k] = h[1 .. k]}
<1>1. 0 \in T
  <2>1. g[1 .. 0] = base /\ h[1 .. 0] = base
    BY FoldZero
  <2>2. QED
    BY <2>1
<1>2. ASSUME NEW k \in Nat, k \in T, k + 1 <= n PROVE g[1 .. k + 1] = h[1 .. k + 1]
  <2>1. k + 1 <= M /\ k + 1 <= N /\ k <= n /\ k + 1 \in 1 .. n
    BY <1>2
  <2>2. g[1 .. k + 1] = op(g[1 .. k], r[k + 1])
    BY <2>1, FoldStep
  <2>3. h[1 .. k + 1] = op(h[1 .. k], s[k + 1])
    BY <2>1, FoldStep
  <2>4. g[1 .. k] = h[1 .. k]
    BY <1>2, <2>1
  <2>5. r[k + 1] = s[k + 1]
    BY <2>1
  <2>6. QED
    BY <2>2, <2>3, <2>4, <2>5
<1>3. \A k \in Nat : k \in T => k + 1 \in T
  BY <1>2
<1> HIDE DEF T
<1>4. Nat \subseteq T
  BY <1>1, <1>3, NatSetInduction
<1>5. n \in T
  BY <1>4
<1>6. QED
  BY <1>5 DEF T

\* FoldLeft is the value of this function at all indices.
LEMMA FoldIs ==
    ASSUME NEW base, NEW s, NEW n \in Nat, DOMAIN s = 1 .. n
    PROVE  \E g : IsFold(g, base, s, n) /\ Folded(base, s) = g[1 .. n]
<1> DEFINE G == CHOOSE g : g = [t \in SUBSET (1 .. n) |-> IF t = {} THEN base ELSE op(g[t \ {Max(t)}], s[Max(t)])]
<1>1. Folded(base, s) = G[1 .. n]
  BY DEF Folded, FoldLeft, MapThenFoldSet
<1>2. \E g : g = [t \in SUBSET (1 .. n) |-> IF t = {} THEN base ELSE op(g[t \ {Max(t)}], s[Max(t)])]
  <2>1. PICK g : IsFold(g, base, s, n)
    BY FoldExists
  <2>2. QED
    BY <2>1 DEF IsFold
<1>3. G = [t \in SUBSET (1 .. n) |-> IF t = {} THEN base ELSE op(G[t \ {Max(t)}], s[Max(t)])]
  BY <1>2
<1> HIDE DEF G
<1>4. IsFold(G, base, s, n)
  BY <1>3 DEF IsFold
<1>5. QED
  BY <1>1, <1>4

-----------------------------------------------------------------------------
(* The theorems.                                                            *)

\* Nothing folds to the base.
THEOREM FoldEmpty == ASSUME NEW base PROVE Folded(base, <<>>) = base
<1>1. PICK g : IsFold(g, base, <<>>, 0) /\ Folded(base, <<>>) = g[1 .. 0]
  BY FoldIs
<1>2. QED
  BY <1>1, FoldZero

\* One element more is one operation more, on what the others fold to.
THEOREM FoldAppend ==
    ASSUME NEW base, NEW S, NEW s \in Seq(S), NEW e
    PROVE  Folded(base, Append(s, e)) = op(Folded(base, s), e)
<1>1. PICK n \in Nat : n = Len(s) /\ DOMAIN s = 1 .. n
  OBVIOUS
<1>2. PICK t : t = Append(s, e)
  OBVIOUS
<1>3. DOMAIN t = 1 .. n + 1 /\ t[n + 1] = e /\ \A i \in 1 .. n : t[i] = s[i]
  BY <1>1, <1>2
<1>4. PICK N \in Nat : N = n + 1 /\ n \in 0 .. n /\ n <= N /\ n + 1 <= N
  <2>1. n + 1 \in Nat
    OBVIOUS
  <2>2. QED
    BY <2>1
<1>5. PICK g : IsFold(g, base, s, n) /\ Folded(base, s) = g[1 .. n]
  BY <1>1, FoldIs
<1>6. PICK h : IsFold(h, base, t, N) /\ Folded(base, t) = h[1 .. N]
  BY <1>3, <1>4, FoldIs
<1>7. IsFold(g, base, s, n) /\ IsFold(h, base, t, N)
  BY <1>5, <1>6
<1>8. g[1 .. n] = h[1 .. n]
  <2>1. \A i \in 1 .. n : s[i] = t[i]
    BY <1>3
  <2>2. QED
    BY <1>4, <1>7, <2>1, FoldUnique
<1>9. h[1 .. n + 1] = op(h[1 .. n], t[n + 1])
  <2>1. \A k \in Nat : k + 1 <= N => h[1 .. k + 1] = op(h[1 .. k], t[k + 1])
    BY <1>7, FoldStep
  <2>2. QED
    BY <1>4, <2>1
<1>10. QED
  BY <1>2, <1>3, <1>4, <1>5, <1>6, <1>8, <1>9

-----------------------------------------------------------------------------
(* FlattenSeq: a recursive function over the indices.                       *)
IsFlat(g, s, n) == g = [i \in 1 .. n |-> IF i = 1 THEN s[i] ELSE g[i - 1] \o s[i]]

\* There is such a function for every number of indices.
LEMMA FlatExists == ASSUME NEW s, NEW N \in Nat PROVE \E g : IsFlat(g, s, N)
<1> DEFINE T == {n \in Nat : \E g : IsFlat(g, s, n)}
<1>1. 0 \in T
  <2>1. IsFlat([i \in 1 .. 0 |-> 0], s, 0)
    BY DEF IsFlat
  <2>2. QED
    BY <2>1
<1>2. ASSUME NEW n \in Nat, n \in T PROVE n + 1 \in T
  <2>1. PICK g : IsFlat(g, s, n)
    BY <1>2
  <2> DEFINE value(i) == IF i = 1 THEN s[i] ELSE g[i - 1] \o s[i]
             h == [i \in 1 .. n + 1 |-> value(i)]
  <2>2. ASSUME NEW i \in 1 .. n PROVE h[i] = g[i]
    <3>1. i \in 1 .. n + 1
      OBVIOUS
    <3>2. h[i] = value(i)
      BY <3>1
    <3>3. g[i] = value(i)
      BY <2>1 DEF IsFlat
    <3>4. QED
      BY <3>2, <3>3
  <2>3. ASSUME NEW i \in 1 .. n + 1 PROVE h[i] = IF i = 1 THEN s[i] ELSE h[i - 1] \o s[i]
    <3>1. CASE i = 1
      BY <3>1
    <3>2. CASE i # 1
      <4>1. i - 1 \in 1 .. n
        BY <3>2
      <4>2. h[i - 1] = g[i - 1]
        BY <2>2, <4>1
      <4>3. QED
        BY <3>2, <4>2
    <3>3. QED
      BY <3>1, <3>2
  <2>4. h = [i \in 1 .. n + 1 |-> h[i]]
    OBVIOUS
  <2> HIDE DEF h
  <2>5. IsFlat(h, s, n + 1)
    BY <2>3, <2>4 DEF IsFlat
  <2>6. QED
    BY <2>5
<1> HIDE DEF T
<1>3. Nat \subseteq T
  BY <1>1, <1>2, NatSetInduction
<1>4. QED
  BY <1>3 DEF T

Same(r, s, n) == \A i \in 1 .. n : r[i] = s[i]

\* Where two sequences are the same, so are their functions.
LEMMA FlatUnique ==
    ASSUME NEW r, NEW s, NEW M \in Nat, NEW N \in Nat, NEW g, NEW h, IsFlat(g, r, M), IsFlat(h, s, N),
           NEW n \in Nat, n <= M, n <= N, Same(r, s, n)
    PROVE  Same(g, h, n)
<1> DEFINE T == {k \in Nat : k \in 1 .. n => g[k] = h[k]}
<1>1. 0 \in T
  OBVIOUS
<1>2. ASSUME NEW k \in Nat, k \in T PROVE k + 1 \in T
  <2>1. SUFFICES ASSUME k + 1 \in 1 .. n PROVE g[k + 1] = h[k + 1]
    OBVIOUS
  <2>2. PICK i : i = k + 1 /\ i \in 1 .. n /\ i \in 1 .. M /\ i \in 1 .. N /\ i - 1 = k
    BY <2>1
  <2>3. g[i] = (IF i = 1 THEN r[i] ELSE g[k] \o r[i]) /\ h[i] = IF i = 1 THEN s[i] ELSE h[k] \o s[i]
    BY <2>2 DEF IsFlat
  <2>4. i # 1 => g[k] = h[k]
    BY <1>2, <2>2
  <2>5. QED
    BY <2>2, <2>3, <2>4 DEF Same
<1> HIDE DEF T
<1>3. Nat \subseteq T
  BY <1>1, <1>2, NatSetInduction
<1>4. QED
  BY <1>3 DEF T, Same

\* FlattenSeq is the value of this function at the last index.
LEMMA FlatIs ==
    ASSUME NEW S, NEW s \in Seq(S), s # <<>>
    PROVE  \E g : IsFlat(g, s, Len(s)) /\ FlattenSeq(s) = g[Len(s)]
<1> DEFINE G == CHOOSE g : g = [i \in 1 .. Len(s) |-> IF i = 1 THEN s[i] ELSE g[i - 1] \o s[i]]
<1>1. Len(s) \in Nat /\ Len(s) # 0
  OBVIOUS
<1>2. FlattenSeq(s) = G[Len(s)]
  BY <1>1 DEF FlattenSeq
<1>3. \E g : g = [i \in 1 .. Len(s) |-> IF i = 1 THEN s[i] ELSE g[i - 1] \o s[i]]
  <2>1. PICK g : IsFlat(g, s, Len(s))
    BY <1>1, FlatExists
  <2>2. QED
    BY <2>1 DEF IsFlat
<1>4. G = [i \in 1 .. Len(s) |-> IF i = 1 THEN s[i] ELSE G[i - 1] \o s[i]]
  BY <1>3
<1> HIDE DEF G
<1>5. IsFlat(G, s, Len(s))
  BY <1>4 DEF IsFlat
<1>6. QED
  BY <1>2, <1>5

\* No parts, no elements.
LEMMA FlattenNone == FlattenSeq(<<>>) = <<>>
BY DEF FlattenSeq

\* A part more comes after the others.
LEMMA FlattenOneMore ==
    ASSUME NEW S, NEW s \in Seq(Seq(S)), NEW e \in Seq(S)
    PROVE  FlattenSeq(Append(s, e)) = FlattenSeq(s) \o e
<1>0. Len(s) \in Nat
  BY LenProperties
<1>1. PICK t, n : t = Append(s, e) /\ n = Len(s)
  OBVIOUS
<1>2. PICK N \in Nat : N = n + 1 /\ n <= N /\ n <= n /\ n \in Nat
  <2>1. n \in Nat /\ n + 1 \in Nat
    BY <1>0, <1>1
  <2>2. QED
    BY <2>1
<1>3. /\ t \in Seq(Seq(S)) /\ t # <<>> /\ Len(t) = N /\ t[N] = e
      /\ \A i \in 1 .. n : s[i] = t[i]
  BY <1>1, <1>2
<1>4. PICK h : IsFlat(h, t, N) /\ FlattenSeq(t) = h[N]
  BY <1>3, FlatIs
<1>5. h[N] = IF N = 1 THEN e ELSE h[n] \o e
  <2>1. N \in 1 .. N /\ N - 1 = n
    BY <1>2
  <2>2. QED
    BY <1>3, <1>4, <2>1 DEF IsFlat
<1>6. CASE s = <<>>
  <2>1. N = 1
    BY <1>1, <1>2, <1>6
  <2>2. FlattenSeq(s) \o e = e
    BY <1>6, FlattenNone
  <2>3. QED
    BY <1>1, <1>4, <1>5, <2>1, <2>2
<1>7. CASE s # <<>>
  <2>1. N # 1 /\ n \in 1 .. n
    BY <1>1, <1>2, <1>7
  <2>2. PICK g : IsFlat(g, s, n) /\ FlattenSeq(s) = g[n]
    BY <1>1, <1>7, FlatIs
  <2>3. IsFlat(g, s, n) /\ IsFlat(h, t, N)
    BY <1>4, <2>2
  <2>4. Same(s, t, n) => Same(g, h, n)
    BY <1>2, <2>3, FlatUnique
  <2>5. g[n] = h[n]
    BY <1>3, <2>1, <2>4 DEF Same
  <2>6. QED
    BY <1>1, <1>4, <1>5, <2>1, <2>2, <2>5
<1>8. QED
  BY <1>6, <1>7

\* The elements of the parts are those of the whole.
LEMMA FlattenInSeq == ASSUME NEW S, NEW s \in Seq(Seq(S)) PROVE FlattenSeq(s) \in Seq(S)
<1>1. CASE s = <<>>
  <2>1. FlattenSeq(s) = <<>> /\ <<>> \in Seq(S)
    BY <1>1, FlattenNone
  <2>2. QED
    BY <2>1
<1>2. CASE s # <<>>
  <2>0. Len(s) \in Nat /\ Len(s) # 0
    BY <1>2
  <2>1. PICK n, g : n \in Nat /\ n = Len(s) /\ n # 0 /\ IsFlat(g, s, n) /\ FlattenSeq(s) = g[n]
    <3>1. PICK g : IsFlat(g, s, Len(s)) /\ FlattenSeq(s) = g[Len(s)]
      BY <1>2, FlatIs
    <3>2. QED
      BY <2>0, <3>1
  <2> DEFINE T == {k \in Nat : k \in 1 .. n => g[k] \in Seq(S)}
  <2>2. 0 \in T
    OBVIOUS
  <2>3. ASSUME NEW k \in Nat, k \in T PROVE k + 1 \in T
    <3>1. SUFFICES ASSUME k + 1 \in 1 .. n PROVE g[k + 1] \in Seq(S)
      OBVIOUS
    <3>2. PICK i : i = k + 1 /\ i \in 1 .. n /\ i - 1 = k
      BY <3>1
    <3>3. g[i] = IF i = 1 THEN s[i] ELSE g[k] \o s[i]
      BY <2>1, <3>2 DEF IsFlat
    <3>4. s[i] \in Seq(S) /\ (i # 1 => g[k] \in Seq(S))
      BY <2>1, <2>3, <3>2
    <3>5. QED
      BY <3>2, <3>3, <3>4
  <2> HIDE DEF T
  <2>4. Nat \subseteq T
    BY <2>2, <2>3, NatSetInduction
  <2>5. QED
    BY <2>1, <2>4 DEF T
<1>3. QED
  BY <1>1, <1>2
=============================================================================
