--------------------------- MODULE SequenceLemmas ---------------------------
(***************************************************************************)
(* Facts about numbers, finite sets and sequences that the proofs of       *)
(* several components need.  Induction is over a set of numbers: what is   *)
(* to be shown of every number is that it belongs to the set.              *)
(***************************************************************************)
EXTENDS Dealing, SequenceTheorems, FiniteSetTheorems, TLAPS

-----------------------------------------------------------------------------
\* Numbers.

\* A set of numbers has a least.
LEMMA LeastNat ==
  ASSUME NEW T \in SUBSET Nat, T # {}
  PROVE  \E m \in T : \A k \in T : m <= k
<1> DEFINE R == OpToRel(<, Nat)
<1>1. IsWellFoundedOn(R, Nat)
  BY NatLessThanWellFounded
<1> HIDE DEF R
<1>2. PICK m \in T : \A k \in T : <<k, m>> \notin R
  BY <1>1, WFMin, Zenon
<1>3. \A k \in T : ~(k < m)
  BY <1>2 DEF R, OpToRel
<1> QED
  BY <1>3

LEMMA MinOfNats ==
  ASSUME NEW T \in SUBSET Nat, T # {}
  PROVE  Min(T) \in T /\ \A k \in T : Min(T) <= k
BY LeastNat DEF Min

LEMMA MinOfTwo ==
  ASSUME NEW a \in Nat, NEW b \in Nat
  PROVE  Min({a, b}) = IF a <= b THEN a ELSE b
BY DEF Min

LEMMA MaxOfTwo ==
  ASSUME NEW a \in Nat, NEW b \in Nat
  PROVE  Max({a, b}) = IF a >= b THEN a ELSE b
BY DEF Max

\* Induction from 1 to n.
LEMMA UpTo ==
  ASSUME NEW n \in Nat, NEW T,
         1 \in T, \A i \in 1 .. n - 1 : i \in T => i + 1 \in T
  PROVE  \A i \in 1 .. n : i \in T
<1> DEFINE Bad == {i \in 1 .. n : i \notin T}
<1> SUFFICES ASSUME Bad # {} PROVE FALSE
  OBVIOUS
<1>1. Bad \in SUBSET Nat
  OBVIOUS
<1>2. PICK m \in Bad : \A k \in Bad : m <= k
  BY <1>1, LeastNat
<1>3. m \in 1 .. n /\ m \notin T /\ m # 1
  BY <1>2
<1>4. m - 1 \in 1 .. n - 1 /\ m - 1 \in 1 .. n /\ ~(m <= m - 1)
  BY <1>3
<1>5. m - 1 \in T
  BY <1>2, <1>4
<1>6. m - 1 + 1 = m
  BY <1>3
<1> QED
  BY <1>3, <1>4, <1>5, <1>6

-----------------------------------------------------------------------------
\* Sets and sequences.

\* SetToSeq lists every element of a finite set once.
LEMMA SetToSeqLists ==
  ASSUME NEW S, IsFiniteSet(S)
  PROVE  /\ SetToSeq(S) \in Seq(S)
         /\ Len(SetToSeq(S)) = Cardinality(S)
         /\ \A i, j \in 1 .. Cardinality(S) :
              SetToSeq(S)[i] = SetToSeq(S)[j] => i = j
         /\ \A x \in S : \E i \in 1 .. Cardinality(S) : SetToSeq(S)[i] = x
<1> DEFINE n == Cardinality(S)
<1>1. n \in Nat /\ ExistsBijection(1 .. n, S)
  BY FS_CardinalityType
<1>2. PICK f \in [1 .. n -> S] : IsInjective(f)
  BY <1>1 DEF ExistsBijection, Bijection, Injection
<1>3. SetToSeq(S) \in [1 .. n -> S] /\ IsInjective(SetToSeq(S))
  BY <1>2 DEF SetToSeq
<1> DEFINE g == SetToSeq(S)
<1>4. g \in Injection(1 .. n, S)
  BY <1>3 DEF Injection, IsInjective
<1>5. IsFiniteSet(1 .. n) /\ Cardinality(1 .. n) = n
  BY <1>1, FS_Interval
<1>6. g \in Surjection(1 .. n, S)
  BY <1>4, <1>5, FS_Injection
<1> HIDE DEF g, n
<1>7. g \in Seq(S) /\ Len(g) = n
  BY <1>1, <1>3 DEF g
<1> QED
  BY <1>3, <1>6, <1>7 DEF Surjection, IsInjective, g, n

LEMMA RemoveAtProperties ==
  ASSUME NEW S, NEW s \in Seq(S), NEW i \in 1 .. Len(s)
  PROVE  /\ RemoveAt(s, i) \in Seq(S)
         /\ Len(RemoveAt(s, i)) = Len(s) - 1
         /\ \A j \in 1 .. Len(s) - 1 :
              RemoveAt(s, i)[j] = IF j < i THEN s[j] ELSE s[j + 1]
<1> DEFINE before == SubSeq(s, 1, i - 1)
           after == SubSeq(s, i + 1, Len(s))
<1>1. Len(s) \in Nat /\ \A j \in 1 .. Len(s) : s[j] \in S
  OBVIOUS
<1>2. /\ before \in Seq(S) /\ Len(before) = i - 1
      /\ \A j \in 1 .. i - 1 : before[j] = s[j]
  <2>1. 1 \in Int /\ i - 1 \in Int /\ \A j \in 1 .. i - 1 : s[j] \in S
    BY <1>1
  <2> QED
    BY <2>1, SubSeqProperties
<1>3. /\ after \in Seq(S) /\ Len(after) = Len(s) - i
      /\ \A j \in 1 .. Len(s) - i : after[j] = s[i + j]
  <2>1. i + 1 \in Int /\ Len(s) \in Int /\ \A j \in i + 1 .. Len(s) : s[j] \in S
    BY <1>1
  <2>2. /\ after \in Seq(S)
        /\ Len(after) = IF i + 1 <= Len(s) THEN Len(s) - (i + 1) + 1 ELSE 0
        /\ \A j \in 1 .. Len(s) - (i + 1) + 1 : after[j] = s[i + 1 + j - 1]
    BY <2>1, SubSeqProperties
  <2> QED
    BY <1>1, <2>2
<1> HIDE DEF before, after
<1>4. /\ before \o after \in Seq(S)
      /\ Len(before \o after) = Len(before) + Len(after)
      /\ \A j \in 1 .. Len(before) + Len(after) :
           (before \o after)[j] =
             IF j <= Len(before) THEN before[j] ELSE after[j - Len(before)]
  BY <1>2, <1>3, ConcatProperties
<1>5. RemoveAt(s, i) = before \o after
  BY DEF RemoveAt, before, after
<1>6. Len(before) = i - 1 /\ Len(before) + Len(after) = Len(s) - 1
  BY <1>1, <1>2, <1>3
<1>7. ASSUME NEW j \in 1 .. Len(s) - 1
      PROVE  (before \o after)[j] = IF j < i THEN s[j] ELSE s[j + 1]
  <2>1. (before \o after)[j] = IF j <= i - 1 THEN before[j] ELSE after[j - (i - 1)]
    BY <1>4, <1>6
  <2>2. CASE j < i
    BY <1>1, <1>2, <2>1, <2>2
  <2>3. CASE ~(j < i)
    <3>1. j - (i - 1) \in 1 .. Len(s) - i /\ i + (j - (i - 1)) = j + 1
      BY <1>1, <2>3
    <3>2. after[j - (i - 1)] = s[j + 1]
      BY <1>3, <3>1
    <3> QED
      BY <1>1, <2>1, <2>3, <3>2
  <2> QED
    BY <2>2, <2>3
<1> QED
  BY <1>4, <1>5, <1>6, <1>7


-----------------------------------------------------------------------------
\* FlattenSeq.

Lists(s, n, S) == Len(s) = n /\ \A i \in 1 .. n : s[i] \in Seq(S)

\* The first of the sequences, the first two behind each other, and so on.
RunsUpTo(f, s, n) == f[1] = s[1] /\ \A i \in 2 .. n : f[i] = f[i - 1] \o s[i]

LEMMA RunGrows ==
  ASSUME NEW n \in Nat \ {0}, NEW s, NEW f, RunsUpTo(f, s, n), NEW i \in 1 .. n - 1
  PROVE  f[i + 1] = f[i] \o s[i + 1]
<1>1. i + 1 \in 2 .. n
  OBVIOUS
<1>2. f[i + 1] = f[(i + 1) - 1] \o s[i + 1]
  BY <1>1 DEF RunsUpTo
<1>3. (i + 1) - 1 = i
  OBVIOUS
<1> QED
  BY <1>2, <1>3

LEMMA RunsAreSeqs ==
  ASSUME NEW S, NEW n \in Nat \ {0}, NEW s, Lists(s, n, S), NEW f, RunsUpTo(f, s, n)
  PROVE  \A i \in 1 .. n : f[i] \in Seq(S)
<1> DEFINE T == {i \in 1 .. n : f[i] \in Seq(S)}
<1>1. 1 \in T
  BY DEF Lists, RunsUpTo
<1>2. ASSUME NEW i \in 1 .. n - 1, i \in T PROVE i + 1 \in T
  <2>1. i + 1 \in 1 .. n
    OBVIOUS
  <2>2. s[i + 1] \in Seq(S) /\ f[i] \in Seq(S)
    BY <1>2, <2>1 DEF Lists
  <2>3. f[i] \o s[i + 1] \in Seq(S)
    BY <2>2, ConcatProperties
  <2>4. f[i + 1] = f[i] \o s[i + 1]
    BY RunGrows, ZenonT(60)
  <2> QED
    BY <2>1, <2>3, <2>4
<1> HIDE DEF T
<1>3. \A i \in 1 .. n : i \in T
  BY <1>1, <1>2, UpTo
<1> QED
  BY <1>3 DEF T

\* FlattenSeq is the last of the prefixes.
LEMMA FlattenUnfolds ==
  ASSUME NEW S, NEW n \in Nat \ {0}, NEW s, Lists(s, n, S)
  PROVE  \E f : RunsUpTo(f, s, n) /\ FlattenSeq(s) = f[n]
<1> DEFINE T == {k \in 1 .. n : \E f : RunsUpTo(f, s, k)}
<1>1. 1 \in 1 .. n /\ n \in 1 .. n
  OBVIOUS
<1>2. 1 \in T
  <2> DEFINE f == [i \in 1 .. 1 |-> s[1]]
  <2>1. RunsUpTo(f, s, 1)
    BY DEF RunsUpTo
  <2> QED
    BY <1>1, <2>1
<1>3. ASSUME NEW k \in 1 .. n - 1, k \in T PROVE k + 1 \in T
  <2>1. PICK f : RunsUpTo(f, s, k)
    BY <1>3
  <2> DEFINE g == [i \in 1 .. k + 1 |-> IF i <= k THEN f[i] ELSE f[k] \o s[k + 1]]
  <2>2. \A i \in 1 .. k : g[i] = f[i]
    OBVIOUS
  <2>3. g[k + 1] = f[k] \o s[k + 1]
    <3>1. k + 1 \in 1 .. k + 1 /\ ~(k + 1 <= k)
      OBVIOUS
    <3> QED
      BY <3>1, Zenon
  <2> HIDE DEF g
  <2>4. g[1] = s[1]
    BY <2>1, <2>2 DEF RunsUpTo
  <2>5. ASSUME NEW i \in 2 .. k + 1 PROVE g[i] = g[i - 1] \o s[i]
    <3>1. CASE i <= k
      <4>1. i \in 2 .. k /\ i \in 1 .. k /\ i - 1 \in 1 .. k
        BY <3>1
      <4> QED
        BY <2>1, <2>2, <4>1 DEF RunsUpTo
    <3>2. CASE i = k + 1
      <4>1. i - 1 = k /\ k \in 1 .. k
        BY <3>2
      <4> QED
        BY <2>2, <2>3, <3>2, <4>1
    <3>3. i <= k \/ i = k + 1
      OBVIOUS
    <3> QED
      BY <3>1, <3>2, <3>3
  <2>6. RunsUpTo(g, s, k + 1)
    BY <2>4, <2>5 DEF RunsUpTo
  <2>7. k + 1 \in 1 .. n
    OBVIOUS
  <2> QED
    BY <2>6, <2>7
<1> HIDE DEF T
<1>4. n \in T
  BY <1>1, <1>2, <1>3, UpTo
<1>5. PICK f : RunsUpTo(f, s, n)
  BY <1>4 DEF T
<1> DEFINE def(f_) == [i \in 1 .. n |-> IF i = 1 THEN s[i] ELSE f_[i - 1] \o s[i]]
           g == [i \in 1 .. n |-> f[i]]
<1>6. g = def(g)
  <2>1. ASSUME NEW i \in 1 .. n PROVE f[i] = IF i = 1 THEN s[i] ELSE g[i - 1] \o s[i]
    <3>1. CASE i = 1
      BY <1>5, <3>1 DEF RunsUpTo
    <3>2. CASE i # 1
      <4>1. i \in 2 .. n /\ i - 1 \in 1 .. n
        BY <3>2
      <4>2. g[i - 1] = f[i - 1]
        BY <4>1
      <4> HIDE DEF g
      <4> QED
        BY <1>5, <3>2, <4>1, <4>2 DEF RunsUpTo
    <3> QED
      BY <3>1, <3>2
  <2> QED
    BY <2>1
<1>7. PICK h : h = def(h) /\ FlattenSeq(s) = h[n]
  <2>1. Len(s) = n /\ n # 0
    BY DEF Lists
  <2> HIDE DEF g
  <2> QED
    BY <1>6, <2>1 DEF FlattenSeq
<1>8. RunsUpTo(h, s, n)
  <2>1. \A i \in 1 .. n : h[i] = IF i = 1 THEN s[i] ELSE h[i - 1] \o s[i]
    BY <1>7
  <2>2. \A i \in 2 .. n : i \in 1 .. n /\ i # 1
    OBVIOUS
  <2> HIDE DEF def
  <2> QED
    BY <1>1, <2>1, <2>2 DEF RunsUpTo
<1> HIDE DEF def
<1> QED
  BY <1>7, <1>8

\* What is added to the end of one of the sequences, with only empty ones after
\* it, is added to the end of the whole.
GrowsAt(s, t, k, n, p) ==
  /\ \A i \in 1 .. k - 1 : t[i] = s[i]
  /\ t[k] = s[k] \o p
  /\ \A i \in k + 1 .. n : t[i] = <<>> /\ s[i] = <<>>

LEMMA FlattenGrows ==
  ASSUME NEW S, NEW n \in Nat \ {0}, NEW k \in 1 .. n, NEW p \in Seq(S),
         NEW s, Lists(s, n, S), NEW t, Lists(t, n, S), GrowsAt(s, t, k, n, p)
  PROVE  FlattenSeq(t) = FlattenSeq(s) \o p
<1>1. PICK f : RunsUpTo(f, s, n) /\ FlattenSeq(s) = f[n]
  BY FlattenUnfolds
<1>2. PICK g : RunsUpTo(g, t, n) /\ FlattenSeq(t) = g[n]
  BY FlattenUnfolds
<1>3. \A i \in 1 .. n : f[i] \in Seq(S) /\ s[i] \in Seq(S)
  BY <1>1, RunsAreSeqs DEF Lists
<1> DEFINE T == {i \in 1 .. n : g[i] = IF i < k THEN f[i] ELSE f[i] \o p}
<1>4. 1 \in T
  <2>1. 1 \in 1 .. n /\ g[1] = t[1] /\ f[1] = s[1]
    BY <1>1, <1>2 DEF RunsUpTo
  <2>2. t[1] = IF 1 < k THEN s[1] ELSE s[1] \o p
    <3>1. CASE k = 1
      <4>1. ~(1 < 1)
        OBVIOUS
      <4> QED
        BY <3>1, <4>1 DEF GrowsAt
    <3>2. CASE k # 1
      <4>1. 1 < k /\ 1 \in 1 .. k - 1
        BY <3>2
      <4> QED
        BY <4>1 DEF GrowsAt
    <3> QED
      BY <3>1, <3>2
  <2> QED
    BY <2>1, <2>2
<1>5. ASSUME NEW i \in 1 .. n - 1, i \in T PROVE i + 1 \in T
  <2>1. i + 1 \in 1 .. n /\ i \in 1 .. n
    OBVIOUS
  <2>2. /\ f[i + 1] = f[i] \o s[i + 1] /\ g[i + 1] = g[i] \o t[i + 1]
        /\ f[i] \in Seq(S) /\ f[i + 1] \in Seq(S) /\ s[i + 1] \in Seq(S)
    BY <1>1, <1>2, <1>3, <2>1, RunGrows, ZenonT(60)
  <2>3. CASE i + 1 < k
    <3>1. i + 1 \in 1 .. k - 1 /\ i < k
      BY <2>3
    <3>2. g[i] = f[i] /\ t[i + 1] = s[i + 1]
      BY <1>5, <3>1 DEF GrowsAt
    <3> QED
      BY <2>1, <2>2, <2>3, <3>2
  <2>4. CASE i + 1 = k
    <3>1. i < k /\ ~(i + 1 < k)
      BY <2>4
    <3>2. g[i] = f[i] /\ t[i + 1] = s[i + 1] \o p
      BY <1>5, <2>4, <3>1, Zenon DEF GrowsAt
    <3>3. f[i] \o (s[i + 1] \o p) = (f[i] \o s[i + 1]) \o p
      <4>1. \A a, b, c \in Seq(S) : (a \o b) \o c = a \o (b \o c)
        BY ConcatAssociative, SMTT(60)
      <4> QED
        BY <2>2, <4>1, ZenonT(60)
    <3>4. g[i + 1] = f[i + 1] \o p
      <4>1. f[i + 1] \o p = (f[i] \o s[i + 1]) \o p
        BY <2>2
      <4>2. g[i + 1] = f[i] \o (s[i + 1] \o p)
        BY <2>2, <3>2
      <4> QED
        BY <3>3, <4>1, <4>2
    <3> QED
      BY <2>1, <3>1, <3>4
  <2>5. CASE i + 1 > k
    <3>1. i + 1 \in k + 1 .. n /\ ~(i < k) /\ ~(i + 1 < k)
      BY <2>5
    <3>2. s[i + 1] = <<>> /\ t[i + 1] = <<>> /\ g[i] = f[i] \o p
      BY <1>5, <3>1 DEF GrowsAt
    <3>3. f[i] \o <<>> = f[i] /\ (f[i] \o p) \o <<>> = f[i] \o p
      BY <2>2, ConcatEmptySeq, ConcatProperties
    <3> QED
      BY <2>1, <2>2, <3>1, <3>2, <3>3
  <2> QED
    BY <2>3, <2>4, <2>5
<1>6. n \in 1 .. n /\ ~(n < k)
  OBVIOUS
<1> HIDE DEF T
<1>7. n \in T
  BY <1>4, <1>5, <1>6, UpTo
<1> QED
  BY <1>1, <1>2, <1>6, <1>7 DEF T

\* Where FlattenSeq puts the entries of the sequences: those of the i-th are
\* behind the first off[i] entries of the whole.
Listed(off, s, n, F) ==
  /\ \A i \in 1 .. n : off[i] \in Nat /\ Len(s[i]) \in Nat /\ off[i] + Len(s[i]) <= Len(F)
  /\ \A i, j \in 1 .. n : i < j => off[i] + Len(s[i]) <= off[j]
  /\ \A i \in 1 .. n : \A j \in 1 .. Len(s[i]) :
       off[i] + j \in 1 .. Len(F) /\ F[off[i] + j] = s[i][j]
  /\ \A a \in 1 .. Len(F) : \E i \in 1 .. n : \E j \in 1 .. Len(s[i]) : a = off[i] + j

LEMMA ListedGrows ==
  ASSUME NEW S, NEW k \in Nat \ {0}, NEW s, NEW off, NEW F \in Seq(S),
         Listed(off, s, k, F), s[k + 1] \in Seq(S), off[k + 1] = Len(F)
  PROVE  Listed(off, s, k + 1, F \o s[k + 1])
<1> DEFINE t == s[k + 1]
           G == F \o t
           m == Len(F)
           l == Len(t)
<1>1. /\ m \in Nat /\ l \in Nat /\ Len(G) = m + l
      /\ \A a \in 1 .. m + l : G[a] = IF a <= m THEN F[a] ELSE t[a - m]
  BY ConcatProperties
<1>2. \A i \in 1 .. k + 1 : i \in 1 .. k \/ i = k + 1
  OBVIOUS
<1>3. k + 1 \in 1 .. k + 1 /\ \A i \in 1 .. k : i \in 1 .. k + 1
  OBVIOUS
<1> HIDE DEF G, m, l
<1>4. /\ \A i \in 1 .. k : off[i] \in Nat /\ Len(s[i]) \in Nat /\ off[i] + Len(s[i]) <= m
      /\ \A i, j \in 1 .. k : i < j => off[i] + Len(s[i]) <= off[j]
      /\ \A i \in 1 .. k : \A j \in 1 .. Len(s[i]) :
           off[i] + j \in 1 .. m /\ F[off[i] + j] = s[i][j]
      /\ \A a \in 1 .. m : \E i \in 1 .. k : \E j \in 1 .. Len(s[i]) : a = off[i] + j
  BY DEF Listed, m
<1>5. ASSUME NEW i \in 1 .. k + 1
      PROVE  off[i] \in Nat /\ Len(s[i]) \in Nat /\ off[i] + Len(s[i]) <= m + l
  <2>1. CASE i \in 1 .. k
    BY <1>1, <1>4, <2>1
  <2>2. CASE i = k + 1
    BY <1>1, <2>2 DEF m, l
  <2> QED
    BY <1>2, <2>1, <2>2
<1>8. ASSUME NEW i \in 1 .. k + 1, NEW j \in 1 .. k + 1, i < j
      PROVE  off[i] + Len(s[i]) <= off[j]
  <2>1. i \in 1 .. k
    BY <1>8
  <2>2. CASE j \in 1 .. k
    BY <1>4, <1>8, <2>1, <2>2
  <2>3. CASE j = k + 1
    BY <1>4, <2>1, <2>3 DEF m
  <2> QED
    BY <1>2, <2>2, <2>3
<1>6. ASSUME NEW i \in 1 .. k + 1, NEW j \in 1 .. Len(s[i])
      PROVE  off[i] + j \in 1 .. m + l /\ G[off[i] + j] = s[i][j]
  <2>1. CASE i \in 1 .. k
    <3>1. off[i] + j \in 1 .. m /\ F[off[i] + j] = s[i][j]
      BY <1>4, <2>1
    <3>2. off[i] + j \in 1 .. m + l /\ off[i] + j <= m
      BY <1>1, <3>1
    <3> QED
      BY <1>1, <3>1, <3>2
  <2>2. CASE i = k + 1
    <3>1. j \in 1 .. l /\ off[i] = m
      BY <2>2 DEF l, m
    <3>2. m + j \in 1 .. m + l /\ ~(m + j <= m) /\ m + j - m = j
      BY <1>1, <3>1
    <3>3. G[m + j] = t[j]
      BY <1>1, <3>2
    <3> QED
      BY <2>2, <3>1, <3>2, <3>3
  <2> QED
    BY <1>2, <2>1, <2>2
<1>7. ASSUME NEW a \in 1 .. m + l
      PROVE  \E i \in 1 .. k + 1 : \E j \in 1 .. Len(s[i]) : a = off[i] + j
  <2>1. CASE a <= m
    <3>1. a \in 1 .. m
      BY <1>1, <2>1
    <3> QED
      BY <1>3, <1>4, <3>1
  <2>2. CASE ~(a <= m)
    <3>1. a - m \in 1 .. l /\ a = m + (a - m)
      BY <1>1, <2>2
    <3>2. a - m \in 1 .. Len(s[k + 1]) /\ a = off[k + 1] + (a - m)
      BY <3>1 DEF l, m
    <3> QED
      BY <1>3, <3>2
  <2> QED
    BY <2>1, <2>2
<1> QED
  BY <1>1, <1>5, <1>6, <1>7, <1>8, ZenonT(60) DEF Listed, G

LEMMA FlattenLists ==
  ASSUME NEW S, NEW n \in Nat \ {0}, NEW s, Lists(s, n, S)
  PROVE  FlattenSeq(s) \in Seq(S) /\ \E off : Listed(off, s, n, FlattenSeq(s))
<1>1. PICK f : RunsUpTo(f, s, n) /\ FlattenSeq(s) = f[n]
  BY FlattenUnfolds
<1>2. /\ 1 \in 1 .. n /\ n \in 1 .. n
      /\ \A i \in 1 .. n : f[i] \in Seq(S) /\ s[i] \in Seq(S)
  BY <1>1, RunsAreSeqs DEF Lists
<1> DEFINE off == [i \in 1 .. n |-> IF i = 1 THEN 0 ELSE Len(f[i - 1])]
           T == {k \in 1 .. n : Listed(off, s, k, f[k])}
<1>3. off[1] = 0
  BY <1>2
<1>4. \A k \in 1 .. n - 1 : off[k + 1] = Len(f[k])
  <2> TAKE k \in 1 .. n - 1
  <2>1. k + 1 \in 1 .. n /\ k + 1 # 1 /\ (k + 1) - 1 = k
    OBVIOUS
  <2>2. off[k + 1] = Len(f[(k + 1) - 1])
    BY <2>1, Zenon
  <2> QED
    BY <2>1, <2>2
<1> HIDE DEF off
<1>5. 1 \in T
  <2>1. f[1] = s[1]
    BY <1>1 DEF RunsUpTo
  <2>2. Listed(off, s, 1, s[1])
    <3>1. \A i \in 1 .. 1 : i = 1
      OBVIOUS
    <3>2. \A j \in 1 .. Len(s[1]) : 0 + j = j
      OBVIOUS
    <3>3. Len(s[1]) \in Nat /\ 0 + Len(s[1]) = Len(s[1]) /\ Len(s[1]) <= Len(s[1])
      BY <1>2
    <3>4. \A i, j \in 1 .. 1 : ~(i < j)
      OBVIOUS
    <3> QED
      BY <1>3, <3>1, <3>2, <3>3, <3>4 DEF Listed
  <2> QED
    BY <1>2, <2>1, <2>2
<1>6. ASSUME NEW k \in 1 .. n - 1, k \in T PROVE k + 1 \in T
  <2>1. k + 1 \in 1 .. n /\ k \in 1 .. n /\ k \in Nat \ {0}
    OBVIOUS
  <2>2. f[k + 1] = f[k] \o s[k + 1]
    BY <1>1, RunGrows, ZenonT(60)
  <2>3. Listed(off, s, k, f[k])
    BY <1>6
  <2>4. Listed(off, s, k + 1, f[k] \o s[k + 1])
    BY <1>2, <1>4, <2>1, <2>3, ListedGrows
  <2> QED
    BY <2>1, <2>2, <2>4
<1> HIDE DEF T
<1>7. n \in T
  BY <1>2, <1>5, <1>6, UpTo
<1> QED
  BY <1>1, <1>2, <1>7 DEF T

\* Nothing of the whole comes from two places.
LEMMA ListedOnce ==
  ASSUME NEW n \in Nat, NEW off, NEW s, NEW F, Listed(off, s, n, F),
         NEW a \in 1 .. n, NEW i \in 1 .. Len(s[a]),
         NEW b \in 1 .. n, NEW j \in 1 .. Len(s[b]), off[a] + i = off[b] + j
  PROVE  a = b /\ i = j
<1>1. /\ off[a] \in Nat /\ off[b] \in Nat /\ Len(s[a]) \in Nat /\ Len(s[b]) \in Nat
      /\ a < b => off[a] + Len(s[a]) <= off[b]
      /\ b < a => off[b] + Len(s[b]) <= off[a]
  BY DEF Listed
<1>2. i \in Nat /\ j \in Nat /\ 1 <= i /\ 1 <= j /\ i <= Len(s[a]) /\ j <= Len(s[b])
  BY <1>1
<1>3. ~(a < b) /\ ~(b < a)
  BY <1>1, <1>2, SMTT(60)
<1> QED
  BY <1>1, <1>2, <1>3

-----------------------------------------------------------------------------
\* SubSeqAt.

\* Every number of a finite set is the n-th for one n.
LEMMA NthEnumerates ==
  ASSUME NEW K \in SUBSET Nat, IsFiniteSet(K)
  PROVE  /\ Cardinality(K) \in Nat
         /\ \A n \in 1 .. Cardinality(K) : Nth(K, n) \in K
         /\ \A m, n \in 1 .. Cardinality(K) : m < n => Nth(K, m) < Nth(K, n)
         /\ \A i \in K : \E n \in 1 .. Cardinality(K) : Nth(K, n) = i
<1> DEFINE upTo(i) == {k \in K : k <= i}
           rank == [i \in K |-> Cardinality(upTo(i))]
           N == Cardinality(K)
<1>1. N \in Nat
  BY FS_CardinalityType
<1>2. \A i \in K : IsFiniteSet(upTo(i)) /\ Cardinality(upTo(i)) \in Nat
  <2> TAKE i \in K
  <2>1. upTo(i) \subseteq K
    OBVIOUS
  <2> QED
    BY <2>1, FS_Subset, FS_CardinalityType
<1>3. \A i \in K : rank[i] \in 1 .. N
  <2> TAKE i \in K
  <2>1. upTo(i) \subseteq K /\ i \in upTo(i)
    OBVIOUS
  <2>2. Cardinality(upTo(i)) <= N
    BY <2>1, FS_Subset
  <2>3. Cardinality(upTo(i)) # 0
    BY <1>2, <2>1, FS_EmptySet
  <2> HIDE DEF upTo
  <2> QED
    BY <1>1, <1>2, <2>2, <2>3
<1>4. \A i, j \in K : i < j => rank[i] < rank[j]
  <2> SUFFICES ASSUME NEW i \in K, NEW j \in K, i < j
               PROVE  Cardinality(upTo(i)) < Cardinality(upTo(j))
    OBVIOUS
  <2>1. upTo(i) \subseteq upTo(j)
    <3>1. \A k \in K : k <= i => k <= j
      OBVIOUS
    <3> QED
      BY <3>1, Zenon
  <2>2. j \in upTo(j) /\ j \notin upTo(i)
    <3>1. i \in Nat /\ j \in Nat /\ j <= j /\ ~(j <= i)
      OBVIOUS
    <3> QED
      BY <3>1, Zenon
  <2>3. /\ Cardinality(upTo(i)) <= Cardinality(upTo(j))
        /\ Cardinality(upTo(i)) = Cardinality(upTo(j)) => upTo(i) = upTo(j)
    BY <1>2, <2>1, FS_Subset
  <2>4. Cardinality(upTo(i)) # Cardinality(upTo(j))
    BY <2>2, <2>3
  <2> HIDE DEF upTo
  <2> QED
    BY <1>2, <2>3, <2>4
<1> HIDE DEF upTo
<1>5. \A i, j \in K : rank[i] = rank[j] => i = j
  <2> SUFFICES ASSUME NEW i \in K, NEW j \in K, rank[i] = rank[j], i # j PROVE FALSE
    OBVIOUS
  <2>1. i < j \/ j < i
    OBVIOUS
  <2>2. rank[i] < rank[j] \/ rank[j] < rank[i]
    BY <1>4, <2>1
  <2> HIDE DEF rank
  <2> QED
    BY <1>3, <2>2
<1>6. rank \in Injection(K, 1 .. N)
  <2>1. rank \in [K -> 1 .. N]
    BY <1>3
  <2> QED
    BY <1>5, <2>1 DEF Injection, IsInjective
<1>7. IsFiniteSet(1 .. N) /\ Cardinality(1 .. N) = N
  BY <1>1, FS_Interval
<1>8. rank \in Surjection(K, 1 .. N)
  <2> HIDE DEF rank
  <2> QED
    BY <1>6, <1>7, FS_Injection DEF N
<1>9. \A n \in 1 .. N : \E i \in K : rank[i] = n
  <2> HIDE DEF rank
  <2> QED
    BY <1>8 DEF Surjection
<1>10. \A n \in 1 .. N : Nth(K, n) \in K /\ rank[Nth(K, n)] = n
  <2> TAKE n \in 1 .. N
  <2>1. PICK i \in K : rank[i] = n
    BY <1>9
  <2>2. \A k \in K : rank[k] = Cardinality({l \in K : l <= k})
    BY DEF upTo
  <2> HIDE DEF rank
  <2> QED
    BY <2>1, <2>2 DEF Nth
<1> HIDE DEF rank
<1>11. \A i \in K : Nth(K, rank[i]) = i
  BY <1>3, <1>5, <1>10
<1>12. ASSUME NEW m \in 1 .. N, NEW n \in 1 .. N, m < n PROVE Nth(K, m) < Nth(K, n)
  <2> DEFINE a == Nth(K, m)
             b == Nth(K, n)
  <2>1. a \in K /\ b \in K /\ rank[a] = m /\ rank[b] = n
    BY <1>10
  <2> HIDE DEF a, b
  <2>2. a \in Nat /\ b \in Nat /\ ~(b < a) /\ a # b
    BY <1>4, <1>12, <2>1
  <2>3. a < b
    BY <2>2
  <2> QED
    BY <2>3 DEF a, b
<1> QED
  BY <1>1, <1>3, <1>10, <1>11, <1>12 DEF N

\* The subsequence holds what stands at those positions, once for each.
LEMMA SubSeqAtProperties ==
  ASSUME NEW S, NEW s \in Seq(S), NEW K \in SUBSET (1 .. Len(s))
  PROVE  /\ SubSeqAt(s, K) \in Seq(S)
         /\ \A n \in 1 .. Len(SubSeqAt(s, K)) :
              Nth(K, n) \in K /\ SubSeqAt(s, K)[n] = s[Nth(K, n)]
         /\ \A m, n \in 1 .. Len(SubSeqAt(s, K)) : Nth(K, m) = Nth(K, n) => m = n
         /\ \A i \in K : \E n \in 1 .. Len(SubSeqAt(s, K)) : Nth(K, n) = i
<1> DEFINE N == Cardinality(K)
           t == SubSeqAt(s, K)
<1>1. IsFiniteSet(K) /\ K \in SUBSET Nat
  <2>1. IsFiniteSet(1 .. Len(s)) /\ 1 .. Len(s) \subseteq Nat
    <3>1. 1 \in Int /\ Len(s) \in Int
      OBVIOUS
    <3> QED
      BY <3>1, FS_Interval
  <2> QED
    BY <2>1, FS_Subset
<1>2. /\ N \in Nat
      /\ \A n \in 1 .. N : Nth(K, n) \in K
      /\ \A m, n \in 1 .. N : m < n => Nth(K, m) < Nth(K, n)
      /\ \A i \in K : \E n \in 1 .. N : Nth(K, n) = i
  BY <1>1, NthEnumerates
<1> HIDE DEF N
<1>3. t = [n \in 1 .. N |-> s[Nth(K, n)]]
  BY DEF SubSeqAt, N
<1>4. \A n \in 1 .. N : s[Nth(K, n)] \in S
  <2>1. \A i \in 1 .. Len(s) : s[i] \in S
    OBVIOUS
  <2> QED
    BY <1>2, <2>1, Zenon
<1>5. t \in Seq(S) /\ Len(t) = N
  <2>1. t \in [1 .. N -> S]
    BY <1>3, <1>4
  <2> HIDE DEF t
  <2> QED
    BY <1>2, <2>1
<1>6. ASSUME NEW m \in 1 .. N, NEW n \in 1 .. N, Nth(K, m) = Nth(K, n) PROVE m = n
  <2>1. Nth(K, m) \in Nat /\ Nth(K, n) \in Nat
    BY <1>1, <1>2
  <2>2. ~(m < n) /\ ~(n < m)
    BY <1>2, <1>6, <2>1
  <2> QED
    BY <2>2
<1>7. \A n \in 1 .. N : t[n] = s[Nth(K, n)]
  BY <1>3
<1> HIDE DEF t
<1> QED
  BY <1>2, <1>5, <1>6, <1>7 DEF t

-----------------------------------------------------------------------------
\* Dealing.

LEMMA TimesIsMonotonic ==
  ASSUME NEW a \in Nat, NEW b \in Nat, NEW d \in Nat, a <= b
  PROVE  a * d \in Nat /\ b * d \in Nat /\ a * d <= b * d
OBVIOUS

LEMMA DivIsNat ==
  ASSUME NEW b \in Nat, NEW d \in Nat \ {0}
  PROVE  b \div d \in Nat
OBVIOUS

\* CeilDiv rounds up: it is the number of multiples of d below a.
LEMMA CeilDivCounts ==
  ASSUME NEW a \in Nat, NEW d \in Nat \ {0}
  PROVE  /\ CeilDiv(a, d) \in Nat
         /\ \A k \in Nat : k < CeilDiv(a, d) <=> k * d < a
<1> DEFINE x == a + d - 1
           q == CeilDiv(a, d)
           r == x % d
<1>1. x \in Nat /\ q = x \div d
  BY DEF CeilDiv
<1>2. q \in Nat /\ r \in 0 .. d - 1 /\ x = d * q + r
  <2> HIDE DEF x, q
  <2> QED
    BY <1>1
<1> HIDE DEF r, q
<1>3. x = q * d + r
  <2>1. d * q = q * d
    BY <1>2
  <2> QED
    BY <1>2, <2>1
<1>4. ASSUME NEW k \in Nat PROVE k < q <=> k * d < a
  <2>1. CASE k < q
    <3>1. (k + 1) * d <= q * d /\ (k + 1) * d \in Nat /\ q * d \in Nat
      BY <1>2, <2>1, TimesIsMonotonic
    <3>2. (k + 1) * d = k * d + d /\ k * d \in Nat
      OBVIOUS
    <3> QED
      BY <1>2, <1>3, <2>1, <3>1, <3>2
  <2>2. CASE ~(k < q)
    <3>1. q * d <= k * d /\ k * d \in Nat /\ q * d \in Nat
      BY <1>2, <2>2, TimesIsMonotonic
    <3> QED
      BY <1>2, <1>3, <2>2, <3>1
  <2> QED
    BY <2>1, <2>2
<1> QED
  BY <1>2, <1>4 DEF q

\* What is in a sequence after its first m entries, up to the e-th.
LEMMA Slice ==
  ASSUME NEW S, NEW s \in Seq(S), NEW m \in Nat, NEW e \in 0 .. Len(s)
  PROVE  /\ SubSeq(s, m + 1, e) \in Seq(S)
         /\ Len(SubSeq(s, m + 1, e)) = IF m <= e THEN e - m ELSE 0
         /\ \A i \in 1 .. e - m : SubSeq(s, m + 1, e)[i] = s[m + i]
<1> DEFINE n == Len(s)
           t == SubSeq(s, m + 1, e)
<1>1. n \in Nat /\ \A i \in 1 .. n : s[i] \in S
  OBVIOUS
<1>2. m + 1 \in Int /\ e \in Int /\ \A i \in m + 1 .. e : s[i] \in S
  BY <1>1
<1>3. /\ t \in Seq(S) /\ Len(t) = IF m + 1 <= e THEN e - (m + 1) + 1 ELSE 0
      /\ \A i \in 1 .. e - (m + 1) + 1 : t[i] = s[m + 1 + i - 1]
  BY <1>2, SubSeqProperties
<1> HIDE DEF t
<1>4. Len(t) = IF m <= e THEN e - m ELSE 0
  BY <1>3
<1>5. ASSUME NEW i \in 1 .. e - m PROVE t[i] = s[m + i]
  <2>1. i \in 1 .. e - (m + 1) + 1 /\ m + 1 + i - 1 = m + i
    OBVIOUS
  <2> QED
    BY <1>3, <2>1
<1> QED
  BY <1>3, <1>4, <1>5 DEF t

\* The next c entries of what comes after the first m, and the rest.
LEMMA TailSplits ==
  ASSUME NEW S, NEW s \in Seq(S), NEW m \in Nat, NEW c \in Nat
  PROVE  LET t == SubSeq(s, m + 1, Len(s))
             p == IF c <= Len(t) THEN c ELSE Len(t)
         IN  /\ t \in Seq(S) /\ Len(t) = IF m <= Len(s) THEN Len(s) - m ELSE 0
             /\ p \in 0 .. Len(t)
             /\ SubSeq(s, m + 1, Min({m + c, Len(s)})) = SubSeq(t, 1, p)
             /\ SubSeq(s, m + c + 1, Len(s)) = SubSeq(t, p + 1, Len(t))
             /\ t = SubSeq(t, 1, p) \o SubSeq(t, p + 1, Len(t))
             /\ SubSeq(t, 1, p) \in Seq(S) /\ Len(SubSeq(t, 1, p)) = p
             /\ SubSeq(t, p + 1, Len(t)) \in Seq(S)
<1> DEFINE n == Len(s)
           t == SubSeq(s, m + 1, n)
           l == Len(t)
           p == IF c <= l THEN c ELSE l
           u == SubSeq(t, 1, p)
           v == SubSeq(t, p + 1, l)
           e == Min({m + c, n})
<1>1. n \in Nat /\ n \in 0 .. n
  OBVIOUS
<1>2. /\ t \in Seq(S) /\ l = IF m <= n THEN n - m ELSE 0
      /\ \A i \in 1 .. n - m : t[i] = s[m + i]
  BY <1>1, Slice
<1> HIDE DEF t
<1>3. l \in 0 .. l /\ l \in Nat
  BY <1>2
<1>4. p \in 0 .. l
  BY <1>3
<1>5. e \in 0 .. n /\ e = IF m + c <= n THEN m + c ELSE n
  BY <1>1, MinOfTwo
<1> HIDE DEF n
<1>6. /\ u \in Seq(S) /\ Len(u) = p /\ \A i \in 1 .. p : u[i] = t[i]
  <2> HIDE DEF p
  <2>1. /\ SubSeq(t, 0 + 1, p) \in Seq(S)
        /\ Len(SubSeq(t, 0 + 1, p)) = IF 0 <= p THEN p - 0 ELSE 0
        /\ \A i \in 1 .. p - 0 : SubSeq(t, 0 + 1, p)[i] = t[0 + i]
    BY <1>2, <1>4, Slice
  <2>2. 0 + 1 = 1 /\ 0 <= p /\ p - 0 = p /\ \A i \in 1 .. p : 0 + i = i
    BY <1>3, <1>4
  <2> HIDE DEF l
  <2> QED
    BY <2>1, <2>2
<1>7. /\ v \in Seq(S) /\ Len(v) = l - p /\ \A i \in 1 .. l - p : v[i] = t[p + i]
  <2> HIDE DEF p
  <2>1. p \in Nat /\ p <= l
    BY <1>3, <1>4
  <2>2. /\ v \in Seq(S) /\ Len(v) = IF p <= l THEN l - p ELSE 0
        /\ \A i \in 1 .. l - p : v[i] = t[p + i]
    BY <1>2, <1>3, <2>1, Slice
  <2> QED
    BY <2>1, <2>2
<1> HIDE DEF l, u, v, e
<1>8. SubSeq(s, m + 1, e) = u
  <2> DEFINE w == SubSeq(s, m + 1, e)
  <2>1. /\ w \in Seq(S) /\ Len(w) = IF m <= e THEN e - m ELSE 0
        /\ \A i \in 1 .. e - m : w[i] = s[m + i]
    BY <1>5, Slice DEF n
  <2> HIDE DEF w
  <2>2. Len(w) = p
    BY <1>1, <1>2, <1>3, <1>4, <1>5, <2>1
  <2>3. ASSUME NEW i \in 1 .. p PROVE w[i] = u[i]
    <3>1. i \in 1 .. e - m /\ i \in 1 .. n - m
      BY <1>1, <1>2, <1>3, <1>4, <1>5
    <3> QED
      BY <1>2, <1>6, <2>1, <3>1
  <2> HIDE DEF p
  <2> QED
    BY <1>6, <2>1, <2>2, <2>3, SeqEqual DEF w
<1>9. SubSeq(s, m + c + 1, n) = v
  <2> DEFINE w == SubSeq(s, m + c + 1, n)
  <2>1. m + c \in Nat
    OBVIOUS
  <2>2. /\ w \in Seq(S) /\ Len(w) = IF m + c <= n THEN n - (m + c) ELSE 0
        /\ \A i \in 1 .. n - (m + c) : w[i] = s[m + c + i]
    BY <1>1, <2>1, Slice DEF n
  <2> HIDE DEF w
  <2>3. Len(w) = l - p
    BY <1>1, <1>2, <1>3, <2>2
  <2>4. ASSUME NEW i \in 1 .. l - p PROVE w[i] = v[i]
    <3>1. p = c
      BY <1>3
    <3> HIDE DEF p
    <3>2. /\ i \in 1 .. n - (m + c) /\ m + c + i = m + (p + i)
          /\ p + i \in 1 .. n - m
      BY <1>1, <1>2, <1>3, <3>1
    <3> QED
      BY <1>2, <1>7, <2>2, <3>1, <3>2
  <2> HIDE DEF p
  <2> QED
    BY <1>7, <2>2, <2>3, <2>4, SeqEqual DEF w
<1>10. t = u \o v
  <2> HIDE DEF p
  <2>1. /\ 1 \in 1 .. Len(t) + 1 /\ p \in 1 - 1 .. Len(t) /\ Len(t) \in p .. Len(t)
    BY <1>3, <1>4 DEF l
  <2>2. u \o v = SubSeq(t, 1, Len(t))
    BY <1>2, <2>1, ConcatAdjacentSubSeq DEF u, v, l
  <2> QED
    BY <1>2, <2>2, SubSeqFull
<1> QED
  BY <1>2, <1>4, <1>6, <1>7, <1>8, <1>9, <1>10 DEF n, t, l, u, v, e

\* The k-th portion of a list is the front of what comes after k portions.
LEMMA BatchOfAfter ==
  ASSUME NEW S, NEW s \in Seq(S), NEW c \in Nat, NEW k \in Nat
  PROVE  LET t == After(s, c, k)
             p == IF c <= Len(t) THEN c ELSE Len(t)
         IN  /\ t \in Seq(S) /\ Len(t) = IF k * c <= Len(s) THEN Len(s) - k * c ELSE 0
             /\ p \in 0 .. Len(t)
             /\ Batch(s, c, k) = SubSeq(t, 1, p)
             /\ After(s, c, k + 1) = SubSeq(t, p + 1, Len(t))
             /\ t = Batch(s, c, k) \o After(s, c, k + 1)
             /\ Batch(s, c, k) \in Seq(S) /\ Len(Batch(s, c, k)) = p
             /\ After(s, c, k + 1) \in Seq(S)
<1> DEFINE m == k * c
<1>1. m \in Nat /\ (k + 1) * c = m + c
  OBVIOUS
<1>2. /\ After(s, c, k) = SubSeq(s, m + 1, Len(s))
      /\ After(s, c, k + 1) = SubSeq(s, m + c + 1, Len(s))
      /\ Batch(s, c, k) = SubSeq(s, m + 1, Min({m + c, Len(s)}))
  BY <1>1 DEF After, Batch
<1>3. k * c = m
  OBVIOUS
<1> HIDE DEF m
<1> DEFINE t == After(s, c, k)
           p == IF c <= Len(t) THEN c ELSE Len(t)
<1>4. /\ t \in Seq(S) /\ Len(t) = IF m <= Len(s) THEN Len(s) - m ELSE 0
      /\ p \in 0 .. Len(t)
      /\ Batch(s, c, k) = SubSeq(t, 1, p)
      /\ After(s, c, k + 1) = SubSeq(t, p + 1, Len(t))
      /\ t = SubSeq(t, 1, p) \o SubSeq(t, p + 1, Len(t))
      /\ SubSeq(t, 1, p) \in Seq(S) /\ Len(SubSeq(t, 1, p)) = p
      /\ SubSeq(t, p + 1, Len(t)) \in Seq(S)
  <2>1. m \in Nat
    BY <1>1
  <2> DEFINE x == SubSeq(s, m + 1, Len(s))
             y == IF c <= Len(x) THEN c ELSE Len(x)
  <2>2. /\ x \in Seq(S) /\ Len(x) = IF m <= Len(s) THEN Len(s) - m ELSE 0
        /\ y \in 0 .. Len(x)
        /\ SubSeq(s, m + 1, Min({m + c, Len(s)})) = SubSeq(x, 1, y)
        /\ SubSeq(s, m + c + 1, Len(s)) = SubSeq(x, y + 1, Len(x))
        /\ x = SubSeq(x, 1, y) \o SubSeq(x, y + 1, Len(x))
        /\ SubSeq(x, 1, y) \in Seq(S) /\ Len(SubSeq(x, 1, y)) = y
        /\ SubSeq(x, y + 1, Len(x)) \in Seq(S)
    BY <2>1, TailSplits
  <2>3. t = x
    BY <1>2
  <2>4. p = y
    BY <2>3
  <2> HIDE DEF t, p, x, y
  <2> QED
    BY <1>2, <2>2, <2>3, <2>4 DEF t, x
<1>5. /\ t = Batch(s, c, k) \o After(s, c, k + 1)
      /\ Batch(s, c, k) \in Seq(S) /\ Len(Batch(s, c, k)) = p
      /\ After(s, c, k + 1) \in Seq(S)
  <2> HIDE DEF t, p
  <2> QED
    BY <1>4
<1>6. Len(t) = IF k * c <= Len(s) THEN Len(s) - k * c ELSE 0
  <2> HIDE DEF t
  <2> QED
    BY <1>3, <1>4, Zenon
<1> QED
  BY <1>4, <1>5, <1>6, Zenon

LEMMA AfterSplits ==
  ASSUME NEW S, NEW s \in Seq(S), NEW c \in Nat, NEW k \in Nat
  PROVE  /\ After(s, c, k) \in Seq(S) /\ Batch(s, c, k) \in Seq(S)
         /\ Len(Batch(s, c, k)) <= c
         /\ After(s, c, k) = Batch(s, c, k) \o After(s, c, k + 1)
<1> DEFINE t == After(s, c, k)
           p == IF c <= Len(t) THEN c ELSE Len(t)
<1>1. /\ t \in Seq(S) /\ Len(t) = IF k * c <= Len(s) THEN Len(s) - k * c ELSE 0
      /\ p \in 0 .. Len(t)
      /\ Batch(s, c, k) = SubSeq(t, 1, p)
      /\ After(s, c, k + 1) = SubSeq(t, p + 1, Len(t))
      /\ t = Batch(s, c, k) \o After(s, c, k + 1)
      /\ Batch(s, c, k) \in Seq(S) /\ Len(Batch(s, c, k)) = p
      /\ After(s, c, k + 1) \in Seq(S)
  BY BatchOfAfter
<1>2. p <= c
  <2>1. Len(t) \in Nat
    BY <1>1
  <2> HIDE DEF t
  <2> QED
    BY <2>1
<1> QED
  BY <1>1, <1>2, Zenon

\* When a list is used up, it stays so.
LEMMA AfterAll ==
  ASSUME NEW S, NEW s \in Seq(S), NEW c \in Nat, NEW k \in Nat, After(s, c, k) = <<>>
  PROVE  \A n \in Nat : n >= k => After(s, c, n) = <<>> /\ Batch(s, c, n) = <<>>
<1> TAKE n \in Nat
<1> HAVE n >= k
<1> DEFINE L == Len(s)
           p == k * c
           q == n * c
<1>1. L \in Nat /\ p \in Nat /\ q \in Nat /\ p <= q
  BY TimesIsMonotonic
<1>2. \A m \in Nat : /\ After(s, c, m) \in Seq(S)
                     /\ Len(After(s, c, m)) = IF m * c <= L THEN L - m * c ELSE 0
                     /\ Batch(s, c, m) \in Seq(S)
                     /\ Len(Batch(s, c, m)) \in 0 .. Len(After(s, c, m))
  <2> TAKE m \in Nat
  <2> DEFINE t == After(s, c, m)
             y == IF c <= Len(t) THEN c ELSE Len(t)
  <2>1. /\ t \in Seq(S) /\ Len(t) = IF m * c <= Len(s) THEN Len(s) - m * c ELSE 0
        /\ y \in 0 .. Len(t)
        /\ Batch(s, c, m) = SubSeq(t, 1, y)
        /\ After(s, c, m + 1) = SubSeq(t, y + 1, Len(t))
        /\ t = Batch(s, c, m) \o After(s, c, m + 1)
        /\ Batch(s, c, m) \in Seq(S) /\ Len(Batch(s, c, m)) = y
        /\ After(s, c, m + 1) \in Seq(S)
    BY BatchOfAfter
  <2> QED
    BY <2>1, Zenon
<1>3. 0 = IF p <= L THEN L - p ELSE 0
  <2>1. Len(After(s, c, k)) = 0
    OBVIOUS
  <2> QED
    BY <1>2, <2>1, Zenon
<1>4. Len(After(s, c, n)) = IF q <= L THEN L - q ELSE 0
  BY <1>2
<1> HIDE DEF L, p, q
<1>5. Len(After(s, c, n)) = 0
  BY <1>1, <1>3, <1>4
<1>6. \A t \in Seq(S) : Len(t) = 0 => t = <<>>
  OBVIOUS
<1>7. After(s, c, n) = <<>>
  BY <1>2, <1>5, <1>6
<1>8. Batch(s, c, n) \in Seq(S) /\ Len(Batch(s, c, n)) = 0
  BY <1>2, <1>5
<1>9. Batch(s, c, n) = <<>>
  BY <1>6, <1>8
<1> QED
  BY <1>7, <1>9

LEMMA AfterNone ==
  ASSUME NEW S, NEW s \in Seq(S), NEW c \in Nat
  PROVE  After(s, c, 0) = s
<1>1. 0 * c + 1 = 1
  OBVIOUS
<1>2. After(s, c, 0) = SubSeq(s, 1, Len(s))
  BY <1>1 DEF After
<1> QED
  BY <1>2, SubSeqFull

\* The multiples of d below b and those below b + 1.
LEMMA CeilDivSteps ==
  ASSUME NEW b \in Nat, NEW d \in Nat \ {0}
  PROVE  IF b % d = 0
         THEN b \div d \in Nat /\ CeilDiv(b, d) = b \div d /\ CeilDiv(b + 1, d) = b \div d + 1
         ELSE CeilDiv(b + 1, d) = CeilDiv(b, d)
<1> DEFINE q == b \div d
           r == b % d
           x == CeilDiv(b, d)
           y == CeilDiv(b + 1, d)
<1>1. q \in Nat /\ r \in 0 .. d - 1 /\ b = d * q + r
  OBVIOUS
<1>2. x \in Nat /\ \A k \in Nat : k < x <=> k * d < b
  BY CeilDivCounts
<1>3. y \in Nat /\ \A k \in Nat : k < y <=> k * d < b + 1
  <2>1. b + 1 \in Nat
    OBVIOUS
  <2> QED
    BY <2>1, CeilDivCounts
<1> HIDE DEF q, r, x, y
<1>4. CASE r = 0
  <2>1. q * d = b /\ (q + 1) * d = b + d
    BY <1>1, <1>4
  <2>2. ~(q < x) /\ q < y
    BY <1>1, <1>2, <1>3, <2>1
  <2>3. ~(q + 1 < y)
    <3>1. q + 1 \in Nat /\ ~(b + d < b + 1)
      BY <1>1
    <3> QED
      BY <1>3, <2>1, <3>1
  <2>4. q = 0 \/ q - 1 < x
    <3> SUFFICES ASSUME q # 0 PROVE q - 1 < x
      OBVIOUS
    <3>1. q - 1 \in Nat /\ (q - 1) * d = b - d /\ b - d < b
      BY <1>1, <2>1
    <3> QED
      BY <1>2, <3>1
  <2>5. x = q /\ y = q + 1
    BY <1>1, <1>2, <1>3, <2>2, <2>3, <2>4
  <2> QED
    BY <1>1, <1>4, <2>5 DEF q, r, x, y
<1>5. CASE r # 0
  <2>1. ~(y < x)
    <3> SUFFICES ASSUME y < x PROVE FALSE
      OBVIOUS
    <3>1. y * d < b /\ ~(y * d < b + 1) /\ y * d \in Nat
      BY <1>2, <1>3
    <3> QED
      BY <3>1
  <2>2. ~(x < y)
    <3> SUFFICES ASSUME x < y PROVE FALSE
      OBVIOUS
    <3>1. x * d < b + 1 /\ ~(x * d < b) /\ x * d \in Nat
      BY <1>2, <1>3
    <3>2. x * d = q * d + r /\ q * d \in Nat
      BY <1>1, <3>1
    <3>3. CASE x <= q
      <4>1. x * d <= q * d
        BY <1>1, <1>2, <3>3, TimesIsMonotonic
      <4> QED
        BY <1>1, <1>5, <3>1, <3>2, <4>1
    <3>4. CASE ~(x <= q)
      <4>1. q + 1 \in Nat /\ q + 1 <= x
        BY <1>1, <1>2, <3>4
      <4>2. (q + 1) * d <= x * d
        BY <1>2, <4>1, TimesIsMonotonic
      <4>3. (q + 1) * d = q * d + d
        BY <1>1
      <4> QED
        BY <1>1, <3>1, <3>2, <4>2, <4>3
    <3> QED
      BY <3>3, <3>4
  <2>3. x = y
    BY <1>2, <1>3, <2>1, <2>2
  <2> QED
    BY <1>5, <2>3 DEF r, x, y
<1> QED
  BY <1>4, <1>5

LEMMA ChunkAndStride ==
  ASSUME NEW m \in Nat, NEW n \in Nat \ {0}, NEW packet \in Nat \ {0}
  PROVE  /\ CeilDiv(m, n) \in Nat
         /\ Chunk(m, n, packet) = IF CeilDiv(m, n) >= packet THEN CeilDiv(m, n) ELSE packet
         /\ Chunk(m, n, packet) \in Nat \ {0}
         /\ Stride(m, n, packet) \in Nat \ {0}
<1>1. CeilDiv(m, n) \in Nat
  BY CeilDivCounts
<1>2. Chunk(m, n, packet) = IF CeilDiv(m, n) >= packet THEN CeilDiv(m, n) ELSE packet
  BY <1>1, MaxOfTwo DEF Chunk
<1> QED
  BY <1>1, <1>2 DEF Stride

\* D lists the bins that s is dealt to.
DealtAs(D, s, n, packet) == D = [i \in 1 .. n |-> Deal(s, n, packet)[i - 1]]

\* Dealing keeps the order: the bins one after the other are the list again.
LEMMA DealFlattens ==
  ASSUME NEW S, NEW s \in Seq(S), NEW n \in Nat \ {0}, NEW packet \in Nat \ {0},
         NEW D, DealtAs(D, s, n, packet)
  PROVE  Lists(D, n, S) /\ FlattenSeq(D) = s
<1> DEFINE c == Chunk(Len(s), n, packet)
           d == Stride(Len(s), n, packet)
           Part(b) == IF b % d = 0 THEN Batch(s, c, b \div d) ELSE <<>>
           From(b) == After(s, c, CeilDiv(b, d))
           Rest(i) == IF i < n THEN From(i) ELSE <<>>
<1>0. \A q \in Seq(S) : q \o <<>> = q /\ <<>> \o q = q
  BY ConcatEmptySeq
<1>1. c \in Nat /\ d \in Nat \ {0}
  <2>1. Len(s) \in Nat
    OBVIOUS
  <2> QED
    BY <2>1, ChunkAndStride
<1>2. ASSUME NEW i \in 1 .. n
      PROVE  D[i] = Part(i - 1) \o (IF i = n THEN From(n) ELSE <<>>)
  <2>1. i - 1 \in 0 .. n - 1 /\ (i - 1 = n - 1 <=> i = n)
    OBVIOUS
  <2>2. D[i] = Deal(s, n, packet)[i - 1]
    BY DEF DealtAs
  <2>3. Deal(s, n, packet)[i - 1]
          = (IF (i - 1) % d = 0 THEN Batch(s, c, (i - 1) \div d) ELSE <<>>)
              \o (IF i - 1 = n - 1 THEN After(s, c, CeilDiv(n, d)) ELSE <<>>)
    BY <2>1, Zenon DEF Deal
  <2> HIDE DEF c, d
  <2> QED
    BY <2>1, <2>2, <2>3
<1>3. Len(D) = n
  BY DEF DealtAs
<1> HIDE DEF c, d
<1>4. ASSUME NEW b \in Nat
      PROVE  /\ Part(b) \in Seq(S) /\ From(b) \in Seq(S)
             /\ From(b) = Part(b) \o From(b + 1)
  <2>1. CASE b % d = 0
    <3> DEFINE k == b \div d
    <3>1. k \in Nat /\ CeilDiv(b, d) = k /\ CeilDiv(b + 1, d) = k + 1
      BY <1>1, <2>1, CeilDivSteps
    <3> HIDE DEF k
    <3>2. /\ After(s, c, k) \in Seq(S) /\ Batch(s, c, k) \in Seq(S)
          /\ After(s, c, k) = Batch(s, c, k) \o After(s, c, k + 1)
      BY <1>1, <3>1, AfterSplits, SMTT(60)
    <3>3. Part(b) = Batch(s, c, k)
      BY <2>1 DEF k
    <3> QED
      BY <3>1, <3>2, <3>3
  <2>2. CASE b % d # 0
    <3> DEFINE k == CeilDiv(b, d)
    <3>1. CeilDiv(b + 1, d) = k
      BY <1>1, <2>2, CeilDivSteps
    <3>2. k \in Nat
      BY <1>1, CeilDivCounts
    <3> HIDE DEF k
    <3>3. After(s, c, k) \in Seq(S)
      BY <1>1, <3>2, AfterSplits
    <3>4. Part(b) = <<>> /\ From(b) = After(s, c, k) /\ From(b + 1) = After(s, c, k)
      BY <2>2, <3>1 DEF k
    <3> HIDE DEF Part, From
    <3>5. <<>> \in Seq(S)
      OBVIOUS
    <3> QED
      BY <1>0, <3>3, <3>4, <3>5
  <2> QED
    BY <2>1, <2>2
<1>5. From(0) = s
  <2>1. 0 \in Nat /\ 0 % d = 0 /\ 0 \div d = 0
    BY <1>1
  <2>2. CeilDiv(0, d) = 0
    BY <1>1, <2>1, CeilDivSteps
  <2> QED
    BY <1>1, <2>2, AfterNone
<1> HIDE DEF Part, From
<1>6. ASSUME NEW i \in 1 .. n
      PROVE  D[i] \in Seq(S) /\ Rest(i) \in Seq(S) /\ D[i] \o Rest(i) = From(i - 1)
  <2>1. /\ i - 1 \in Nat /\ n \in Nat /\ i \in Nat
        /\ (i - 1) + 1 = i /\ (i < n <=> i # n)
    OBVIOUS
  <2>2. /\ Part(i - 1) \in Seq(S) /\ From(i - 1) \in Seq(S)
        /\ From(i - 1) = Part(i - 1) \o From(i)
    BY <1>4, <2>1
  <2>3. From(i) \in Seq(S)
    BY <1>4, <2>1
  <2>4. CASE i = n
    <3>1. D[i] = From(i - 1) /\ Rest(i) = <<>>
      BY <1>2, <2>1, <2>2, <2>4
    <3>2. <<>> \in Seq(S)
      OBVIOUS
    <3> HIDE DEF Rest
    <3> QED
      BY <1>0, <2>2, <3>1, <3>2
  <2>5. CASE i # n
    <3>1. D[i] = Part(i - 1) \o <<>> /\ Rest(i) = From(i)
      BY <1>2, <2>1, <2>5
    <3>2. D[i] = Part(i - 1)
      BY <1>0, <2>2, <3>1
    <3> QED
      BY <2>2, <2>3, <3>1, <3>2
  <2> QED
    BY <2>4, <2>5
<1>7. Lists(D, n, S)
  BY <1>3, <1>6 DEF Lists
<1>8. PICK f : RunsUpTo(f, D, n) /\ FlattenSeq(D) = f[n]
  BY <1>7, FlattenUnfolds
<1>9. \A i \in 1 .. n : f[i] \in Seq(S)
  BY <1>7, <1>8, RunsAreSeqs
<1> DEFINE T == {i \in 1 .. n : f[i] \o Rest(i) = s}
<1>10. 1 \in T
  <2>1. 1 \in 1 .. n /\ 1 - 1 = 0 /\ f[1] = D[1]
    BY <1>8 DEF RunsUpTo
  <2>2. D[1] \o Rest(1) = From(0)
    BY <1>6, <2>1
  <2> HIDE DEF Rest
  <2> QED
    BY <1>5, <2>1, <2>2
<1>11. ASSUME NEW i \in 1 .. n - 1, i \in T PROVE i + 1 \in T
  <2>1. i \in 1 .. n /\ i + 1 \in 1 .. n /\ (i + 1) - 1 = i /\ i < n
    OBVIOUS
  <2>2. f[i + 1] = f[i] \o D[i + 1]
    BY <1>8, RunGrows, ZenonT(60)
  <2>3. Rest(i) = From(i) /\ f[i] \o Rest(i) = s
    BY <1>11, <2>1
  <2> HIDE DEF Rest
  <2>4. D[i + 1] \o Rest(i + 1) = From(i)
    BY <1>6, <2>1
  <2>5. f[i] \in Seq(S) /\ D[i + 1] \in Seq(S) /\ Rest(i + 1) \in Seq(S)
    BY <1>6, <1>9, <2>1
  <2>6. \A a, b, e \in Seq(S) : (a \o b) \o e = a \o (b \o e)
    BY ConcatAssociative, SMTT(60)
  <2>7. (f[i] \o D[i + 1]) \o Rest(i + 1) = f[i] \o (D[i + 1] \o Rest(i + 1))
    BY <2>5, <2>6, ZenonT(60)
  <2> QED
    BY <2>1, <2>2, <2>3, <2>4, <2>7
<1>12. n \in T
  <2>1. n \in 1 .. n
    OBVIOUS
  <2> HIDE DEF T
  <2> QED
    BY <1>10, <1>11, <2>1, UpTo
<1>13. f[n] = s
  <2>1. Rest(n) = <<>> /\ f[n] \in Seq(S)
    BY <1>9
  <2> QED
    BY <1>0, <1>12, <2>1
<1> QED
  BY <1>7, <1>8, <1>13

\* No entries in any of the sequences, no entries in the whole.
LEMMA FlattenEmpties ==
  ASSUME NEW n \in Nat \ {0}, NEW s, Len(s) = n, \A i \in 1 .. n : s[i] = <<>>
  PROVE  FlattenSeq(s) = <<>>
<1>1. Lists(s, n, {})
  <2>1. <<>> \in Seq({})
    OBVIOUS
  <2> QED
    BY <2>1, Zenon DEF Lists
<1>2. FlattenSeq(s) \in Seq({})
  BY <1>1, FlattenLists
<1> QED
  BY <1>2, EmptySeq

\* The lists s with one more behind them.
OneMore(t, s, n, S) ==
  /\ Lists(s, n, S) /\ Lists(t, n + 1, S)
  /\ \A i \in 1 .. n : t[i] = s[i]
  /\ n = 0 => s = <<>>

\* A list behind a list of lists.
LEMMA FlattenAppends ==
  ASSUME NEW S, NEW n \in Nat, NEW s, NEW t, OneMore(t, s, n, S)
  PROVE  FlattenSeq(s) \in Seq(S) /\ FlattenSeq(t) = FlattenSeq(s) \o t[n + 1]
<1> USE DEF OneMore
<1>1. PICK g : RunsUpTo(g, t, n + 1) /\ FlattenSeq(t) = g[n + 1]
  BY FlattenUnfolds
<1>2. t[n + 1] \in Seq(S)
  BY DEF Lists
<1>3. CASE n = 0
  <2>1. FlattenSeq(s) = <<>>
    BY <1>3 DEF FlattenSeq
  <2>2. FlattenSeq(t) = t[1]
    BY <1>1, <1>3 DEF RunsUpTo
  <2>3. t[1] = <<>> \o t[1]
    BY <1>2, <1>3
  <2> QED
    BY <1>3, <2>1, <2>2, <2>3
<1>4. CASE n # 0
  <2>1. PICK f : RunsUpTo(f, s, n) /\ FlattenSeq(s) = f[n]
    BY <1>4, FlattenUnfolds
  <2> DEFINE T == {i \in 1 .. n : g[i] = f[i]}
  <2>2. 1 \in T
    BY <1>1, <1>4, <2>1 DEF RunsUpTo
  <2>3. ASSUME NEW i \in 1 .. n - 1, i \in T PROVE i + 1 \in T
    <3>1. i + 1 \in 1 .. n /\ i \in 1 .. (n + 1) - 1 /\ n + 1 \in Nat \ {0}
      OBVIOUS
    <3>2. f[i + 1] = f[i] \o s[i + 1]
      <4>1. n \in Nat \ {0}
        BY <1>4
      <4> QED
        BY <2>1, <4>1, RunGrows, ZenonT(60)
    <3>3. g[i + 1] = g[i] \o t[i + 1]
      BY <1>1, <3>1, RunGrows, ZenonT(60)
    <3> QED
      BY <2>3, <3>1, <3>2, <3>3
  <2> HIDE DEF T
  <2>4. n \in T
    BY <1>4, <2>2, <2>3, UpTo, SMTT(60)
  <2>5. g[n] = f[n]
    BY <2>4 DEF T
  <2>6. n \in 1 .. (n + 1) - 1 /\ n + 1 \in Nat \ {0}
    BY <1>4
  <2>7. g[n + 1] = g[n] \o t[n + 1]
    BY <1>1, <2>6, RunGrows, ZenonT(60)
  <2>8. f[n] \in Seq(S)
    BY <1>4, <2>1, RunsAreSeqs
  <2> QED
    BY <1>1, <2>1, <2>5, <2>7, <2>8
<1> QED
  BY <1>3, <1>4

-----------------------------------------------------------------------------
\* Sums by FoldLeft, which takes the greatest position first.

SumsUpTo(g, n, b, u, w) ==
  \A r \in SUBSET (1 .. n) :
    g[r] = IF r = {} THEN b ELSE g[r \ {Max(r)}] + u + w[Max(r)]

LEMMA MaxOfSome ==
  ASSUME NEW n \in Nat, NEW r \in SUBSET (1 .. n), r # {}
  PROVE  Max(r) \in r /\ \A k \in r : k <= Max(r)
<1> DEFINE T == {j \in Nat : n - j \in r}
<1>1. \A k \in r : n - k \in T
  <2> TAKE k \in r
  <2>1. n - k \in Nat /\ n - (n - k) = k
    OBVIOUS
  <2> QED
    BY <2>1
<1>2. PICK m \in T : \A j \in T : m <= j
  <2>1. T \in SUBSET Nat /\ T # {}
    BY <1>1
  <2> HIDE DEF T
  <2> QED
    BY <2>1, LeastNat
<1>3. m \in Nat /\ n - m \in r
  BY <1>2
<1>4. ASSUME NEW k \in r PROVE k <= n - m
  <2>1. m <= n - k
    BY <1>1, <1>2
  <2> QED
    BY <1>3, <2>1
<1> HIDE DEF T
<1> QED
  BY <1>3, <1>4 DEF Max

LEMMA MaxOfInterval ==
  ASSUME NEW i \in Nat \ {0}
  PROVE  Max(1 .. i) = i /\ (1 .. i) \ {i} = 1 .. i - 1
<1>1. i \in 1 .. i /\ \A k \in 1 .. i : k <= i
  OBVIOUS
<1>2. Max(1 .. i) \in 1 .. i /\ i <= Max(1 .. i)
  BY <1>1, MaxOfSome
<1> DEFINE m == Max(1 .. i)
<1> HIDE DEF m
<1>3. m = i
  BY <1>2 DEF m
<1> QED
  BY <1>3 DEF m

LEMMA SumsExist ==
  ASSUME NEW n \in Nat, NEW b \in Nat, NEW u \in Nat, NEW w, \A i \in 1 .. n : w[i] \in Nat
  PROVE  \E g \in [SUBSET (1 .. n) -> Nat] : SumsUpTo(g, n, b, u, w)
<1> DEFINE T == {k \in 1 .. n + 1 :
                   \E g \in [SUBSET (1 .. k - 1) -> Nat] : SumsUpTo(g, k - 1, b, u, w)}
<1>1. 1 \in T
  <2> DEFINE g == [r \in SUBSET (1 .. 0) |-> b]
  <2>1. g \in [SUBSET (1 .. 0) -> Nat]
    OBVIOUS
  <2>2. \A r \in SUBSET (1 .. 0) : r = {}
    OBVIOUS
  <2>3. SumsUpTo(g, 0, b, u, w)
    BY <2>2 DEF SumsUpTo
  <2>4. 1 \in 1 .. n + 1 /\ 1 - 1 = 0
    OBVIOUS
  <2> HIDE DEF g
  <2> QED
    BY <2>1, <2>3, <2>4
<1>2. ASSUME NEW k \in 1 .. n, k \in T PROVE k + 1 \in T
  <2>1. PICK g \in [SUBSET (1 .. k - 1) -> Nat] : SumsUpTo(g, k - 1, b, u, w)
    BY <1>2
  <2> DEFINE h == [r \in SUBSET (1 .. k) |-> IF k \in r THEN g[r \ {k}] + u + w[k] ELSE g[r]]
  <2>2. \A r \in SUBSET (1 .. k) :
          /\ k \in r => r \ {k} \in SUBSET (1 .. k - 1) /\ r \ {k} \in SUBSET (1 .. k)
          /\ k \notin r => r \in SUBSET (1 .. k - 1)
    OBVIOUS
  <2>3. w[k] \in Nat
    OBVIOUS
  <2>4. h \in [SUBSET (1 .. k) -> Nat]
    <3>1. ASSUME NEW r \in SUBSET (1 .. k)
          PROVE  (IF k \in r THEN g[r \ {k}] + u + w[k] ELSE g[r]) \in Nat
      <4>1. CASE k \in r
        BY <2>2, <2>3, <4>1
      <4>2. CASE k \notin r
        BY <2>2, <4>2
      <4> QED
        BY <4>1, <4>2
    <3> QED
      BY <3>1
  <2>5. ASSUME NEW r \in SUBSET (1 .. k)
        PROVE  h[r] = IF r = {} THEN b ELSE h[r \ {Max(r)}] + u + w[Max(r)]
    <3>1. CASE k \in r
      <4>1. Max(r) = k
        <5>1. \A j \in r : j <= k
          OBVIOUS
        <5>2. Max(r) \in 1 .. k /\ k <= Max(r)
          <6>1. k \in Nat /\ r # {}
            BY <3>1
          <6>2. Max(r) \in r /\ \A j \in r : j <= Max(r)
            BY <6>1, MaxOfSome
          <6> QED
            BY <3>1, <6>2, Zenon
        <5> DEFINE m == Max(r)
        <5> HIDE DEF m
        <5>3. m = k
          BY <5>2 DEF m
        <5> QED
          BY <5>3 DEF m
      <4>2. h[r \ {k}] = g[r \ {k}]
        <5>1. r \ {k} \in SUBSET (1 .. k) /\ k \notin r \ {k}
          BY <2>2, <3>1
        <5> QED
          BY <5>1
      <4>3. h[r] = g[r \ {k}] + u + w[k]
        BY <3>1
      <4> HIDE DEF h
      <4> QED
        BY <3>1, <4>1, <4>2, <4>3
    <3>2. CASE k \notin r
      <4>1. r \in SUBSET (1 .. k - 1) /\ h[r] = g[r]
        BY <2>2, <3>2
      <4>2. g[r] = IF r = {} THEN b ELSE g[r \ {Max(r)}] + u + w[Max(r)]
        BY <2>1, <4>1 DEF SumsUpTo
      <4>3. h[r \ {Max(r)}] = g[r \ {Max(r)}]
        <5> DEFINE q == r \ {Max(r)}
        <5>1. q \in SUBSET (1 .. k) /\ k \notin q
          BY <3>2
        <5> HIDE DEF q
        <5>2. h[q] = g[q]
          BY <5>1
        <5> QED
          BY <5>2 DEF q
      <4> HIDE DEF h
      <4> QED
        BY <4>1, <4>2, <4>3
    <3> QED
      BY <3>1, <3>2
  <2> HIDE DEF h
  <2>6. SumsUpTo(h, k, b, u, w)
    BY <2>5 DEF SumsUpTo
  <2>7. k + 1 \in 1 .. n + 1 /\ (k + 1) - 1 = k
    OBVIOUS
  <2> QED
    BY <2>4, <2>6, <2>7
<1> HIDE DEF T
<1>3. \A i \in 1 .. n + 1 : i \in T
  <2>1. n + 1 \in Nat /\ (n + 1) - 1 = n
    OBVIOUS
  <2>2. \A i \in 1 .. (n + 1) - 1 : i \in T => i + 1 \in T
    BY <1>2, <2>1
  <2> QED
    BY <1>1, <2>1, <2>2, UpTo
<1>4. n + 1 \in T /\ (n + 1) - 1 = n
  BY <1>3
<1> QED
  BY <1>4 DEF T

LEMMA SumGrows ==
  ASSUME NEW n \in Nat, NEW g, NEW b, NEW u, NEW w, SumsUpTo(g, n, b, u, w)
  PROVE  g[{}] = b /\ \A i \in 1 .. n : g[1 .. i] = g[1 .. i - 1] + u + w[i]
<1>1. g[{}] = b
  BY DEF SumsUpTo
<1>2. ASSUME NEW i \in 1 .. n PROVE g[1 .. i] = g[1 .. i - 1] + u + w[i]
  <2>1. 1 .. i \in SUBSET (1 .. n) /\ 1 .. i # {}
    OBVIOUS
  <2>2. g[1 .. i] = g[(1 .. i) \ {Max(1 .. i)}] + u + w[Max(1 .. i)]
    BY <2>1 DEF SumsUpTo
  <2>3. Max(1 .. i) = i /\ (1 .. i) \ {i} = 1 .. i - 1
    BY MaxOfInterval
  <2> QED
    BY <2>2, <2>3
<1> QED
  BY <1>1, <1>2

\* Sums of the same numbers but the first, which the base makes up for.
Shifted(g, h, n, b, c, u, w, v) ==
  /\ SumsUpTo(g, n, b, u, w) /\ SumsUpTo(h, n + 1, c, u, v)
  /\ \A i \in 1 .. n : w[i] \in Nat /\ v[i + 1] = w[i]
  /\ c + u + v[1] = b

\* A sum with one more summand in front.
LEMMA SumShifts ==
  ASSUME NEW n \in Nat, NEW g, NEW h, NEW b \in Nat, NEW c \in Nat,
         NEW u \in Nat, NEW w, NEW v, Shifted(g, h, n, b, c, u, w, v)
  PROVE  g[1 .. n] \in Nat /\ h[1 .. n + 1] = g[1 .. n]
<1> USE DEF Shifted
<1> DEFINE T == {k \in 1 .. n + 1 : g[1 .. k - 1] \in Nat /\ h[1 .. k] = g[1 .. k - 1]}
<1>1. /\ g[{}] = b /\ \A i \in 1 .. n : g[1 .. i] = g[1 .. i - 1] + u + w[i]
  BY SumGrows
<1>2. h[{}] = c /\ \A i \in 1 .. n + 1 : h[1 .. i] = h[1 .. i - 1] + u + v[i]
  <2>1. n + 1 \in Nat
    OBVIOUS
  <2> QED
    BY <2>1, SumGrows
<1>3. 1 \in T
  <2>1. 1 .. 1 - 1 = {} /\ 1 \in 1 .. n + 1
    OBVIOUS
  <2>2. h[1 .. 1] = h[1 .. 1 - 1] + u + v[1]
    BY <1>2, <2>1
  <2> QED
    BY <1>1, <1>2, <2>1, <2>2
<1>4. ASSUME NEW k \in 1 .. n, k \in T PROVE k + 1 \in T
  <2>1. k + 1 \in 1 .. n + 1 /\ (k + 1) - 1 = k
    OBVIOUS
  <2>2. h[1 .. k + 1] = h[1 .. k] + u + v[k + 1]
    <3>1. h[1 .. k + 1] = h[1 .. (k + 1) - 1] + u + v[k + 1]
      BY <1>2, <2>1
    <3> QED
      BY <2>1, <3>1
  <2>3. g[1 .. k] = g[1 .. k - 1] + u + w[k]
    BY <1>1
  <2>4. h[1 .. k] = g[1 .. k - 1] /\ g[1 .. k - 1] \in Nat
    BY <1>4
  <2>5. h[1 .. k + 1] = g[1 .. k] /\ g[1 .. k] \in Nat
    BY <2>2, <2>3, <2>4, SMTT(60)
  <2>6. g[1 .. (k + 1) - 1] = g[1 .. k]
    BY <2>1
  <2> QED
    BY <2>1, <2>5, <2>6
<1> HIDE DEF T
<1>5. \A i \in 1 .. n + 1 : i \in T
  <2>1. n + 1 \in Nat /\ (n + 1) - 1 = n
    OBVIOUS
  <2>2. \A i \in 1 .. (n + 1) - 1 : i \in T => i + 1 \in T
    BY <1>4, <2>1
  <2> QED
    BY <1>3, <2>1, <2>2, UpTo
<1>6. n + 1 \in T /\ (n + 1) - 1 = n
  BY <1>5
<1> QED
  BY <1>6 DEF T
=============================================================================
