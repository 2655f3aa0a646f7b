------------------------- MODULE PurgeBalanceProofs -------------------------
(***************************************************************************)
(* The loop of purgePVs deals what Deal says, for rings, lists and packets *)
(* of every size, and loses no PV on the way.                              *)
(*                                                                         *)
(* What is invariant is where the loop stands: after k portions, the bins  *)
(* at the multiples of the stride below the k-th hold the portions of      *)
(* their number, all others are empty, and what is in hand is what comes   *)
(* after k portions.                                                       *)
(***************************************************************************)
EXTENDS PurgeBalance, SequenceLemmas

PortionSize == Chunk(Len(given), nBins, SmallPacket)
Apart == Stride(Len(given), nBins, SmallPacket)

DealtOut(k) ==
  [b \in 0 .. nBins - 1 |->
     IF b % Apart = 0 /\ b \div Apart < k THEN Batch(given, PortionSize, b \div Apart)
                                          ELSE <<>>]

InTurn ==
  ~done => \E k \in 0 .. CeilDiv(nBins, Apart) :
    /\ bins = DealtOut(k)
    /\ pvs = After(given, PortionSize, k)
    /\ pvs # <<>> => i = k * Apart

Inv ==
  /\ TypeOK
  /\ InTurn
  /\ done => pvs = <<>>
  /\ DealsAsStated
  /\ NothingLost

-----------------------------------------------------------------------------
LEMMA Sizes ==
  ASSUME TypeOK
  PROVE  /\ nBins \in Nat \ {0} /\ nBins > 2
         /\ Len(given) \in Nat /\ Len(pvs) \in Nat
         /\ PVsPerBin \in Nat
         /\ PortionSize = IF PVsPerBin >= SmallPacket THEN PVsPerBin ELSE SmallPacket
         /\ Apart = IF PVsPerBin < SmallPacket THEN SmallPacket - PVsPerBin ELSE 1
         /\ PortionSize \in Nat \ {0}
         /\ Apart \in Nat \ {0}
         /\ SmallPacket \in Nat \ {0}
<1>1. nBins \in Nat \ {0} /\ nBins > 2 /\ SmallPacket \in Nat \ {0}
  BY PurgeBalanceAssumption DEF TypeOK
<1>2. Len(given) \in Nat /\ Len(pvs) \in Nat
  BY DEF TypeOK
<1>3. PVsPerBin \in Nat
  BY <1>1, <1>2, CeilDivCounts DEF PVsPerBin
<1> QED
  BY <1>1, <1>2, <1>3, ChunkAndStride, ZenonT(60) DEF PortionSize, Apart, Stride, PVsPerBin

\* Whatever its share, a bin gets a portion or all that is left; and if
\* something is left, the next portion goes to the next multiple of Apart.
LEMMA PortionIsFull ==
  ASSUME TypeOK
  PROVE  /\ Portion(Share) = IF PortionSize <= Len(pvs) THEN PortionSize ELSE Len(pvs)
         /\ Skipped(Share) \in Nat
         /\ Portion(Share) < Len(pvs) => 1 + Skipped(Share) = Apart
<1>1. Share = IF PVsPerBin <= Len(pvs) THEN PVsPerBin ELSE Len(pvs)
  BY Sizes, MinOfTwo DEF Share
<1>2. Min({Len(pvs), SmallPacket})
        = IF Len(pvs) <= SmallPacket THEN Len(pvs) ELSE SmallPacket
  BY Sizes, MinOfTwo
<1>3. Portion(Share) = IF Share < SmallPacket
                       THEN IF Len(pvs) <= SmallPacket THEN Len(pvs) ELSE SmallPacket
                       ELSE Share
  BY <1>2 DEF Portion
<1> QED
  BY <1>1, <1>3, Sizes, SMTT(60) DEF Skipped

LEMMA Multiples ==
  ASSUME NEW b \in Nat, NEW d \in Nat \ {0}, NEW k \in Nat
  PROVE  /\ b % d = 0 /\ b \div d = k <=> b = k * d
         /\ b \div d \in Nat /\ k * d \in Nat
         /\ b % d = 0 /\ b \div d < k => b < k * d
<1> DEFINE q == b \div d
           r == b % d
<1>1. q \in Nat /\ r \in 0 .. d - 1 /\ b = d * q + r
  OBVIOUS
<1> HIDE DEF q, r
<1>2. d * q = q * d /\ k * d \in Nat /\ q * d \in Nat
  BY <1>1
<1>3. ASSUME r = 0, q = k PROVE b = k * d
  BY <1>1, <1>2, <1>3
<1>4. q < k => (q + 1) * d <= k * d /\ (q + 1) * d = q * d + d
  <2>1. q + 1 \in Nat
    BY <1>1
  <2> QED
    BY <1>1, <2>1, TimesIsMonotonic
<1>5. k < q => (k + 1) * d <= q * d /\ (k + 1) * d = k * d + d
  <2>1. k + 1 \in Nat
    OBVIOUS
  <2> QED
    BY <1>1, <2>1, TimesIsMonotonic
<1>6. ASSUME b = k * d PROVE r = 0 /\ q = k
  <2>1. q = k
    BY <1>1, <1>2, <1>4, <1>5, <1>6
  <2> QED
    BY <1>1, <1>2, <1>6, <2>1
<1>7. ASSUME r = 0, q < k PROVE b < k * d
  BY <1>1, <1>2, <1>4, <1>7
<1> QED
  BY <1>1, <1>2, <1>3, <1>6, <1>7 DEF q, r

\* One portion more is dealt out.
LEMMA DealtOutGrows ==
  ASSUME TypeOK, NEW k \in Nat, k * Apart < nBins
  PROVE  LET g == k * Apart
             c == Batch(given, PortionSize, k)
         IN  /\ DealtOut(k)[g] = <<>> /\ DealtOut(k + 1)[g] = c
             /\ \A b \in 0 .. nBins - 1 : b # g => DealtOut(k + 1)[b] = DealtOut(k)[b]
             /\ \A b \in 0 .. nBins - 1 : b > g => DealtOut(k)[b] = <<>>
<1> DEFINE g == k * Apart
           e == Apart
<1>1. e \in Nat \ {0} /\ g \in Nat /\ g \in 0 .. nBins - 1 /\ nBins \in Nat
  BY Sizes
<1>2. g % e = 0 /\ g \div e = k /\ ~(k < k) /\ k < k + 1
  BY <1>1, Multiples
<1>3. ASSUME NEW b \in 0 .. nBins - 1, b # g
      PROVE  b % e = 0 /\ b \div e < k + 1 <=> b % e = 0 /\ b \div e < k
  <2>1. b \div e \in Nat /\ ~(b % e = 0 /\ b \div e = k)
    BY <1>1, <1>3, Multiples
  <2> HIDE DEF e
  <2> QED
    BY <2>1
<1>4. ASSUME NEW b \in 0 .. nBins - 1, b > g
      PROVE  ~(b % e = 0 /\ b \div e < k)
  <2>1. b \in Nat /\ (b % e = 0 /\ b \div e < k => b < g)
    BY <1>1, Multiples
  <2> HIDE DEF e, g
  <2> QED
    BY <1>1, <1>4, <2>1
<1>5. \A n \in Nat : \A b \in 0 .. nBins - 1 :
        DealtOut(n)[b] = IF b % e = 0 /\ b \div e < n
                         THEN Batch(given, PortionSize, b \div e) ELSE <<>>
  BY DEF DealtOut
<1>6. k + 1 \in Nat
  OBVIOUS
<1> HIDE DEF e, g
<1>7. DealtOut(k)[g] = <<>> /\ DealtOut(k + 1)[g] = Batch(given, PortionSize, k)
  BY <1>1, <1>2, <1>5, <1>6
<1>8. \A b \in 0 .. nBins - 1 : b # g => DealtOut(k + 1)[b] = DealtOut(k)[b]
  BY <1>3, <1>5, <1>6
<1>9. \A b \in 0 .. nBins - 1 : b > g => DealtOut(k)[b] = <<>>
  BY <1>4, <1>5
<1> QED
  BY <1>7, <1>8, <1>9 DEF g

\* The bins of the state, as NothingLost puts them in order.
Binned(t) == [b \in 1 .. nBins |-> t[b - 1]]

\* What is added to the end of bin g, with only empty bins after it, is added
\* to the end of the PVs dealt.
LEMMA BinGrows ==
  ASSUME TypeOK, NEW g \in 0 .. nBins - 1, NEW p \in Seq(1 .. MaxPVs),
         NEW t \in [0 .. nBins - 1 -> Seq(1 .. MaxPVs)],
         t[g] = bins[g] \o p,
         \A b \in 0 .. nBins - 1 : b # g => t[b] = bins[b],
         \A b \in 0 .. nBins - 1 : b > g => bins[b] = <<>>
  PROVE  FlattenSeq(Binned(t)) = FlattenSeq(Binned(bins)) \o p
<1>1. /\ nBins \in Nat \ {0} /\ g + 1 \in 1 .. nBins /\ (g + 1) - 1 = g
      /\ bins \in [0 .. nBins - 1 -> Seq(1 .. MaxPVs)]
  BY Sizes, SMTT(60) DEF TypeOK
<1>2. \A b \in 1 .. nBins : b - 1 \in 0 .. nBins - 1
  BY <1>1
<1>3. /\ Len(Binned(t)) = nBins /\ \A b \in 1 .. nBins : Binned(t)[b] = t[b - 1]
      /\ Len(Binned(bins)) = nBins /\ \A b \in 1 .. nBins : Binned(bins)[b] = bins[b - 1]
  BY <1>1 DEF Binned
<1>4. Lists(Binned(bins), nBins, 1 .. MaxPVs) /\ Lists(Binned(t), nBins, 1 .. MaxPVs)
  BY <1>1, <1>2, <1>3 DEF Lists
<1>5. GrowsAt(Binned(bins), Binned(t), g + 1, nBins, p)
  <2>1. Binned(t)[g + 1] = Binned(bins)[g + 1] \o p
    BY <1>1, <1>3
  <2>2. ASSUME NEW b \in 1 .. (g + 1) - 1 PROVE Binned(t)[b] = Binned(bins)[b]
    <3>1. b \in 1 .. nBins /\ b - 1 # g /\ b - 1 \in 0 .. nBins - 1
      BY <1>1
    <3> QED
      BY <1>3, <3>1
  <2>3. ASSUME NEW b \in (g + 1) + 1 .. nBins
        PROVE  Binned(t)[b] = <<>> /\ Binned(bins)[b] = <<>>
    <3>1. b \in 1 .. nBins /\ b - 1 # g /\ b - 1 > g /\ b - 1 \in 0 .. nBins - 1
      BY <1>1
    <3> QED
      BY <1>3, <3>1
  <2> QED
    BY <2>1, <2>2, <2>3 DEF GrowsAt
<1> QED
  BY <1>1, <1>4, <1>5, FlattenGrows, SMTT(60)

-----------------------------------------------------------------------------
LEMMA InitInv == Init => Inv
<1> SUFFICES ASSUME Init PROVE Inv
  OBVIOUS
<1>1. PICK n \in 0 .. MaxPVs : given = [k \in 1 .. n |-> k]
  BY DEF Init
<1>2. given \in Seq(1 .. MaxPVs)
  <2>1. n \in Nat /\ MaxPVs \in Nat /\ \A k \in 1 .. n : k \in 1 .. MaxPVs
    BY PurgeBalanceAssumption
  <2>2. given \in [1 .. n -> 1 .. MaxPVs]
    BY <1>1, <2>1
  <2> QED
    BY <2>1, <2>2, SeqDef
<1>3. TypeOK
  <2>1. <<>> \in Seq(1 .. MaxPVs)
    OBVIOUS
  <2> QED
    BY <1>2, <2>1 DEF Init, TypeOK
<1>4. InTurn
  <2>1. /\ Apart \in Nat \ {0} /\ PortionSize \in Nat
        /\ CeilDiv(nBins, Apart) \in Nat /\ nBins \in Nat
    BY <1>3, Sizes, CeilDivCounts
  <2>2. bins = DealtOut(0)
    <3>1. \A b \in 0 .. nBins - 1 : b \div Apart \in Nat
      BY <2>1
    <3>2. \A b \in 0 .. nBins - 1 : ~(b \div Apart < 0)
      BY <3>1
    <3> QED
      BY <3>2 DEF Init, DealtOut
  <2>3. pvs = After(given, PortionSize, 0)
    BY <1>2, <2>1, AfterNone DEF Init
  <2>4. i = 0 * Apart
    BY <2>1 DEF Init
  <2>5. 0 \in 0 .. CeilDiv(nBins, Apart)
    BY <2>1
  <2> QED
    BY <2>2, <2>3, <2>4, <2>5 DEF InTurn
<1>5. NothingLost
  <2>1. nBins \in Nat \ {0} /\ \A b \in 1 .. nBins : b - 1 \in 0 .. nBins - 1
    BY <1>3, Sizes
  <2>2. \A b \in 1 .. nBins : Binned(bins)[b] = <<>>
    BY <2>1 DEF Init, Binned
  <2>3. Len(Binned(bins)) = nBins
    BY <2>1 DEF Binned
  <2>4. FlattenSeq(Binned(bins)) = <<>>
    BY <2>1, <2>2, <2>3, FlattenEmpties
  <2> QED
    BY <1>2, <2>4, ConcatEmptySeq DEF Init, NothingLost, Binned
<1> QED
  BY <1>3, <1>4, <1>5 DEF Init, Inv, DealsAsStated

LEMMA IterateInv == Inv /\ Iterate => Inv'
<1> SUFFICES ASSUME Inv, Iterate PROVE Inv'
  OBVIOUS
<1> DEFINE P == 1 .. MaxPVs
           w == PortionSize
           e == Apart
           p == Portion(Share)
           l == Len(pvs)
<1>1. /\ TypeOK /\ InTurn /\ NothingLost /\ ~done /\ ~done' /\ pvs # <<>> /\ i < nBins
      /\ nBins' = nBins /\ given' = given
      /\ pvs' = SubSeq(pvs, p + 1, l)
      /\ i' = i + 1 + Skipped(Share)
      /\ bins' = [bins EXCEPT ![i] = SubSeq(pvs, 1, p) \o @]
  BY DEF Inv, Iterate, DealsAsStated
<1>2. /\ w' = w /\ e' = e
      /\ w \in Nat \ {0} /\ e \in Nat \ {0} /\ nBins \in Nat \ {0} /\ l \in Nat
      /\ given \in Seq(P) /\ pvs \in Seq(P) /\ bins \in [0 .. nBins - 1 -> Seq(P)]
      /\ i \in 0 .. nBins - 1
  BY <1>1, Sizes, SMTT(60) DEF PortionSize, Apart, TypeOK
<1>3. /\ p = IF w <= l THEN w ELSE l
      /\ Skipped(Share) \in Nat /\ (p < l => 1 + Skipped(Share) = e)
  BY <1>1, PortionIsFull
<1>4. PICK k \in 0 .. CeilDiv(nBins, e) :
        bins = DealtOut(k) /\ pvs = After(given, w, k) /\ i = k * e
  BY <1>1 DEF InTurn
<1>5. CeilDiv(nBins, e) \in Nat /\ \A n \in Nat : n < CeilDiv(nBins, e) <=> n * e < nBins
  BY <1>2, CeilDivCounts
<1> HIDE DEF P, w, e, p, l
<1>6. k \in Nat /\ k + 1 \in 0 .. CeilDiv(nBins, e) /\ k + 1 \in Nat
  BY <1>1, <1>4, <1>5
<1> DEFINE c == Batch(given, w, k)
<1>7. /\ SubSeq(pvs, 1, p) = c /\ pvs' = After(given, w, k + 1)
      /\ pvs = c \o pvs' /\ c \in Seq(P) /\ pvs' \in Seq(P)
      /\ p \in 0 .. l /\ Len(c) = p
  <2> DEFINE t == After(given, w, k)
             y == IF w <= Len(t) THEN w ELSE Len(t)
  <2>1. /\ t \in Seq(P) /\ Len(t) = IF k * w <= Len(given) THEN Len(given) - k * w ELSE 0
        /\ y \in 0 .. Len(t)
        /\ Batch(given, w, k) = SubSeq(t, 1, y)
        /\ After(given, w, k + 1) = SubSeq(t, y + 1, Len(t))
        /\ t = Batch(given, w, k) \o After(given, w, k + 1)
        /\ Batch(given, w, k) \in Seq(P) /\ Len(Batch(given, w, k)) = y
        /\ After(given, w, k + 1) \in Seq(P)
    BY <1>2, <1>6, BatchOfAfter
  <2>2. t = pvs
    BY <1>4
  <2>3. y = p
    BY <1>3, <2>2 DEF l
  <2> HIDE DEF t, y
  <2> QED
    BY <1>1, <2>1, <2>2, <2>3 DEF l
<1>8. /\ DealtOut(k)[i] = <<>> /\ DealtOut(k + 1)[i] = c
      /\ \A b \in 0 .. nBins - 1 : b # i => DealtOut(k + 1)[b] = DealtOut(k)[b]
      /\ \A b \in 0 .. nBins - 1 : b > i => DealtOut(k)[b] = <<>>
  <2>1. k * Apart < nBins /\ k * Apart = i
    BY <1>1, <1>4 DEF e
  <2> QED
    BY <1>1, <1>6, <2>1, DealtOutGrows DEF w
<1> HIDE DEF c
<1>9. bins[i] = <<>> /\ bins' = [bins EXCEPT ![i] = c]
  <2>1. bins[i] = <<>>
    BY <1>4, <1>8
  <2>2. c \o <<>> = c
    BY <1>7, ConcatEmptySeq
  <2> QED
    BY <1>1, <1>2, <1>7, <2>1, <2>2
<1>10. /\ bins' \in [0 .. nBins - 1 -> Seq(P)]
       /\ bins'[i] = c /\ \A b \in 0 .. nBins - 1 : b # i => bins'[b] = bins[b]
  BY <1>2, <1>7, <1>9
<1>11. TypeOK'
  <2>1. i' \in Nat
    BY <1>1, <1>2, <1>3, SMTT(60)
  <2> QED
    BY <1>1, <1>7, <1>10, <2>1 DEF TypeOK, Iterate, P
<1>12. InTurn'
  <2>1. bins' = DealtOut(k + 1)
    <3>1. \A b \in 0 .. nBins - 1 : bins'[b] = DealtOut(k + 1)[b]
      BY <1>4, <1>8, <1>10
    <3>2. DOMAIN bins' = 0 .. nBins - 1 /\ DOMAIN DealtOut(k + 1) = 0 .. nBins - 1
      BY <1>10 DEF DealtOut
    <3>3. bins' = [b \in 0 .. nBins - 1 |-> bins'[b]]
      BY <1>10
    <3>4. DealtOut(k + 1) = [b \in 0 .. nBins - 1 |-> DealtOut(k + 1)[b]]
      BY DEF DealtOut
    <3> QED
      BY <3>1, <3>3, <3>4
  <2>2. ASSUME pvs' # <<>> PROVE i' = (k + 1) * e
    <3>1. p < l
      <4>0. Len(c \o pvs') = Len(c) + Len(pvs')
        BY <1>7, ConcatProperties
      <4>1. l = p + Len(pvs') /\ Len(pvs') \in Nat
        BY <1>7, <4>0 DEF l
      <4>2. Len(pvs') # 0
        BY <1>7, <2>2
      <4> QED
        BY <1>2, <1>7, <4>1, <4>2
    <3>2. (k + 1) * e = k * e + e /\ k * e \in Nat
      BY <1>2, <1>6
    <3>3. 1 + Skipped(Share) = e
      BY <1>3, <3>1
    <3>4. i' = i + 1 + Skipped(Share) /\ i = k * e /\ e \in Nat /\ Skipped(Share) \in Nat
      BY <1>1, <1>2, <1>3, <1>4
    <3> DEFINE m == k * e
               n == (k + 1) * e
               r == Skipped(Share)
    <3>5. n = m + e /\ m \in Nat /\ 1 + r = e /\ i' = m + 1 + r /\ r \in Nat
      BY <3>2, <3>3, <3>4
    <3> HIDE DEF m, n, r
    <3>6. i' = n
      BY <3>5
    <3> QED
      BY <3>6 DEF n
  <2>3. (\E n \in 0 .. CeilDiv(nBins, e) :
           bins = DealtOut(n) /\ pvs = After(given, w, n) /\ (pvs # <<>> => i = n * e))'
    <3>1. \E n \in 0 .. CeilDiv(nBins, e) :
            /\ bins' = DealtOut(n) /\ pvs' = After(given, w, n)
            /\ pvs' # <<>> => i' = n * e
      BY <1>6, <1>7, <2>1, <2>2
    <3>2. \A n : DealtOut(n)' = DealtOut(n)
      BY <1>1 DEF DealtOut, PortionSize, Apart
    <3> QED
      BY <1>1, <1>2, <3>1, <3>2 DEF w, e
  <2> QED
    BY <2>3 DEF InTurn, w, e
<1>13. NothingLost'
  <2> DEFINE F == FlattenSeq(Binned(bins))
             G == FlattenSeq([b \in 1 .. nBins |-> bins'[b - 1]])
  <2>1. Binned(bins') = [b \in 1 .. nBins |-> bins'[b - 1]]
    BY DEF Binned
  <2>2. bins'[i] = bins[i] \o c
    <3>1. <<>> \o c = c
      BY <1>7, ConcatEmptySeq
    <3> QED
      BY <1>9, <1>10, <3>1
  <2>3. \A b \in 0 .. nBins - 1 : b > i => bins[b] = <<>>
    BY <1>4, <1>8
  <2>4. FlattenSeq(Binned(bins')) = F \o c
    BY <1>1, <1>2, <1>7, <1>10, <2>2, <2>3, BinGrows, ZenonT(60) DEF P
  <2>5. F \in Seq(P)
    <3>1. Lists(Binned(bins), nBins, P)
      <4>1. \A b \in 1 .. nBins : b - 1 \in 0 .. nBins - 1
        BY <1>2
      <4> QED
        BY <1>2, <4>1 DEF Lists, Binned
    <3> QED
      BY <1>2, <3>1, FlattenLists
  <2>6. F \o pvs = given
    BY <1>1 DEF NothingLost, Binned
  <2> HIDE DEF F
  <2>7. \A x, y, z \in Seq(P) : (x \o y) \o z = x \o (y \o z)
    BY ConcatAssociative, SMTT(60)
  <2>8. (F \o c) \o pvs' = F \o (c \o pvs')
    BY <1>7, <2>5, <2>7, ZenonT(60)
  <2>9. G \o pvs' = given
    BY <1>7, <2>1, <2>4, <2>6, <2>8
  <2> QED
    BY <1>1, <2>9 DEF NothingLost
<1> QED
  BY <1>1, <1>11, <1>12, <1>13 DEF Inv, DealsAsStated

LEMMA AppendRestInv == Inv /\ AppendRest => Inv'
<1> SUFFICES ASSUME Inv, AppendRest PROVE Inv'
  OBVIOUS
<1> DEFINE P == 1 .. MaxPVs
           w == PortionSize
           e == Apart
           z == CeilDiv(nBins, e)
           D == Deal(given, nBins, SmallPacket)
<1>1. /\ TypeOK /\ InTurn /\ NothingLost /\ ~done /\ done'
      /\ ~(i < nBins /\ pvs # <<>>)
      /\ nBins' = nBins /\ given' = given /\ i' = i /\ pvs' = <<>>
      /\ bins' = [bins EXCEPT ![nBins - 1] = @ \o pvs]
  BY DEF Inv, AppendRest
<1>2. /\ w \in Nat \ {0} /\ e \in Nat \ {0} /\ nBins \in Nat \ {0}
      /\ given \in Seq(P) /\ pvs \in Seq(P) /\ bins \in [0 .. nBins - 1 -> Seq(P)]
      /\ i \in Nat /\ nBins - 1 \in 0 .. nBins - 1
  BY <1>1, Sizes DEF TypeOK
<1>3. PICK k \in 0 .. z : /\ bins = DealtOut(k) /\ pvs = After(given, w, k)
                          /\ pvs # <<>> => i = k * e
  BY <1>1 DEF InTurn
<1>4. z \in Nat /\ \A n \in Nat : n < z <=> n * e < nBins
  BY <1>2, CeilDivCounts
<1>5. \A b \in 0 .. nBins - 1 :
        /\ D[b] = (IF b % e = 0 THEN Batch(given, w, b \div e) ELSE <<>>)
                     \o (IF b = nBins - 1 THEN After(given, w, z) ELSE <<>>)
        /\ DealtOut(k)[b] = IF b % e = 0 /\ b \div e < k
                            THEN Batch(given, w, b \div e) ELSE <<>>
        /\ b \div e \in Nat
  <2>1. \A b \in 0 .. nBins - 1 : b \div e \in Nat
    <3> HIDE DEF e, P, w, z, D
    <3> TAKE b \in 0 .. nBins - 1
    <3>1. b \in Nat /\ e \in Nat \ {0}
      BY <1>2
    <3> QED
      BY <3>1, DivIsNat
  <2> QED
    BY <2>1, Zenon DEF Deal, DealtOut, PortionSize, Apart
<1>6. D = [b \in 0 .. nBins - 1 |-> D[b]]
  BY DEF Deal
<1>7. \A b \in 0 .. nBins - 1 : b % e = 0 => b \div e < z
  <2> TAKE b \in 0 .. nBins - 1
  <2> HAVE b % e = 0
  <2> DEFINE q == b \div e
  <2> HIDE DEF e, P, w, z, D
  <2>0. q \in Nat /\ b \in Nat
    <3>1. b \in Nat /\ e \in Nat \ {0}
      BY <1>2
    <3> QED
      BY <3>1, DivIsNat
  <2>1. b = q * e
    BY <1>2, <2>0, Multiples
  <2> HIDE DEF q
  <2>2. q * e < nBins
    BY <1>2, <2>0, <2>1
  <2>3. q < z
    BY <1>4, <2>0, <2>2 DEF e
  <2> QED
    BY <2>3 DEF q
<1>8. \A q \in Seq(P) : q \o <<>> = q /\ <<>> \o q = q
  BY ConcatEmptySeq
<1> HIDE DEF P, w, e, z, D
<1>9. k \in Nat
  BY <1>3, <1>4
<1>10. /\ bins' \in [0 .. nBins - 1 -> Seq(P)]
       /\ bins'[nBins - 1] = bins[nBins - 1] \o pvs
       /\ \A b \in 0 .. nBins - 1 : b # nBins - 1 => bins'[b] = bins[b]
  <2>1. bins[nBins - 1] \o pvs \in Seq(P)
    BY <1>2
  <2> QED
    BY <1>1, <1>2, <2>1
<1>11. \A b \in 0 .. nBins - 1 :
         bins'[b] = bins[b] \o (IF b = nBins - 1 THEN pvs ELSE <<>>)
  <2> TAKE b \in 0 .. nBins - 1
  <2>1. bins[b] \in Seq(P)
    BY <1>2
  <2>2. bins[b] \o <<>> = bins[b]
    BY <1>8, <2>1
  <2> QED
    BY <1>10, <2>2
\* What the loop did not take, and the bins it did not reach.
<1>12. pvs = After(given, w, z)
       /\ \A b \in 0 .. nBins - 1 :
            b % e = 0 => DealtOut(k)[b] = Batch(given, w, b \div e)
  <2>1. CASE pvs = <<>>
    <3>1. \A n \in Nat : n >= k => After(given, w, n) = <<>> /\ Batch(given, w, n) = <<>>
      BY <1>2, <1>3, <1>9, <2>1, AfterAll
    <3>2. z >= k /\ z \in Nat
      BY <1>3, <1>4
    <3>3. ASSUME NEW b \in 0 .. nBins - 1, b % e = 0
          PROVE  DealtOut(k)[b] = Batch(given, w, b \div e)
      <4> DEFINE q == b \div e
      <4>1. /\ q \in Nat
            /\ DealtOut(k)[b] = IF q < k THEN Batch(given, w, q) ELSE <<>>
        BY <1>5, <3>3
      <4> HIDE DEF q
      <4>2. DealtOut(k)[b] = Batch(given, w, q)
        BY <1>9, <3>1, <4>1
      <4> QED
        BY <4>2 DEF q
    <3> QED
      BY <2>1, <3>1, <3>2, <3>3
  <2>2. CASE pvs # <<>>
    <3>1. ~(k * e < nBins)
      BY <1>1, <1>3, <2>2
    <3>2. ~(k < z)
      BY <1>4, <1>9, <3>1
    <3>3. k = z
      BY <1>3, <1>4, <3>2
    <3> QED
      BY <1>3, <1>5, <1>7, <3>3
  <2> QED
    BY <2>1, <2>2
<1>13. bins' = D
  <2>1. \A b \in 0 .. nBins - 1 : bins'[b] = D[b]
    <3> TAKE b \in 0 .. nBins - 1
    <3>1. DealtOut(k)[b] = IF b % e = 0 THEN Batch(given, w, b \div e) ELSE <<>>
      BY <1>5, <1>12
    <3> QED
      BY <1>3, <1>5, <1>11, <1>12, <3>1
  <2>2. bins' = [b \in 0 .. nBins - 1 |-> bins'[b]]
    BY <1>10
  <2> QED
    BY <1>6, <2>1, <2>2
<1>14. TypeOK'
  <2>1. <<>> \in Seq(P)
    OBVIOUS
  <2> QED
    BY <1>1, <1>10, <2>1 DEF TypeOK, P
<1>15. NothingLost'
  <2> DEFINE F == FlattenSeq(Binned(bins))
             g == nBins - 1
  <2>1. g \in 0 .. nBins - 1 /\ ~\E b \in 0 .. nBins - 1 : b > g
    BY <1>2
  <2>2. FlattenSeq(Binned(bins')) = F \o pvs
    <3> HIDE DEF g
    <3>1. bins'[g] = bins[g] \o pvs /\ \A b \in 0 .. nBins - 1 : b # g => bins'[b] = bins[b]
      BY <1>10 DEF g
    <3> QED
      BY <1>1, <1>2, <1>10, <2>1, <3>1, BinGrows DEF P
  <2>3. FlattenSeq(Binned(bins')) = given
    BY <1>1, <2>2 DEF NothingLost, Binned
  <2>4. given \o <<>> = given
    BY <1>2, <1>8
  <2>5. Binned(bins') = [b \in 1 .. nBins |-> bins'[b - 1]]
    BY DEF Binned
  <2> QED
    BY <1>1, <2>3, <2>4, <2>5 DEF NothingLost
<1> QED
  BY <1>1, <1>13, <1>14, <1>15 DEF Inv, InTurn, DealsAsStated, D

LEMMA Invariance == Spec => []Inv
<1>1. Inv /\ [Next]_vars => Inv'
  <2> SUFFICES ASSUME Inv, [Next]_vars PROVE Inv'
    OBVIOUS
  <2>1. CASE Iterate
    BY <2>1, IterateInv
  <2>2. CASE AppendRest
    BY <2>2, AppendRestInv
  <2>3. CASE UNCHANGED vars
    BY <2>3 DEF vars, Inv, TypeOK, InTurn, DealtOut, PortionSize, Apart,
                DealsAsStated, NothingLost
  <2> QED
    BY <2>1, <2>2, <2>3 DEF Next
<1> QED
  BY <1>1, InitInv, PTL DEF Spec

-----------------------------------------------------------------------------
\* The loop computes Deal, for a ring of any size and a list of any length.
THEOREM LoopIsDeal == Spec => []DealsAsStated
<1>1. Inv => DealsAsStated
  BY DEF Inv
<1> QED
  BY <1>1, Invariance, PTL

\* No iteration loses, repeats or reorders a PV.
THEOREM NoneLost == Spec => []NothingLost
<1>1. Inv => NothingLost
  BY DEF Inv
<1> QED
  BY <1>1, Invariance, PTL

\* No bin but the last is ever given more than its share or one packet.
THEOREM BinsAreBounded == Spec => []NoBinOverloaded
<1>1. Inv => NoBinOverloaded
  <2> SUFFICES ASSUME Inv, NEW g \in 0 .. nBins - 2
               PROVE  Len(bins[g]) <= Max({PVsPerBin, SmallPacket})
    BY DEF NoBinOverloaded
  <2> DEFINE P == 1 .. MaxPVs
             w == PortionSize
             e == Apart
             q == g \div e
  <2>1. /\ TypeOK /\ w = Max({PVsPerBin, SmallPacket}) /\ w \in Nat /\ e \in Nat \ {0}
        /\ given \in Seq(P) /\ g \in 0 .. nBins - 1 /\ g # nBins - 1
    BY Sizes DEF Inv, TypeOK, PortionSize, Chunk, PVsPerBin
  <2>2. q \in Nat
    BY <2>1
  <2>3. Len(Batch(given, w, q)) <= w /\ Batch(given, w, q) \in Seq(P)
    <3> HIDE DEF P, w, q
    <3> QED
      BY <2>1, <2>2, AfterSplits
  <2>4. bins[g] = Batch(given, w, q) \/ bins[g] = <<>>
    <3>1. CASE done
      <4>1. bins[g] = Deal(given, nBins, SmallPacket)[g]
        BY <3>1 DEF Inv, DealsAsStated
      <4>2. bins[g] = (IF g % e = 0 THEN Batch(given, w, q) ELSE <<>>) \o <<>>
        BY <2>1, <4>1, Zenon DEF Deal, PortionSize, Apart
      <4>3. Batch(given, w, q) \o <<>> = Batch(given, w, q) /\ <<>> \o <<>> = <<>>
        BY <2>3, ConcatEmptySeq
      <4> HIDE DEF w, e, q
      <4> QED
        BY <4>2, <4>3
    <3>2. CASE ~done
      <4>1. PICK k \in 0 .. CeilDiv(nBins, Apart) : bins = DealtOut(k)
        BY <3>2 DEF Inv, InTurn
      <4> QED
        BY <2>1, <4>1, Zenon DEF DealtOut
    <3> QED
      BY <3>1, <3>2
  <2> HIDE DEF w
  <2> QED
    BY <2>1, <2>3, <2>4
<1> QED
  BY <1>1, Invariance, PTL
=============================================================================
