--------------------------- MODULE SearcherProofs ---------------------------
(***************************************************************************)
(* What the table of searched PVs promises, for any number of PVs, any     *)
(* list of intervals and any purge delay; and what the server as a whole   *)
(* (NameServer) promises, which has the same table.                        *)
(***************************************************************************)
EXTENDS Searcher, NameServer, SequenceLemmas

-----------------------------------------------------------------------------
\* The inductive invariant, in parts.

\* NoDuplicates of any table.
Unique(t) ==
  \A b, c \in Bin : \A i \in 1 .. Len(t[b]), j \in 1 .. Len(t[c]) :
     t[b][i].pvname = t[c][j].pvname => b = c /\ i = j

\* The observers of a PV are at rest while no bin holds it.
AtRest ==
  \A p \in PV : p \notin Searched(bins) => waited[p] = 0 /\ promised[p] = 0

\* The age of an entry, next to the age of the last purge.
AgeInv(e) ==
  /\ e.idle < sincePurge + PurgePeriod
  /\ wanted[e.pvname] = "no" => e.idle >= sincePurge
  /\ wanted[e.pvname] = "early" => e.idle < sincePurge
  /\ wanted[e.pvname] = "yes" => e.idle + MaxStall < sincePurge

\* A purge that is due is put off only as long as no iteration ends.
PurgeInTime ==
  /\ sincePurge <= PurgePeriod + lost
  /\ iterated => sincePurge < PurgePeriod
  /\ ~warm => sincePurge = 0

TableInv ==
  /\ TypeOK
  /\ Unique(bins)
  /\ AtRest
  /\ \A b \in Bin : \A i \in 1 .. Len(bins[b]) : AgeInv(bins[b][i])
  /\ PurgeInTime

\* The rounds until the ring reaches bin b.
Ahead(b) == (b + NBins - currentBin) % NBins

ScheduleInv ==
  \A b \in Bin : \A i \in 1 .. Len(bins[b]) :
    LET p == bins[b][i].pvname
    IN  promised[p] # 0 => promised[p] <= NBins /\ Ahead(b) = promised[p] - waited[p] - 1

\* How far the ticks since the last purge may be ahead of the rounds since.
Lead == lost + IF phase = "io" THEN IF iterated THEN 0 ELSE 1
                               ELSE IF iterated THEN -1 ELSE 0

\* A PV that has been asked for since the last purge will be within one turn
\* of the ring; the others are in bins that the ring has not reached since it
\* started over.
WaitInv ==
  \A b \in Bin : \A i \in 1 .. Len(bins[b]) :
    LET p == bins[b][i].pvname
    IN  \/ waited[p] + Ahead(b) <= NBins - 1
        \/ /\ waited[p] + Ahead(b) <= 2 * NBins - 2
           /\ warm /\ currentBin <= b /\ sincePurge <= currentBin + Lead
-----------------------------------------------------------------------------
\* Constants and tables.

Entry == SearchedPV(ChanId, 0 .. MaxIdle)
Table(t) == t \in [Bin -> Seq(Entry)]

LEMMA Numbers ==
  /\ Intervals \in Seq(Nat) /\ Len(Intervals) \in Nat /\ Len(Intervals) > 2
  /\ \A i \in 1 .. Len(Intervals) : Intervals[i] \in Nat
  /\ NBins \in Nat /\ NBins > 2 /\ Intervals[Len(Intervals)] = NBins
  /\ PurgePeriod \in Nat \ {0} /\ MaxIdle \in Nat /\ MaxIdle = PurgePeriod + PurgeLimit
  /\ MaxStall \in Nat /\ PurgeLimit \in Nat /\ PurgeLimit = PurgePeriod + MaxStall
  /\ MaxWait \in Nat /\ MaxWait = 2 * NBins
  /\ PurgeDelay \in Nat /\ TicksPerSecond \in Nat \ {0} /\ SmallPacket \in Nat \ {0}
<1> DEFINE d == [i \in DOMAIN SearchIntervals |-> TicksPerSecond * SearchIntervals[i]]
           n == Len(SearchIntervals)
<1>1. /\ TicksPerSecond \in Nat \ {0} /\ PurgeDelay \in Nat \ {0} /\ NBins > 2
      /\ SearchIntervals \in Seq(Nat) /\ SearchIntervals # <<>> /\ SmallPacket \in Nat \ {0}
  BY SearchBinsAssumption
<1>2. n \in Nat /\ n > 0 /\ DOMAIN SearchIntervals = 1 .. n
  BY <1>1
<1>3. \A i \in 1 .. n : TicksPerSecond * SearchIntervals[i] \in Nat
  BY <1>1
<1>4. d \in Seq(Nat) /\ Len(d) = n
  <2> HIDE DEF n
  <2>1. d \in [1 .. n -> Nat]
    BY <1>2, <1>3
  <2> HIDE DEF d
  <2> QED
    BY <1>2, <2>1
<1> HIDE DEF d
<1>5. <<1, 2>> \in Seq(Nat) /\ Len(<<1, 2>>) = 2
  OBVIOUS
<1>6. Intervals = <<1, 2>> \o d
  BY DEF Intervals, d
<1>7. Intervals \in Seq(Nat) /\ Len(Intervals) = 2 + n
  BY <1>4, <1>5, <1>6, ConcatProperties
<1>8. \A i \in 1 .. Len(Intervals) : Intervals[i] \in Nat
  BY <1>7
<1>9. Len(Intervals) \in 1 .. Len(Intervals) /\ Len(Intervals) > 2
  BY <1>2, <1>7
<1>10. NBins = Intervals[Len(Intervals)] /\ NBins \in Nat
  BY <1>8, <1>9 DEF NBins, Last
<1>11. PurgePeriod \in Nat \ {0}
  BY <1>1 DEF PurgePeriod
<1> QED
  BY <1>1, <1>7, <1>8, <1>9, <1>10, <1>11, SearchTableAssumption DEF MaxIdle, MaxWait, PurgeLimit

LEMMA Bins == /\ Bin \subseteq Nat /\ 0 \in Bin
              /\ \A n \in Nat : n % NBins \in Bin
              /\ \A b \in Bin : b < NBins /\ b + 1 \in 1 .. NBins /\ (b + 1) - 1 = b
              /\ \A i \in 1 .. NBins : i - 1 \in Bin
<1>1. NBins \in Nat /\ NBins > 2
  BY Numbers
<1> QED
  BY <1>1 DEF Bin

LEMMA Entries1 ==
  ASSUME NEW t, Table(t), NEW b \in Bin
  PROVE  /\ t[b] \in Seq(Entry) /\ Len(t[b]) \in Nat /\ DOMAIN t[b] = 1 .. Len(t[b])
         /\ \A i \in 1 .. Len(t[b]) :
              /\ t[b][i] \in Entry /\ t[b][i].pvname \in PV /\ t[b][i].chanId \in ChanId
              /\ t[b][i].idle \in 0 .. MaxIdle /\ t[b][i].idle \in Nat
              /\ t[b][i].next \in 1 .. Len(Intervals)
<1>1. t[b] \in Seq(Entry)
  BY DEF Table
<1>2. DOMAIN Intervals = 1 .. Len(Intervals) /\ MaxIdle \in Nat
  BY Numbers
<1>3. \A i \in 1 .. Len(t[b]) : t[b][i] \in Entry
  BY <1>1
<1>4. ASSUME NEW e \in Entry
      PROVE  /\ e.pvname \in PV /\ e.chanId \in ChanId /\ e.idle \in 0 .. MaxIdle /\ e.idle \in Nat
             /\ e.next \in 1 .. Len(Intervals)
  BY <1>2 DEF Entry, SearchedPV
<1> HIDE DEF Entry
<1>5. Len(t[b]) \in Nat /\ DOMAIN t[b] = 1 .. Len(t[b])
  BY <1>1
<1> QED
  BY <1>1, <1>3, <1>4, <1>5

LEMMA SearchedMeans ==
  ASSUME NEW t, Table(t)
  PROVE  \A p : p \in Searched(t) <=>
                \E b \in Bin : \E i \in 1 .. Len(t[b]) : t[b][i].pvname = p
<1>1. \A b \in Bin : DOMAIN t[b] = 1 .. Len(t[b])
  BY Entries1
<1>2. \A e : e \in Entries(t) <=> \E b \in Bin : \E i \in 1 .. Len(t[b]) : e = t[b][i]
  BY <1>1 DEF Entries, ToSet
<1> QED
  BY <1>2 DEF Searched

-----------------------------------------------------------------------------
\* One entry taken out.

\* u is t with fewer entries in its bins.
Thinned(t, u) ==
  /\ Table(u) /\ Unique(u)
  /\ \A b \in Bin : \A i \in 1 .. Len(u[b]) : \E j \in 1 .. Len(t[b]) : u[b][i] = t[b][j]

\* t without its entry for p.
Dropped(t, u, p) ==
  /\ Thinned(t, u) /\ p \notin Searched(u)
  /\ \A q \in Searched(t) : q = p \/ q \in Searched(u)

LEMMA SamePlace ==
  ASSUME NEW t, Unique(t), NEW b \in Bin, NEW i \in 1 .. Len(t[b]),
         NEW c \in Bin, NEW j \in 1 .. Len(t[c]), t[b][i].pvname = t[c][j].pvname
  PROVE  b = c /\ i = j
BY DEF Unique

LEMMA RemoveOne ==
  ASSUME NEW t, Table(t), Unique(t), NEW g \in Bin, NEW x \in 1 .. Len(t[g])
  PROVE  Dropped(t, [t EXCEPT ![g] = RemoveAt(@, x)], t[g][x].pvname)
<1> DEFINE u == [t EXCEPT ![g] = RemoveAt(@, x)]
           p == t[g][x].pvname
           r == RemoveAt(t[g], x)
           l == Len(t[g])
           at(b, i) == IF b = g /\ i >= x THEN i + 1 ELSE i
<1>1. t[g] \in Seq(Entry) /\ l \in Nat /\ x \in Nat
  BY Entries1
<1>2. /\ r \in Seq(Entry) /\ Len(r) = l - 1
      /\ \A j \in 1 .. l - 1 : r[j] = IF j < x THEN t[g][j] ELSE t[g][j + 1]
  BY <1>1, RemoveAtProperties
<1> HIDE DEF r
<1>3. u[g] = r /\ (\A b \in Bin : b # g => u[b] = t[b]) /\ Table(u)
  BY <1>2 DEF Table, r
<1> HIDE DEF u
<1>4. ASSUME NEW b \in Bin, NEW i \in 1 .. Len(u[b])
      PROVE  /\ at(b, i) \in 1 .. Len(t[b]) /\ u[b][i] = t[b][at(b, i)]
             /\ ~(b = g /\ at(b, i) = x)
  <2>1. CASE b = g
    <3>1. i \in 1 .. l - 1
      BY <1>2, <1>3, <2>1
    <3>2. u[b][i] = IF i < x THEN t[g][i] ELSE t[g][i + 1]
      BY <1>2, <1>3, <2>1, <3>1
    <3> QED
      BY <1>1, <2>1, <3>1, <3>2
  <2>2. CASE b # g
    BY <1>3, <2>2
  <2> QED
    BY <2>1, <2>2
<1>5. \A b \in Bin : \A i, j \in 1 .. Len(u[b]) : at(b, i) = at(b, j) => i = j
  <2> TAKE b \in Bin
  <2> TAKE i, j \in 1 .. Len(u[b])
  <2>1. i \in Nat /\ j \in Nat
    BY <1>3, Entries1
  <2> QED
    BY <1>1, <2>1
<1> HIDE DEF at
<1>6. Unique(u)
  <2> SUFFICES ASSUME NEW b \in Bin, NEW c \in Bin,
                      NEW i \in 1 .. Len(u[b]), NEW j \in 1 .. Len(u[c]),
                      u[b][i].pvname = u[c][j].pvname
               PROVE  b = c /\ i = j
    BY DEF Unique
  <2>1. /\ at(b, i) \in 1 .. Len(t[b]) /\ at(c, j) \in 1 .. Len(t[c])
        /\ t[b][at(b, i)].pvname = t[c][at(c, j)].pvname
    BY <1>4
  <2>2. b = c /\ at(b, i) = at(c, j)
    BY <2>1, SamePlace, SMTT(60)
  <2> QED
    BY <1>5, <2>2
<1>7. Thinned(t, u)
  BY <1>3, <1>4, <1>6 DEF Thinned
<1>8. p \notin Searched(u)
  <2> SUFFICES ASSUME p \in Searched(u) PROVE FALSE
    OBVIOUS
  <2>1. PICK b \in Bin : \E i \in 1 .. Len(u[b]) : u[b][i].pvname = p
    BY <1>3, SearchedMeans
  <2>2. PICK i \in 1 .. Len(u[b]) : u[b][i].pvname = p
    BY <2>1
  <2>3. b = g /\ at(b, i) = x
    BY <1>4, <2>2, SMTT(60) DEF Unique
  <2> QED
    BY <1>4, <2>3
<1>9. ASSUME NEW q \in Searched(t), q # p PROVE q \in Searched(u)
  <2>1. PICK b \in Bin : \E j \in 1 .. Len(t[b]) : t[b][j].pvname = q
    BY SearchedMeans
  <2>2. CASE b # g
    BY <1>3, <2>1, <2>2, SearchedMeans
  <2>3. CASE b = g
    <3>0. PICK j \in 1 .. Len(t[b]) : t[b][j].pvname = q
      BY <2>1
    <3>1. j # x /\ j \in 1 .. l
      BY <1>9, <2>3, <3>0
    <3>2. PICK i \in 1 .. l - 1 : j = IF i < x THEN i ELSE i + 1
      <4>1. CASE j < x
        <5>1. j \in 1 .. l - 1
          BY <1>1, <3>1, <4>1
        <5> QED
          BY <4>1, <5>1
      <4>2. CASE ~(j < x)
        <5>1. j - 1 \in 1 .. l - 1 /\ ~(j - 1 < x) /\ (j - 1) + 1 = j
          BY <1>1, <3>1, <4>2
        <5> QED
          BY <5>1
      <4> QED
        BY <4>1, <4>2
    <3>3. i \in 1 .. Len(u[g]) /\ u[g][i] = t[g][j]
      BY <1>2, <1>3, <3>2
    <3>4. u[g][i].pvname = q
      BY <2>3, <3>0, <3>3
    <3> QED
      BY <1>3, <3>3, <3>4, SearchedMeans
  <2> QED
    BY <2>2, <2>3
<1> QED
  BY <1>7, <1>8, <1>9 DEF u, Dropped

\* The first entry of a bin that passes a test is there if any is.
LEMMA FirstOf ==
  ASSUME NEW l \in Nat, NEW I \in SUBSET (1 .. l), I # {}
  PROVE  Min(I) \in I
<1>1. I \in SUBSET Nat
  OBVIOUS
<1> QED
  BY <1>1, MinOfNats

LEMMA ThinnedNames ==
  ASSUME NEW t, Table(t), NEW u, Thinned(t, u), NEW q \in Searched(u)
  PROVE  q \in Searched(t)
<1>1. PICK b \in Bin : \E i \in 1 .. Len(u[b]) : u[b][i].pvname = q
  BY SearchedMeans DEF Thinned
<1>2. \E j \in 1 .. Len(t[b]) : t[b][j].pvname = q
  BY <1>1 DEF Thinned
<1> QED
  BY <1>2, SearchedMeans

LEMMA RemovePVOne ==
  ASSUME NEW t, Table(t), Unique(t), NEW p \in PV
  PROVE  Dropped(t, RemovePV(t, p), p)
<1> DEFINE holding == {b \in Bin : \E e \in ToSet(t[b]) : e.pvname = p}
           u == RemovePV(t, p)
<1>1. \A b \in Bin : b \in holding <=> \E i \in 1 .. Len(t[b]) : t[b][i].pvname = p
  BY Entries1 DEF ToSet
<1>2. CASE holding = {}
  <2>1. u = t
    BY <1>2 DEF RemovePV
  <2>2. p \notin Searched(t)
    BY <1>1, <1>2, SearchedMeans
  <2> QED
    BY <2>1, <2>2 DEF Thinned, Dropped
<1>3. CASE holding # {}
  <2> DEFINE g == Min(holding)
             I == {i \in 1 .. Len(t[g]) : t[g][i].pvname = p}
             x == Min(I)
  <2>1. holding \in SUBSET Nat
    BY Bins
  <2>2. g \in holding
    BY <1>3, <2>1, MinOfNats
  <2>3. g \in Bin /\ \E i \in 1 .. Len(t[g]) : t[g][i].pvname = p
    BY <1>1, <2>2
  <2>4. Len(t[g]) \in Nat /\ I # {} /\ I \in SUBSET (1 .. Len(t[g]))
    BY <2>3, Entries1
  <2>5. x \in 1 .. Len(t[g]) /\ t[g][x].pvname = p
    BY <2>4, FirstOf
  <2>6. u = [t EXCEPT ![g] = RemoveFirstMatch(@, LAMBDA e : e.pvname = p)]
    BY <1>3 DEF RemovePV
  <2>7. RemoveFirstMatch(t[g], LAMBDA e : e.pvname = p) = RemoveAt(t[g], x)
    BY <2>3, <2>4 DEF RemoveFirstMatch, SelectInSeq
  <2> HIDE DEF g, x, u
  <2>8. u = [t EXCEPT ![g] = RemoveAt(@, x)]
    BY <2>6, <2>7
  <2> QED
    <3>1. Dropped(t, [t EXCEPT ![g] = RemoveAt(@, x)], t[g][x].pvname)
      BY <2>3, <2>5, RemoveOne
    <3> QED
      BY <2>5, <2>8, <3>1 DEF u
<1> QED
  BY <1>2, <1>3

LEMMA ScanBinInRing ==
  ASSUME NEW c \in Bin, NEW i \in Bin
  PROVE  ScanBin(c, i) \in Bin
<1>1. NBins \in Nat /\ NBins > 2 /\ c \in Nat /\ i \in Nat
  BY Numbers, Bins
<1>2. SizeMaxMod \in Bin
  <2> DEFINE m32 == ((65536 % NBins) * (65536 % NBins)) % NBins
             z == ((m32 * m32) % NBins) + NBins - 1
  <2>1. 65536 % NBins \in Nat
    BY <1>1
  <2>2. m32 \in Nat
    BY <1>1, <2>1
  <2> HIDE DEF m32
  <2>3. (m32 * m32) % NBins \in Nat
    BY <1>1, <2>2
  <2>4. z \in Nat
    BY <1>1, <2>3
  <2>5. SizeMaxMod = z % NBins
    BY DEF SizeMaxMod, m32
  <2> HIDE DEF z
  <2> QED
    BY <2>4, <2>5, Bins
<1>3. CASE c + i # 0
  <2>1. c + i - 1 \in Nat
    BY <1>1, <1>3
  <2> QED
    BY <1>3, <2>1, Bins DEF ScanBin
<1> QED
  BY <1>2, <1>3 DEF ScanBin

LEMMA EraseHitOne ==
  ASSUME NEW t, Table(t), Unique(t), NEW c \in Bin, NEW id, HitsOf(t, c, id) # {}
  PROVE  /\ HitEntry(t, c, id).pvname \in PV
         /\ HitEntry(t, c, id).pvname \in Searched(t)
         /\ Dropped(t, EraseHit(t, c, id), HitEntry(t, c, id).pvname)
<1> DEFINE h == Min(HitsOf(t, c, id))
           g == HitBin(t, c, id)
           I == {i \in 1 .. Len(t[g]) : t[g][i].chanId = id}
           x == Min(I)
           u == EraseHit(t, c, id)
<1>1. HitsOf(t, c, id) \in SUBSET Nat
  BY Bins DEF HitsOf
<1>2. h \in HitsOf(t, c, id)
  BY <1>1, MinOfNats
<1>3. h \in Bin /\ g = ScanBin(c, h) /\ \E e \in ToSet(t[g]) : e.chanId = id
  BY <1>2 DEF HitsOf, HitBin
<1>4. g \in Bin
  BY <1>3, ScanBinInRing
<1> HIDE DEF g, h
<1>5. \E i \in 1 .. Len(t[g]) : t[g][i].chanId = id
  BY <1>3, <1>4, Entries1 DEF ToSet
<1>6. Len(t[g]) \in Nat /\ I # {} /\ I \in SUBSET (1 .. Len(t[g]))
  BY <1>4, <1>5, Entries1
<1>7. x \in 1 .. Len(t[g])
  BY <1>6, FirstOf
<1>8. HitEntry(t, c, id) = t[g][x]
  BY <1>6, Zenon DEF HitEntry, SelectInSeq, g
<1>9. u = [t EXCEPT ![g] = RemoveFirstMatch(@, LAMBDA e : e.chanId = id)]
  BY DEF EraseHit, g
<1>10. RemoveFirstMatch(t[g], LAMBDA e : e.chanId = id) = RemoveAt(t[g], x)
  BY <1>5, <1>6 DEF RemoveFirstMatch, SelectInSeq
<1> HIDE DEF x, u
<1>11. u = [t EXCEPT ![g] = RemoveAt(@, x)]
  BY <1>9, <1>10
<1>12. t[g][x].pvname \in PV /\ t[g][x].pvname \in Searched(t)
  BY <1>4, <1>7, Entries1, SearchedMeans
<1>13. Dropped(t, [t EXCEPT ![g] = RemoveAt(@, x)], t[g][x].pvname)
  BY <1>4, <1>7, RemoveOne
<1> QED
  BY <1>8, <1>11, <1>12, <1>13 DEF u

-----------------------------------------------------------------------------
\* A round: where the entries of the current bin go.

Moving(t, cur, b) == {i \in 1 .. Len(t[cur]) : Moves(t[cur][i]) /\ NextBin(t[cur][i], cur) = b}
Staying(t, cur) == {i \in 1 .. Len(t[cur]) : ~Moves(t[cur][i])}

\* The two parts of a bin after a round: what moves to it, to be reversed, and
\* what was in it already.
Arriving(t, cur, b) == SubSeqAt(t[cur], Moving(t, cur, b))
Resting(t, cur, b) == IF b = cur THEN SubSeqAt(t[cur], Staying(t, cur)) ELSE t[b]

\* What was the k-th entry of bin a goes to bin b.
Route(t, cur, a, k, b) ==
  \/ a = cur /\ Moves(t[a][k]) /\ NextBin(t[a][k], cur) = b
  \/ a = cur /\ b = cur /\ ~Moves(t[a][k])
  \/ a # cur /\ b = a

\* The same PV, as old.
Same(e, f) == e.pvname = f.pvname /\ e.idle = f.idle

LEMMA StepEntry ==
  ASSUME NEW e \in Entry, Moves(e)
  PROVE  [e EXCEPT !.next = @ + 1] \in Entry /\ Same([e EXCEPT !.next = @ + 1], e)
<1>1. DOMAIN Intervals = 1 .. Len(Intervals) /\ Len(Intervals) \in Nat
  BY Numbers
<1> QED
  BY <1>1 DEF Entry, SearchedPV, Moves, Same

LEMMA NextBinInRing ==
  ASSUME NEW e \in Entry, NEW cur \in Bin
  PROVE  NextBin(e, cur) \in Bin
<1>1. DOMAIN Intervals = 1 .. Len(Intervals)
  BY Numbers
<1>2. e.next \in 1 .. Len(Intervals)
  BY <1>1 DEF Entry, SearchedPV
<1>3. Intervals[e.next] \in Nat /\ cur \in Nat
  BY <1>2, Numbers, Bins
<1>4. cur + Intervals[e.next] \in Nat
  BY <1>3
<1> QED
  BY <1>4, Bins DEF NextBin

LEMMA ReverseEntries ==
  ASSUME NEW S, NEW s \in Seq(S)
  PROVE  /\ Reverse(s) \in Seq(S) /\ Len(Reverse(s)) = Len(s)
         /\ \A i \in 1 .. Len(s) : Reverse(s)[i] = s[Len(s) - i + 1]
<1> DEFINE n == Len(s)
<1>1. n \in Nat /\ \A i \in 1 .. n : s[i] \in S
  OBVIOUS
<1>2. \A i \in 1 .. n : n - i + 1 \in 1 .. n
  BY <1>1
<1>3. Reverse(s) = [i \in 1 .. n |-> s[n - i + 1]]
  BY DEF Reverse
<1> HIDE DEF n
<1>4. [i \in 1 .. n |-> s[n - i + 1]] \in [1 .. n -> S]
  BY <1>1, <1>2
<1>5. Reverse(s) \in Seq(S) /\ Len(Reverse(s)) = n
  BY <1>1, <1>3, <1>4
<1> QED
  BY <1>3, <1>5 DEF n

LEMMA RoundParts ==
  ASSUME NEW t, Table(t), NEW cur \in Bin, NEW b \in Bin
  PROVE  LET m == Arriving(t, cur, b)
             r == Resting(t, cur, b)
             u == AfterRound(t, cur)[b]
         IN  /\ m \in Seq(Entry) /\ r \in Seq(Entry) /\ u \in Seq(Entry)
             /\ Len(u) = Len(m) + Len(r)
             /\ \A i \in 1 .. Len(m) : Same(u[i], m[Len(m) - i + 1])
             /\ \A i \in 1 .. Len(r) : u[Len(m) + i] = r[i]
<1> DEFINE K == Moving(t, cur, b)
           m == Arriving(t, cur, b)
           r == Resting(t, cur, b)
           s == [i \in DOMAIN m |-> [m[i] EXCEPT !.next = @ + 1]]
           n == Len(m)
           u == AfterRound(t, cur)[b]
<1>1. /\ t[cur] \in Seq(Entry) /\ DOMAIN t[cur] = 1 .. Len(t[cur]) /\ t[b] \in Seq(Entry)
      /\ \A i \in 1 .. Len(t[cur]) : t[cur][i] \in Entry
  BY Entries1
<1>2. K \in SUBSET (1 .. Len(t[cur])) /\ Staying(t, cur) \in SUBSET (1 .. Len(t[cur]))
  BY DEF Moving, Staying
<1>3. /\ m \in Seq(Entry)
      /\ \A i \in 1 .. n : Nth(K, i) \in K /\ m[i] = t[cur][Nth(K, i)]
  BY <1>1, <1>2, SubSeqAtProperties DEF Arriving
<1>4. r \in Seq(Entry) /\ Len(r) \in Nat
  <2>1. SubSeqAt(t[cur], Staying(t, cur)) \in Seq(Entry)
    BY <1>1, <1>2, SubSeqAtProperties
  <2>2. r \in Seq(Entry)
    BY <1>1, <2>1 DEF Resting
  <2> HIDE DEF r
  <2> QED
    BY <2>2
<1>5. n \in Nat /\ DOMAIN m = 1 .. n
  BY <1>3
<1>6. \A i \in 1 .. n : m[i] \in Entry /\ Moves(m[i])
  BY <1>1, <1>3 DEF Moving
<1>7. \A i \in 1 .. n : s[i] \in Entry /\ Same(s[i], m[i])
  BY <1>5, <1>6, StepEntry
<1>8. s \in Seq(Entry) /\ Len(s) = n
  <2>1. s \in [1 .. n -> Entry]
    <3>1. \A i \in 1 .. n : [m[i] EXCEPT !.next = @ + 1] \in Entry
      BY <1>6, StepEntry
    <3>2. s = [i \in 1 .. n |-> [m[i] EXCEPT !.next = @ + 1]]
      BY <1>5
    <3> HIDE DEF s, n
    <3> QED
      BY <3>1, <3>2
  <2> HIDE DEF s
  <2> QED
    BY <1>5, <2>1
<1>9. u = Reverse(s) \o r
  BY <1>1, Zenon DEF AfterRound, Moving, Staying, Arriving, Resting
<1> HIDE DEF s, u, n, m, r, K
<1>10. /\ Reverse(s) \in Seq(Entry) /\ Len(Reverse(s)) = n
       /\ \A i \in 1 .. n : Reverse(s)[i] = s[n - i + 1]
  BY <1>8, ReverseEntries
<1>11. /\ u \in Seq(Entry) /\ Len(u) = n + Len(r)
       /\ \A i \in 1 .. n + Len(r) : u[i] = IF i <= n THEN Reverse(s)[i] ELSE r[i - n]
  <2> DEFINE v == Reverse(s)
  <2>1. v \in Seq(Entry) /\ Len(v) = n
    BY <1>10
  <2> HIDE DEF v
  <2>2. /\ v \o r \in Seq(Entry) /\ Len(v \o r) = Len(v) + Len(r)
        /\ \A i \in 1 .. Len(v) + Len(r) :
             (v \o r)[i] = IF i <= Len(v) THEN v[i] ELSE r[i - Len(v)]
    BY <1>4, <2>1, ConcatProperties
  <2> QED
    BY <1>9, <2>1, <2>2 DEF v
<1>12. ASSUME NEW i \in 1 .. n PROVE Same(u[i], m[n - i + 1])
  <2>1. n - i + 1 \in 1 .. n /\ i <= n
    BY <1>5
  <2>2. i \in 1 .. n + Len(r)
    BY <1>4, <1>5
  <2>3. u[i] = s[n - i + 1]
    BY <1>10, <1>11, <2>1, <2>2
  <2> QED
    BY <1>7, <2>1, <2>3
<1>13. ASSUME NEW i \in 1 .. Len(r) PROVE u[n + i] = r[i]
  <2> DEFINE x == n + i
  <2>1. x \in 1 .. n + Len(r) /\ ~(x <= n) /\ x - n = i
    BY <1>4, <1>5
  <2> HIDE DEF x
  <2>2. u[x] = r[i]
    BY <1>11, <2>1
  <2> QED
    BY <2>2 DEF x
<1> QED
  BY <1>3, <1>4, <1>11, <1>12, <1>13, Zenon DEF u, n, m, r

\* Every entry after a round was in one place before it, and on a route to the
\* bin it is in now.
Origin(t, cur, b, a, k) ==
  /\ \A i \in 1 .. Len(AfterRound(t, cur)[b]) :
       /\ a[i] \in Bin /\ k[i] \in 1 .. Len(t[a[i]])
       /\ Route(t, cur, a[i], k[i], b)
       /\ Same(AfterRound(t, cur)[b][i], t[a[i]][k[i]])
  /\ \A i, j \in 1 .. Len(AfterRound(t, cur)[b]) :
       a[i] = a[j] /\ k[i] = k[j] => i = j

LEMMA RoundOrigin ==
  ASSUME NEW t, Table(t), NEW cur \in Bin, NEW b \in Bin
  PROVE  \E a, k : Origin(t, cur, b, a, k)
<1> DEFINE K == Moving(t, cur, b)
           Z == Staying(t, cur)
           m == Arriving(t, cur, b)
           r == Resting(t, cur, b)
           n == Len(m)
           u == AfterRound(t, cur)[b]
           l == Len(u)
           a == [i \in 1 .. l |-> IF i <= n THEN cur ELSE b]
           k == [i \in 1 .. l |-> IF i <= n THEN Nth(K, n - i + 1)
                                  ELSE IF b = cur THEN Nth(Z, i - n) ELSE i - n]
<1>1. /\ m \in Seq(Entry) /\ r \in Seq(Entry) /\ u \in Seq(Entry) /\ l = n + Len(r)
      /\ \A i \in 1 .. n : Same(u[i], m[n - i + 1])
      /\ \A i \in 1 .. Len(r) : u[n + i] = r[i]
  <2> HIDE DEF a, k
  <2> QED
    BY RoundParts, Zenon
<1>2. t[cur] \in Seq(Entry) /\ t[b] \in Seq(Entry)
  BY Entries1
<1>3. K \in SUBSET (1 .. Len(t[cur])) /\ Z \in SUBSET (1 .. Len(t[cur]))
  BY DEF Moving, Staying
<1>4. /\ \A i \in 1 .. n : Nth(K, i) \in K /\ m[i] = t[cur][Nth(K, i)]
      /\ \A i, j \in 1 .. n : Nth(K, i) = Nth(K, j) => i = j
  <2>1. m = SubSeqAt(t[cur], K)
    BY DEF Arriving
  <2> HIDE DEF K, Z, m, r, u, l, a, k
  <2> QED
    BY <1>2, <1>3, <2>1, SubSeqAtProperties
<1>5. b = cur => /\ \A i \in 1 .. Len(r) : Nth(Z, i) \in Z /\ r[i] = t[cur][Nth(Z, i)]
                 /\ \A i, j \in 1 .. Len(r) : Nth(Z, i) = Nth(Z, j) => i = j
  BY <1>2, <1>3, SubSeqAtProperties DEF Resting
<1>6. b # cur => r = t[b]
  BY DEF Resting
<1>7. n \in Nat /\ Len(r) \in Nat
  BY <1>1
<1> HIDE DEF m, r, n, u, l
<1>8. \A i \in 1 .. l : i <= n => /\ a[i] = cur /\ k[i] = Nth(K, n - i + 1)
                                  /\ n - i + 1 \in 1 .. n /\ i \in 1 .. n
  BY <1>1, <1>7
<1>9. \A i \in 1 .. l : ~(i <= n) =>
        /\ a[i] = b /\ k[i] = (IF b = cur THEN Nth(Z, i - n) ELSE i - n)
        /\ i - n \in 1 .. Len(r) /\ n + (i - n) = i
  BY <1>1, <1>7
<1> HIDE DEF a, k, K, Z
<1>10. ASSUME NEW i \in 1 .. l
       PROVE  /\ a[i] \in Bin /\ k[i] \in 1 .. Len(t[a[i]])
              /\ Route(t, cur, a[i], k[i], b) /\ Same(u[i], t[a[i]][k[i]])
              /\ i <= n => a[i] = cur /\ Moves(t[cur][k[i]])
              /\ ~(i <= n) => a[i] = b /\ (b = cur => ~Moves(t[cur][k[i]]))
  <2>1. CASE i <= n
    <3>1. k[i] \in K /\ m[n - i + 1] = t[cur][k[i]] /\ a[i] = cur /\ i \in 1 .. n
      BY <1>4, <1>8, <2>1
    <3>2. Same(u[i], t[cur][k[i]])
      BY <1>1, <3>1
    <3>3. /\ k[i] \in 1 .. Len(t[cur]) /\ Moves(t[cur][k[i]])
          /\ NextBin(t[cur][k[i]], cur) = b
      BY <3>1 DEF K, Moving
    <3> QED
      BY <2>1, <3>1, <3>2, <3>3 DEF Route
  <2>2. CASE ~(i <= n) /\ b = cur
    <3>1. /\ k[i] = Nth(Z, i - n) /\ a[i] = b /\ i - n \in 1 .. Len(r) /\ n + (i - n) = i
      BY <1>9, <2>2
    <3>2. k[i] \in Z /\ u[i] = t[cur][k[i]]
      BY <1>1, <1>5, <2>2, <3>1
    <3>3. k[i] \in 1 .. Len(t[cur]) /\ ~Moves(t[cur][k[i]])
      BY <3>2 DEF Z, Staying
    <3> QED
      BY <2>2, <3>1, <3>2, <3>3 DEF Route, Same
  <2>3. CASE ~(i <= n) /\ b # cur
    <3>1. /\ k[i] = i - n /\ a[i] = b /\ i - n \in 1 .. Len(r) /\ n + (i - n) = i
      BY <1>9, <2>3
    <3>2. k[i] \in 1 .. Len(t[b]) /\ u[i] = t[b][k[i]]
      BY <1>1, <1>6, <2>3, <3>1
    <3> QED
      BY <2>3, <3>1, <3>2 DEF Route, Same
  <2> QED
    BY <2>1, <2>2, <2>3
<1>11. ASSUME NEW i \in 1 .. l, NEW j \in 1 .. l, a[i] = a[j], k[i] = k[j] PROVE i = j
  <2>1. (i <= n) = (j <= n)
    BY <1>10, <1>11
  <2>2. CASE i <= n
    <3>1. /\ Nth(K, n - i + 1) = Nth(K, n - j + 1)
          /\ n - i + 1 \in 1 .. n /\ n - j + 1 \in 1 .. n
      BY <1>8, <1>11, <2>1, <2>2
    <3>2. n - i + 1 = n - j + 1
      BY <1>4, <3>1
    <3> QED
      BY <1>1, <1>7, <3>2
  <2>3. CASE ~(i <= n)
    <3>1. /\ i - n \in 1 .. Len(r) /\ j - n \in 1 .. Len(r)
          /\ (IF b = cur THEN Nth(Z, i - n) ELSE i - n)
               = (IF b = cur THEN Nth(Z, j - n) ELSE j - n)
      BY <1>9, <1>11, <2>1, <2>3
    <3>2. i - n = j - n
      BY <1>5, <3>1
    <3> QED
      BY <1>1, <1>7, <3>2
  <2> QED
    BY <2>2, <2>3
<1>12. Origin(t, cur, b, a, k)
  BY <1>10, <1>11 DEF Origin, u, l
<1> QED
  BY <1>12, Zenon

\* No two routes start at the same place.
LEMMA OneRoute ==
  ASSUME NEW t, NEW cur, NEW a, NEW k, NEW b, NEW c,
         Route(t, cur, a, k, b), Route(t, cur, a, k, c)
  PROVE  b = c
BY DEF Route

LEMMA RoundTable ==
  ASSUME NEW t, Table(t), Unique(t), NEW cur \in Bin, NEW u, u = AfterRound(t, cur)
  PROVE  /\ Table(u) /\ Unique(u)
         /\ \A b \in Bin : \A i \in 1 .. Len(u[b]) :
              \E a \in Bin : \E k \in 1 .. Len(t[a]) :
                Route(t, cur, a, k, b) /\ Same(u[b][i], t[a][k])
         /\ \A p : p \in Searched(u) <=> p \in Searched(t)
<1>1. Table(u)
  <2>1. \A b \in Bin : u[b] \in Seq(Entry)
    BY RoundParts
  <2>2. u = [b \in Bin |-> u[b]]
    BY Zenon DEF AfterRound
  <2> QED
    BY <2>1, <2>2 DEF Table
<1>2. ASSUME NEW b \in Bin, NEW i \in 1 .. Len(u[b])
      PROVE  \E a \in Bin : \E k \in 1 .. Len(t[a]) :
               Route(t, cur, a, k, b) /\ Same(u[b][i], t[a][k])
  <2>1. PICK a, k : Origin(t, cur, b, a, k)
    BY RoundOrigin
  <2>2. /\ a[i] \in Bin /\ k[i] \in 1 .. Len(t[a[i]])
        /\ Route(t, cur, a[i], k[i], b) /\ Same(u[b][i], t[a[i]][k[i]])
    BY <2>1 DEF Origin
  <2> QED
    BY <2>2
<1>3. Unique(u)
  <2> SUFFICES ASSUME NEW b \in Bin, NEW c \in Bin,
                      NEW i \in 1 .. Len(u[b]), NEW j \in 1 .. Len(u[c]),
                      u[b][i].pvname = u[c][j].pvname
               PROVE  b = c /\ i = j
    BY DEF Unique
  <2>1. PICK a \in Bin : \E k \in 1 .. Len(t[a]) :
               Route(t, cur, a, k, b) /\ Same(u[b][i], t[a][k])
    BY <1>2
  <2>2. PICK k \in 1 .. Len(t[a]) : Route(t, cur, a, k, b) /\ Same(u[b][i], t[a][k])
    BY <2>1
  <2>3. PICK d \in Bin : \E l \in 1 .. Len(t[d]) :
               Route(t, cur, d, l, c) /\ Same(u[c][j], t[d][l])
    BY <1>2
  <2>4. PICK l \in 1 .. Len(t[d]) : Route(t, cur, d, l, c) /\ Same(u[c][j], t[d][l])
    BY <2>3
  <2>5. t[a][k].pvname = t[d][l].pvname
    BY <2>2, <2>4 DEF Same
  <2>6. b = c
    <3>1. a = d /\ k = l
      BY <2>5, SamePlace
    <3> QED
      BY <2>2, <2>4, <3>1, OneRoute
  <2>7. PICK f, g : Origin(t, cur, b, f, g)
    BY RoundOrigin
  <2> DEFINE fi == f[i]
             gi == g[i]
             fj == f[j]
             gj == g[j]
  <2>8. /\ fi \in Bin /\ gi \in 1 .. Len(t[fi]) /\ Same(u[b][i], t[fi][gi])
        /\ fj \in Bin /\ gj \in 1 .. Len(t[fj]) /\ Same(u[b][j], t[fj][gj])
        /\ fi = fj /\ gi = gj => i = j
    BY <2>6, <2>7 DEF Origin
  <2>9. t[fi][gi].pvname = t[fj][gj].pvname
    BY <2>6, <2>8 DEF Same
  <2> HIDE DEF fi, gi, fj, gj
  <2>10. fi = fj /\ gi = gj
    BY <2>8, <2>9, SamePlace
  <2> QED
    BY <2>6, <2>8, <2>10
<1>4. ASSUME NEW a \in Bin, NEW k \in 1 .. Len(t[a])
      PROVE  \E b \in Bin : \E i \in 1 .. Len(u[b]) : u[b][i].pvname = t[a][k].pvname
  <2>1. PICK b \in Bin : Route(t, cur, a, k, b)
    <3>1. a = cur /\ Moves(t[a][k]) => NextBin(t[a][k], cur) \in Bin
      BY Entries1, NextBinInRing
    <3> QED
      BY <3>1 DEF Route
  <2> DEFINE K == Moving(t, cur, b)
             Z == Staying(t, cur)
             m == Arriving(t, cur, b)
             r == Resting(t, cur, b)
             n == Len(m)
  <2>2. /\ m \in Seq(Entry) /\ r \in Seq(Entry)
        /\ Len(u[b]) = n + Len(r)
        /\ \A i \in 1 .. n : Same(u[b][i], m[n - i + 1])
        /\ \A i \in 1 .. Len(r) : u[b][n + i] = r[i]
    BY RoundParts, Zenon
  <2>3. t[cur] \in Seq(Entry) /\ K \in SUBSET (1 .. Len(t[cur])) /\ Z \in SUBSET (1 .. Len(t[cur]))
    BY Entries1 DEF Moving, Staying
  <2>4. /\ \A i \in 1 .. n : m[i] = t[cur][Nth(K, i)]
        /\ \A i \in K : \E x \in 1 .. n : Nth(K, x) = i
    BY <2>3, SubSeqAtProperties, SMTT(60) DEF Arriving
  <2>5. b = cur => /\ \A i \in 1 .. Len(r) : r[i] = t[cur][Nth(Z, i)]
                   /\ \A i \in Z : \E x \in 1 .. Len(r) : Nth(Z, x) = i
    BY <2>3, SubSeqAtProperties DEF Resting
  <2>6. n \in Nat /\ Len(r) \in Nat
    BY <2>2
  <2>7. b # cur => r = t[b]
    BY DEF Resting
  <2> HIDE DEF m, r, n
  <2>8. CASE a = cur /\ Moves(t[a][k]) /\ NextBin(t[a][k], cur) = b
    <3>1. k \in K
      BY <2>8 DEF Moving
    <3>2. PICK x \in 1 .. n : Nth(K, x) = k
      BY <2>4, <3>1
    <3> DEFINE i == n - x + 1
    <3>3. i \in 1 .. n /\ n - i + 1 = x /\ i \in 1 .. Len(u[b])
      BY <2>2, <2>6
    <3>4. m[x] = t[a][k]
      BY <2>4, <2>8, <3>2
    <3> HIDE DEF i
    <3>5. Same(u[b][i], t[a][k])
      BY <2>2, <3>3, <3>4
    <3> QED
      BY <3>3, <3>5 DEF Same
  <2>9. CASE a = cur /\ b = cur /\ ~Moves(t[a][k])
    <3>1. k \in Z
      BY <2>9 DEF Staying
    <3>2. PICK x \in 1 .. Len(r) : Nth(Z, x) = k
      BY <2>5, <2>9, <3>1
    <3>3. r[x] = t[a][k]
      BY <2>5, <2>9, <3>2
    <3>4. n + x \in 1 .. Len(u[b]) /\ u[b][n + x] = t[a][k]
      BY <2>2, <2>6, <3>3, SMTT(60)
    <3> QED
      BY <3>4
  <2>10. CASE a # cur /\ b = a
    <3>1. k \in 1 .. Len(r) /\ r[k] = t[a][k]
      BY <2>7, <2>10
    <3>2. n + k \in 1 .. Len(u[b]) /\ u[b][n + k] = t[a][k]
      BY <2>2, <2>6, <3>1
    <3> QED
      BY <3>2
  <2> QED
    BY <2>1, <2>8, <2>9, <2>10 DEF Route
<1>5. ASSUME NEW p PROVE p \in Searched(u) <=> p \in Searched(t)
  <2>1. ASSUME p \in Searched(u) PROVE p \in Searched(t)
    <3>1. PICK b \in Bin : \E i \in 1 .. Len(u[b]) : u[b][i].pvname = p
      BY <1>1, <2>1, SearchedMeans
    <3>2. \E a \in Bin : \E k \in 1 .. Len(t[a]) : t[a][k].pvname = p
      BY <1>2, <3>1 DEF Same
    <3> QED
      BY <3>2, SearchedMeans
  <2>2. ASSUME p \in Searched(t) PROVE p \in Searched(u)
    <3>1. PICK a \in Bin : \E k \in 1 .. Len(t[a]) : t[a][k].pvname = p
      BY <2>2, SearchedMeans
    <3>2. \E b \in Bin : \E i \in 1 .. Len(u[b]) : u[b][i].pvname = p
      BY <1>4, <3>1, SMTT(60)
    <3> QED
      BY <1>1, <3>2, SearchedMeans
  <2> QED
    BY <2>1, <2>2
<1> QED
  BY <1>1, <1>2, <1>3, <1>5

-----------------------------------------------------------------------------
\* A purge: what is kept, and where it is dealt to.

FreshAt(t, b) == {i \in 1 .. Len(t[b]) : Fresh(t[b][i])}

\* f lists the fresh entries of a bin, all of them and none twice.
Sifted(f, t, b) ==
  LET K == FreshAt(t, b)
  IN  /\ f \in Seq(Entry)
      /\ \A n \in 1 .. Len(f) : Nth(K, n) \in K /\ f[n] = t[b][Nth(K, n)]
      /\ \A m, n \in 1 .. Len(f) : Nth(K, m) = Nth(K, n) => m = n
      /\ \A i \in K : \E n \in 1 .. Len(f) : Nth(K, n) = i

LEMMA FreshEntries ==
  ASSUME NEW t, Table(t), NEW b \in Bin
  PROVE  Sifted(FreshOf(t[b]), t, b)
<1> DEFINE K == FreshAt(t, b)
<1>1. t[b] \in Seq(Entry) /\ DOMAIN t[b] = 1 .. Len(t[b])
  BY Entries1
<1>2. K \in SUBSET (1 .. Len(t[b]))
  BY DEF FreshAt
<1>3. FreshOf(t[b]) = SubSeqAt(t[b], K)
  BY <1>1 DEF FreshOf, FreshAt
<1> HIDE DEF K
<1>4. LET f == FreshOf(t[b])
      IN  /\ f \in Seq(Entry)
          /\ \A n \in 1 .. Len(f) : Nth(K, n) \in K /\ f[n] = t[b][Nth(K, n)]
          /\ \A m, n \in 1 .. Len(f) : Nth(K, m) = Nth(K, n) => m = n
          /\ \A i \in K : \E n \in 1 .. Len(f) : Nth(K, n) = i
  <2> DEFINE s == t[b]
  <2>1. s \in Seq(Entry) /\ K \in SUBSET (1 .. Len(s))
    BY <1>1, <1>2
  <2> HIDE DEF s
  <2>2. /\ SubSeqAt(s, K) \in Seq(Entry)
        /\ \A n \in 1 .. Len(SubSeqAt(s, K)) :
             Nth(K, n) \in K /\ SubSeqAt(s, K)[n] = s[Nth(K, n)]
        /\ \A m, n \in 1 .. Len(SubSeqAt(s, K)) : Nth(K, m) = Nth(K, n) => m = n
        /\ \A i \in K : \E n \in 1 .. Len(SubSeqAt(s, K)) : Nth(K, n) = i
    BY <2>1, SubSeqAtProperties
  <2> QED
    BY <1>3, <2>2, Zenon DEF s
<1> QED
  BY <1>4, Zenon DEF K, Sifted

\* The list of what is kept: fresh entries only, all of them, none twice.
LEMMA SurvivorsAre ==
  ASSUME NEW t, Table(t), Unique(t), NEW kept, kept = Survivors(t)
  PROVE  /\ kept \in Seq(Entry)
         /\ \A x \in 1 .. Len(kept) : \E b \in Bin : \E k \in 1 .. Len(t[b]) :
              kept[x] = t[b][k] /\ Fresh(t[b][k])
         /\ \A b \in Bin : \A k \in 1 .. Len(t[b]) :
              Fresh(t[b][k]) => \E x \in 1 .. Len(kept) : kept[x] = t[b][k]
         /\ \A x, y \in 1 .. Len(kept) : kept[x].pvname = kept[y].pvname => x = y
<1> DEFINE f == [i \in 1 .. NBins |-> FreshOf(t[i - 1])]
           K(b) == FreshAt(t, b)
<1>1. NBins \in Nat \ {0}
  BY Numbers
<1>2. ASSUME NEW b \in Bin
      PROVE  /\ f[b + 1] = FreshOf(t[b]) /\ b + 1 \in 1 .. NBins
             /\ f[b + 1] \in Seq(Entry)
             /\ \A n \in 1 .. Len(f[b + 1]) : Nth(K(b), n) \in K(b) /\ f[b + 1][n] = t[b][Nth(K(b), n)]
             /\ \A m, n \in 1 .. Len(f[b + 1]) : Nth(K(b), m) = Nth(K(b), n) => m = n
             /\ \A i \in K(b) : \E n \in 1 .. Len(f[b + 1]) : Nth(K(b), n) = i
             /\ \A i \in K(b) : i \in 1 .. Len(t[b]) /\ Fresh(t[b][i])
             /\ \A i \in 1 .. Len(t[b]) : Fresh(t[b][i]) => i \in K(b)
  <2>1. b + 1 \in 1 .. NBins /\ (b + 1) - 1 = b
    BY Bins
  <2>2. f[b + 1] = FreshOf(t[b])
    BY <2>1
  <2> HIDE DEF f
  <2>3. Sifted(f[b + 1], t, b)
    BY <2>2, FreshEntries
  <2>4. \A i : i \in K(b) <=> i \in 1 .. Len(t[b]) /\ Fresh(t[b][i])
    BY DEF FreshAt
  <2> HIDE DEF K
  <2>5. /\ f[b + 1] \in Seq(Entry)
        /\ \A n \in 1 .. Len(f[b + 1]) : Nth(K(b), n) \in K(b) /\ f[b + 1][n] = t[b][Nth(K(b), n)]
        /\ \A m, n \in 1 .. Len(f[b + 1]) : Nth(K(b), m) = Nth(K(b), n) => m = n
        /\ \A i \in K(b) : \E n \in 1 .. Len(f[b + 1]) : Nth(K(b), n) = i
    BY <2>3, Zenon DEF Sifted, K
  <2> QED
    BY <2>1, <2>2, <2>4, <2>5
<1>3. \A i \in 1 .. NBins : i - 1 \in Bin /\ (i - 1) + 1 = i
  BY Bins
<1>4. Len(f) = NBins
  BY <1>1
<1> HIDE DEF f
<1>5. Lists(f, NBins, Entry)
  <2>1. ASSUME NEW i \in 1 .. NBins PROVE f[i] \in Seq(Entry)
    <3>1. f[(i - 1) + 1] \in Seq(Entry)
      BY <1>2, <1>3
    <3> QED
      BY <1>3, <3>1
  <2> QED
    BY <1>4, <2>1 DEF Lists
<1>6. kept = FlattenSeq(f)
  BY DEF Survivors, f
<1>7. kept \in Seq(Entry)
  BY <1>1, <1>5, <1>6, FlattenLists
<1>8. PICK off : Listed(off, f, NBins, kept)
  BY <1>1, <1>5, <1>6, FlattenLists
<1> HIDE DEF K
<1>9. ASSUME NEW x \in 1 .. Len(kept)
      PROVE  \E b \in Bin : \E n \in 1 .. Len(f[b + 1]) :
               x = off[b + 1] + n /\ kept[x] = f[b + 1][n]
  <2>1. PICK i \in 1 .. NBins : \E n \in 1 .. Len(f[i]) : x = off[i] + n
    BY <1>8 DEF Listed
  <2>2. PICK n \in 1 .. Len(f[i]) : x = off[i] + n
    BY <2>1
  <2>3. kept[x] = f[i][n]
    BY <1>8, <2>2 DEF Listed
  <2> QED
    BY <1>3, <2>2, <2>3
<1>10. ASSUME NEW x \in 1 .. Len(kept)
       PROVE  \E b \in Bin : \E k \in 1 .. Len(t[b]) : kept[x] = t[b][k] /\ Fresh(t[b][k])
  <2>1. PICK b \in Bin : \E n \in 1 .. Len(f[b + 1]) : kept[x] = f[b + 1][n]
    BY <1>9
  <2>2. PICK n \in 1 .. Len(f[b + 1]) : kept[x] = f[b + 1][n]
    BY <2>1
  <2>3. Nth(K(b), n) \in K(b) /\ kept[x] = t[b][Nth(K(b), n)]
    BY <1>2, <2>2
  <2>4. \A k \in K(b) : k \in 1 .. Len(t[b]) /\ Fresh(t[b][k])
    BY <1>2, Zenon
  <2> QED
    BY <2>3, <2>4
<1>11. ASSUME NEW b \in Bin, NEW k \in 1 .. Len(t[b]), Fresh(t[b][k])
       PROVE  \E x \in 1 .. Len(kept) : kept[x] = t[b][k]
  <2>1. k \in K(b)
    BY <1>2, <1>11
  <2>2. PICK n \in 1 .. Len(f[b + 1]) : Nth(K(b), n) = k
    BY <1>2, <2>1
  <2>3. f[b + 1][n] = t[b][k] /\ b + 1 \in 1 .. NBins
    BY <1>2, <2>2
  <2>4. off[b + 1] + n \in 1 .. Len(kept) /\ kept[off[b + 1] + n] = f[b + 1][n]
    BY <1>8, <2>3 DEF Listed
  <2> QED
    BY <2>3, <2>4
<1>12. ASSUME NEW x \in 1 .. Len(kept), NEW y \in 1 .. Len(kept),
              kept[x].pvname = kept[y].pvname
       PROVE  x = y
  <2>1. PICK b \in Bin : \E n \in 1 .. Len(f[b + 1]) :
               x = off[b + 1] + n /\ kept[x] = f[b + 1][n]
    BY <1>9
  <2>2. PICK n \in 1 .. Len(f[b + 1]) : x = off[b + 1] + n /\ kept[x] = f[b + 1][n]
    BY <2>1
  <2>3. PICK c \in Bin : \E m \in 1 .. Len(f[c + 1]) :
               y = off[c + 1] + m /\ kept[y] = f[c + 1][m]
    BY <1>9
  <2>4. PICK m \in 1 .. Len(f[c + 1]) : y = off[c + 1] + m /\ kept[y] = f[c + 1][m]
    BY <2>3
  <2> DEFINE k == Nth(K(b), n)
             l == Nth(K(c), m)
  <2>5. k \in K(b) /\ kept[x] = t[b][k]
    BY <1>2, <2>2
  <2>6. l \in K(c) /\ kept[y] = t[c][l]
    BY <1>2, <2>4
  <2>7. k \in 1 .. Len(t[b]) /\ l \in 1 .. Len(t[c])
    BY <1>2, <2>5, <2>6
  <2> HIDE DEF k, l
  <2>8. b = c /\ k = l
    BY <1>12, <2>5, <2>6, <2>7, SamePlace, SMTT(60)
  <2>9. n = m
    BY <1>2, <2>8 DEF k, l
  <2> QED
    BY <2>2, <2>4, <2>8, <2>9
<1> QED
  BY <1>7, <1>10, <1>11, <1>12

LEMMA RedealTable ==
  ASSUME NEW t, Table(t), Unique(t), NEW kept, kept = Survivors(t),
         NEW u, u = Deal(kept, NBins, SmallPacket)
  PROVE  /\ Table(u) /\ Unique(u)
         /\ \A b \in Bin : \A i \in 1 .. Len(u[b]) :
              \E a \in Bin : \E k \in 1 .. Len(t[a]) : u[b][i] = t[a][k] /\ Fresh(t[a][k])
         /\ \A p : p \in Searched(u) <=>
                   \E a \in Bin : \E k \in 1 .. Len(t[a]) :
                     t[a][k].pvname = p /\ Fresh(t[a][k])
         /\ \A p : p \in Searched(u) <=> \E e \in ToSet(kept) : e.pvname = p
<1> DEFINE D == [i \in 1 .. NBins |-> u[i - 1]]
<1>1. NBins \in Nat \ {0} /\ SmallPacket \in Nat \ {0}
  BY Numbers
<1>2. /\ kept \in Seq(Entry)
      /\ \A x \in 1 .. Len(kept) : \E b \in Bin : \E k \in 1 .. Len(t[b]) :
           kept[x] = t[b][k] /\ Fresh(t[b][k])
      /\ \A b \in Bin : \A k \in 1 .. Len(t[b]) :
           Fresh(t[b][k]) => \E x \in 1 .. Len(kept) : kept[x] = t[b][k]
      /\ \A x, y \in 1 .. Len(kept) : kept[x].pvname = kept[y].pvname => x = y
  BY SurvivorsAre, SMTT(60)
<1>3. Lists(D, NBins, Entry) /\ FlattenSeq(D) = kept
  <2>1. kept \in Seq(Entry)
    BY <1>2
  <2>2. DealtAs(D, kept, NBins, SmallPacket)
    BY DEF DealtAs
  <2> HIDE DEF D
  <2> QED
    BY <1>1, <2>1, <2>2, DealFlattens
<1>4. \A b \in Bin : b + 1 \in 1 .. NBins /\ D[b + 1] = u[b]
  BY Bins
<1>5. \A i \in 1 .. NBins : i - 1 \in Bin /\ D[i] = u[i - 1]
  BY Bins
<1> HIDE DEF D
<1>6. PICK off : Listed(off, D, NBins, kept)
  BY <1>1, <1>3, FlattenLists
<1>7. Table(u)
  <2>1. \A b \in Bin : u[b] \in Seq(Entry)
    BY <1>3, <1>4 DEF Lists
  <2>2. u = [b \in Bin |-> u[b]]
    BY DEF Deal, Bin
  <2> QED
    BY <2>1, <2>2 DEF Table
<1>8. ASSUME NEW b \in Bin, NEW i \in 1 .. Len(u[b])
      PROVE  off[b + 1] + i \in 1 .. Len(kept) /\ kept[off[b + 1] + i] = u[b][i]
  BY <1>4, <1>6, SMTT(60) DEF Listed
<1>9. ASSUME NEW x \in 1 .. Len(kept)
      PROVE  \E b \in Bin : \E i \in 1 .. Len(u[b]) : u[b][i] = kept[x]
  <2>1. PICK a \in 1 .. NBins : \E i \in 1 .. Len(D[a]) : x = off[a] + i
    BY <1>6 DEF Listed
  <2>2. PICK i \in 1 .. Len(D[a]) : x = off[a] + i
    BY <2>1
  <2>3. D[a][i] = kept[x]
    BY <1>6, <2>2 DEF Listed
  <2> QED
    BY <1>5, <2>3
<1>10. Unique(u)
  <2> SUFFICES ASSUME NEW b \in Bin, NEW c \in Bin,
                      NEW i \in 1 .. Len(u[b]), NEW j \in 1 .. Len(u[c]),
                      u[b][i].pvname = u[c][j].pvname
               PROVE  b = c /\ i = j
    BY DEF Unique
  <2>1. off[b + 1] + i = off[c + 1] + j
    <3> DEFINE x == off[b + 1] + i
               y == off[c + 1] + j
    <3>1. /\ x \in 1 .. Len(kept) /\ kept[x] = u[b][i]
          /\ y \in 1 .. Len(kept) /\ kept[y] = u[c][j]
      BY <1>8
    <3> HIDE DEF x, y
    <3>2. x = y
      BY <1>2, <3>1, SMTT(60)
    <3> QED
      BY <3>2 DEF x, y
  <2>2. /\ b + 1 \in 1 .. NBins /\ i \in 1 .. Len(D[b + 1])
        /\ c + 1 \in 1 .. NBins /\ j \in 1 .. Len(D[c + 1])
    BY <1>4
  <2>3. b + 1 = c + 1 /\ i = j
    BY <1>1, <1>6, <2>1, <2>2, ListedOnce, SMTT(60)
  <2>4. b \in Nat /\ c \in Nat
    BY Bins
  <2> QED
    BY <2>3, <2>4
<1>11. ASSUME NEW b \in Bin, NEW i \in 1 .. Len(u[b])
       PROVE  \E a \in Bin : \E k \in 1 .. Len(t[a]) : u[b][i] = t[a][k] /\ Fresh(t[a][k])
  <2> DEFINE x == off[b + 1] + i
  <2>1. x \in 1 .. Len(kept) /\ kept[x] = u[b][i]
    BY <1>8
  <2> HIDE DEF x
  <2> QED
    BY <1>2, <2>1
<1>12. ASSUME NEW p
       PROVE  p \in Searched(u) <=> \E a \in Bin : \E k \in 1 .. Len(t[a]) :
                                       t[a][k].pvname = p /\ Fresh(t[a][k])
  <2>1. ASSUME p \in Searched(u)
        PROVE  \E a \in Bin : \E k \in 1 .. Len(t[a]) : t[a][k].pvname = p /\ Fresh(t[a][k])
    <3>1. PICK b \in Bin : \E i \in 1 .. Len(u[b]) : u[b][i].pvname = p
      BY <1>7, <2>1, SearchedMeans
    <3> QED
      BY <1>11, <3>1
  <2>2. ASSUME NEW a \in Bin, NEW k \in 1 .. Len(t[a]), t[a][k].pvname = p, Fresh(t[a][k])
        PROVE  p \in Searched(u)
    <3>1. PICK x \in 1 .. Len(kept) : kept[x] = t[a][k]
      BY <1>2, <2>2
    <3>2. PICK b \in Bin : \E i \in 1 .. Len(u[b]) : u[b][i] = kept[x]
      BY <1>9
    <3>3. \E i \in 1 .. Len(u[b]) : u[b][i].pvname = p
      BY <2>2, <3>1, <3>2
    <3> QED
      BY <1>7, <3>3, SearchedMeans
  <2> QED
    BY <2>1, <2>2
<1>13. ASSUME NEW p PROVE p \in Searched(u) <=> \E e \in ToSet(kept) : e.pvname = p
  <2>1. \A e : e \in ToSet(kept) <=> \E x \in 1 .. Len(kept) : e = kept[x]
    BY <1>2 DEF ToSet
  <2>2. ASSUME p \in Searched(u) PROVE \E e \in ToSet(kept) : e.pvname = p
    <3>1. PICK b \in Bin : \E i \in 1 .. Len(u[b]) : u[b][i].pvname = p
      BY <1>7, <2>2, SearchedMeans
    <3>2. \E x \in 1 .. Len(kept) : kept[x].pvname = p
      BY <1>8, <3>1
    <3> QED
      BY <2>1, <3>2
  <2>3. ASSUME NEW e \in ToSet(kept), e.pvname = p PROVE p \in Searched(u)
    <3>1. \E b \in Bin : \E i \in 1 .. Len(u[b]) : u[b][i].pvname = p
      BY <1>9, <2>1, <2>3
    <3> QED
      BY <1>7, <3>1, SearchedMeans
  <2> QED
    BY <2>2, <2>3
<1> QED
  BY <1>7, <1>10, <1>11, <1>12, <1>13

-----------------------------------------------------------------------------
\* Steps that leave every entry in its place, and one that adds one.

\* u has the same PVs in the same places as t.
SamePlaces(t, u) ==
  /\ Table(u)
  /\ \A b \in Bin : /\ Len(u[b]) = Len(t[b])
                    /\ \A i \in 1 .. Len(t[b]) : u[b][i].pvname = t[b][i].pvname

LEMMA SamePlacesKeep ==
  ASSUME NEW t, Table(t), Unique(t), NEW u, SamePlaces(t, u)
  PROVE  Unique(u) /\ \A q : q \in Searched(u) <=> q \in Searched(t)
<1>1. Unique(u)
  BY DEF Unique, SamePlaces
<1>2. ASSUME NEW q PROVE q \in Searched(u) <=> q \in Searched(t)
  <2>1. /\ q \in Searched(u) <=> \E b \in Bin : \E i \in 1 .. Len(u[b]) : u[b][i].pvname = q
        /\ q \in Searched(t) <=> \E b \in Bin : \E i \in 1 .. Len(t[b]) : t[b][i].pvname = q
    BY SearchedMeans DEF SamePlaces
  <2>2. \A b \in Bin : (\E i \in 1 .. Len(u[b]) : u[b][i].pvname = q)
                       <=> \E i \in 1 .. Len(t[b]) : t[b][i].pvname = q
    BY DEF SamePlaces
  <2> QED
    BY <2>1, <2>2
<1> QED
  BY <1>1, <1>2

LEMMA TouchTable ==
  ASSUME NEW t, Table(t), NEW p \in PV, NEW u, u = Touch(t, p)
  PROVE  /\ SamePlaces(t, u)
         /\ \A b \in Bin : \A i \in 1 .. Len(t[b]) :
              u[b][i].idle = IF t[b][i].pvname = p THEN 0 ELSE t[b][i].idle
<1> DEFINE new(e) == IF e.pvname = p THEN [e EXCEPT !.idle = 0] ELSE e
<1>1. u = [b \in Bin |-> [i \in DOMAIN t[b] |-> new(t[b][i])]]
  BY DEF Touch, MapEntries
<1>2. ASSUME NEW e \in Entry
      PROVE  /\ new(e) \in Entry /\ new(e).pvname = e.pvname
             /\ new(e).idle = IF e.pvname = p THEN 0 ELSE e.idle
  <2>1. 0 \in 0 .. MaxIdle
    BY Numbers
  <2> QED
    BY <2>1 DEF Entry, SearchedPV
<1> HIDE DEF new
<1>3. ASSUME NEW b \in Bin
      PROVE  /\ u[b] \in Seq(Entry) /\ Len(u[b]) = Len(t[b])
             /\ \A i \in 1 .. Len(t[b]) : u[b][i] = new(t[b][i]) /\ t[b][i] \in Entry
  <2>1. /\ Len(t[b]) \in Nat /\ DOMAIN t[b] = 1 .. Len(t[b])
        /\ \A i \in 1 .. Len(t[b]) : t[b][i] \in Entry
    BY Entries1
  <2>2. u[b] = [i \in 1 .. Len(t[b]) |-> new(t[b][i])]
    BY <1>1, <2>1
  <2>3. u[b] \in [1 .. Len(t[b]) -> Entry]
    BY <1>2, <2>1, <2>2
  <2> QED
    BY <2>1, <2>2, <2>3
<1>4. Table(u)
  BY <1>1, <1>3 DEF Table
<1> QED
  BY <1>2, <1>3, <1>4 DEF SamePlaces

Older(n) == IF n < MaxIdle THEN n + 1 ELSE MaxIdle

Aged(t) == MapEntries(t, LAMBDA e : [e EXCEPT !.idle = Min({@ + 1, MaxIdle})])

LEMMA AgedTable ==
  ASSUME NEW t, Table(t), NEW u, u = Aged(t)
  PROVE  /\ SamePlaces(t, u)
         /\ \A b \in Bin : \A i \in 1 .. Len(t[b]) : u[b][i].idle = Older(t[b][i].idle)
<1> DEFINE new(e) == [e EXCEPT !.idle = Min({@ + 1, MaxIdle})]
<1>1. u = [b \in Bin |-> [i \in DOMAIN t[b] |-> new(t[b][i])]]
  BY DEF Aged, MapEntries
<1>2. ASSUME NEW e \in Entry
      PROVE  new(e) \in Entry /\ new(e).pvname = e.pvname /\ new(e).idle = Older(e.idle)
  <2>1. e.idle \in 0 .. MaxIdle /\ MaxIdle \in Nat
    BY Numbers DEF Entry, SearchedPV
  <2>2. Min({e.idle + 1, MaxIdle}) = Older(e.idle)
    <3>1. e.idle + 1 \in Nat /\ MaxIdle \in Nat
      BY <2>1
    <3>2. Min({e.idle + 1, MaxIdle}) = IF e.idle + 1 <= MaxIdle THEN e.idle + 1 ELSE MaxIdle
      BY <3>1, MinOfTwo
    <3> QED
      BY <2>1, <3>2 DEF Older
  <2>3. Older(e.idle) \in 0 .. MaxIdle
    BY <2>1 DEF Older
  <2>4. new(e) = [e EXCEPT !.idle = Older(e.idle)]
    BY <2>2
  <2> HIDE DEF new
  <2> QED
    BY <2>3, <2>4 DEF Entry, SearchedPV
<1> HIDE DEF new
<1>3. ASSUME NEW b \in Bin
      PROVE  /\ u[b] \in Seq(Entry) /\ Len(u[b]) = Len(t[b])
             /\ \A i \in 1 .. Len(t[b]) : u[b][i] = new(t[b][i]) /\ t[b][i] \in Entry
  <2>1. /\ Len(t[b]) \in Nat /\ DOMAIN t[b] = 1 .. Len(t[b])
        /\ \A i \in 1 .. Len(t[b]) : t[b][i] \in Entry
    BY Entries1
  <2>2. u[b] = [i \in 1 .. Len(t[b]) |-> new(t[b][i])]
    BY <1>1, <2>1
  <2>3. u[b] \in [1 .. Len(t[b]) -> Entry]
    BY <1>2, <2>1, <2>2
  <2> QED
    BY <2>1, <2>2, <2>3
<1>4. Table(u)
  BY <1>1, <1>3 DEF Table
<1> QED
  BY <1>2, <1>3, <1>4 DEF SamePlaces

\* u is t with a new entry, just asked for, for p in front of bin cur.
Added(t, u, cur, p) ==
  /\ Table(u) /\ Unique(u)
  /\ \A b \in Bin : \A i \in 1 .. Len(u[b]) :
       \/ b = cur /\ u[b][i].pvname = p /\ u[b][i].idle = 0
       \/ \E j \in 1 .. Len(t[b]) : u[b][i] = t[b][j]
  /\ \A q : q \in Searched(u) <=> q = p \/ q \in Searched(t)

LEMMA InsertTable ==
  ASSUME NEW t, Table(t), Unique(t), NEW p \in PV, p \notin Searched(t),
         NEW cur \in Bin, NEW id \in ChanId
  PROVE  Added(t, Insert(t, cur, p, id), cur, p)
<1> DEFINE u == Insert(t, cur, p, id)
           e == [pvname |-> p, chanId |-> id, idle |-> 0, next |-> 1]
           s == t[cur]
           l == Len(s)
<1>1. e \in Entry
  <2>1. 0 \in 0 .. MaxIdle /\ 1 \in DOMAIN Intervals
    BY Numbers
  <2> QED
    BY <2>1 DEF Entry, SearchedPV
<1>2. e.pvname = p /\ e.idle = 0
  OBVIOUS
<1> HIDE DEF e
<1>3. s \in Seq(Entry) /\ l \in Nat
  BY Entries1
<1>4. u = [t EXCEPT ![cur] = Cons(e, s)]
  BY DEF Insert, e
<1> HIDE DEF u, s
<1>5. /\ Cons(e, s) \in Seq(Entry) /\ Len(Cons(e, s)) = l + 1
      /\ \A i \in 1 .. l + 1 : Cons(e, s)[i] = IF i = 1 THEN e ELSE s[i - 1]
  <2>1. <<e>> \in Seq(Entry) /\ Len(<<e>>) = 1 /\ <<e>>[1] = e
    BY <1>1
  <2> DEFINE v == <<e>>
  <2> HIDE DEF v
  <2>2. v \in Seq(Entry) /\ Len(v) = 1 /\ v[1] = e
    BY <2>1 DEF v
  <2>3. /\ v \o s \in Seq(Entry) /\ Len(v \o s) = Len(v) + Len(s)
        /\ \A i \in 1 .. Len(v) + Len(s) :
             (v \o s)[i] = IF i <= Len(v) THEN v[i] ELSE s[i - Len(v)]
    BY <1>3, <2>2, ConcatProperties
  <2>4. Cons(e, s) = v \o s
    BY DEF Cons, v
  <2> QED
    BY <1>3, <2>2, <2>3, <2>4
<1>6. /\ u[cur] \in Seq(Entry) /\ Len(u[cur]) = l + 1
      /\ \A i \in 1 .. l + 1 : u[cur][i] = IF i = 1 THEN e ELSE t[cur][i - 1]
      /\ \A b \in Bin : b # cur => u[b] = t[b]
      /\ Table(u)
  BY <1>4, <1>5 DEF Table, s
<1>7. ASSUME NEW b \in Bin, NEW i \in 1 .. Len(u[b])
      PROVE  \/ b = cur /\ i = 1 /\ u[b][i] = e
             \/ b = cur /\ i - 1 \in 1 .. l /\ u[b][i] = t[cur][i - 1]
             \/ b # cur /\ i \in 1 .. Len(t[b]) /\ u[b][i] = t[b][i]
  BY <1>3, <1>6
<1>8. Len(t[cur]) = l
  BY DEF s
<1>9. \A b \in Bin : \A i \in 1 .. Len(t[b]) : t[b][i].pvname # p
  BY SearchedMeans
<1>10. Unique(u)
  <2> SUFFICES ASSUME NEW b \in Bin, NEW c \in Bin,
                      NEW i \in 1 .. Len(u[b]), NEW j \in 1 .. Len(u[c]),
                      u[b][i].pvname = u[c][j].pvname
               PROVE  b = c /\ i = j
    BY DEF Unique
  <2>1. CASE b = cur /\ i = 1 /\ u[b][i] = e
    <3>1. u[c][j].pvname = p
      BY <1>2, <2>1
    <3> QED
      BY <1>7, <1>8, <1>9, <2>1, <3>1, SMTT(60)
  <2>2. CASE c = cur /\ j = 1 /\ u[c][j] = e
    <3>1. u[b][i].pvname = p
      BY <1>2, <2>2
    <3> QED
      BY <1>7, <1>8, <1>9, <2>2, <3>1, ZenonT(60)
  <2>3. CASE \E x \in 1 .. Len(t[b]) : /\ u[b][i] = t[b][x]
                                       /\ x = IF b = cur THEN i - 1 ELSE i
    <3>1. PICK x \in 1 .. Len(t[b]) : u[b][i] = t[b][x] /\ x = IF b = cur THEN i - 1 ELSE i
      BY <2>3
    <3>2. CASE \E y \in 1 .. Len(t[c]) : /\ u[c][j] = t[c][y]
                                         /\ y = IF c = cur THEN j - 1 ELSE j
      <4>1. PICK y \in 1 .. Len(t[c]) : u[c][j] = t[c][y] /\ y = IF c = cur THEN j - 1 ELSE j
        BY <3>2
      <4>2. b = c /\ x = y
        BY <3>1, <4>1, SamePlace
      <4>3. i \in Nat /\ j \in Nat
        BY <1>6, Entries1
      <4> QED
        BY <3>1, <4>1, <4>2, <4>3
    <3> QED
      BY <1>7, <1>8, <2>2, <3>2
  <2> QED
    BY <1>7, <1>8, <2>1, <2>3
<1>11. ASSUME NEW q PROVE q \in Searched(u) <=> q = p \/ q \in Searched(t)
  <2>1. ASSUME q \in Searched(u) PROVE q = p \/ q \in Searched(t)
    <3>1. PICK b \in Bin : \E i \in 1 .. Len(u[b]) : u[b][i].pvname = q
      BY <1>6, <2>1, SearchedMeans
    <3>2. q = p \/ \E j \in 1 .. Len(t[b]) : t[b][j].pvname = q
      BY <1>2, <1>7, <1>8, <3>1, SMTT(60)
    <3> QED
      BY <3>2, SearchedMeans
  <2>2. p \in Searched(u)
    <3>1. 1 \in 1 .. Len(u[cur]) /\ u[cur][1].pvname = p
      BY <1>2, <1>3, <1>6
    <3> QED
      BY <1>6, <3>1, SearchedMeans
  <2>3. ASSUME q \in Searched(t) PROVE q \in Searched(u)
    <3>1. PICK b \in Bin : \E j \in 1 .. Len(t[b]) : t[b][j].pvname = q
      BY <2>3, SearchedMeans
    <3>2. PICK j \in 1 .. Len(t[b]) : t[b][j].pvname = q
      BY <3>1
    <3>3. CASE b # cur
      BY <1>6, <3>2, <3>3, SearchedMeans
    <3>4. CASE b = cur
      <4> DEFINE x == j + 1
      <4>1. x \in 1 .. l + 1 /\ x # 1 /\ x - 1 = j
        BY <1>3, <1>8, <3>4
      <4> HIDE DEF x
      <4>2. x \in 1 .. Len(u[cur]) /\ u[cur][x] = t[cur][j]
        BY <1>6, <4>1
      <4> QED
        BY <1>6, <3>2, <3>4, <4>2, SearchedMeans
    <3> QED
      BY <3>3, <3>4
  <2> QED
    BY <2>1, <2>2, <2>3
<1>12. \A b \in Bin : \A i \in 1 .. Len(u[b]) :
         \/ b = cur /\ u[b][i].pvname = p /\ u[b][i].idle = 0
         \/ \E j \in 1 .. Len(t[b]) : u[b][i] = t[b][j]
  <2> TAKE b \in Bin
  <2> TAKE i \in 1 .. Len(u[b])
  <2> QED
    BY <1>2, <1>7, <1>8, ZenonT(60)
<1>13. Added(t, u, cur, p)
  BY <1>6, <1>10, <1>11, <1>12 DEF Added
<1> QED
  BY <1>13 DEF u

-----------------------------------------------------------------------------
\* The inductive invariant.

LEMMA TypeMeans ==
  ASSUME TypeOK
  PROVE  /\ Table(bins) /\ currentBin \in Bin /\ chanId \in ChanId
         /\ warm \in BOOLEAN /\ iterated \in BOOLEAN /\ phase \in {"io", "purge"}
         /\ sincePurge \in 0 .. PurgeLimit /\ sincePurge \in Nat
         /\ lost \in 0 .. MaxStall /\ lost \in Nat
         /\ requests \in SUBSET Request
         /\ waited \in [PV -> 0 .. MaxWait] /\ promised \in [PV -> Nat]
         /\ wanted \in [PV -> {"no", "then", "early", "yes"}]
<1>1. /\ sincePurge \in 0 .. PurgeLimit /\ PurgeLimit \in Nat
      /\ lost \in 0 .. MaxStall /\ MaxStall \in Nat
  BY Numbers DEF TypeOK
<1> QED
  BY <1>1 DEF TypeOK, Table, Entry

LEMMA AllAges ==
  ASSUME TypeOK, \A b \in Bin : \A i \in 1 .. Len(bins[b]) : AgeInv(bins[b][i]),
         NEW p \in PV, NEW b \in Bin, NEW i \in 1 .. Len(bins[b]), bins[b][i].pvname = p
  PROVE  /\ bins[b][i].idle < sincePurge + PurgePeriod
         /\ wanted[p] = "no" => bins[b][i].idle >= sincePurge
         /\ wanted[p] = "early" => bins[b][i].idle < sincePurge
         /\ wanted[p] = "yes" => bins[b][i].idle + MaxStall < sincePurge
BY DEF AgeInv

LEMMA InitTable == Init => TableInv
<1> SUFFICES ASSUME Init PROVE TableInv
  OBVIOUS
<1>1. Table(bins) /\ \A b \in Bin : Len(bins[b]) = 0
  BY DEF Init, EmptyBins, Table
<1>2. /\ 0 \in 0 .. PurgeLimit /\ 0 \in 0 .. MaxWait /\ 0 < PurgePeriod
      /\ 0 \in 0 .. MaxStall /\ 0 <= PurgePeriod + 0
  BY Numbers
<1>3. 0 \in ChanId
  BY SearcherAssumption DEF ChanId
<1>4. TypeOK
  BY <1>1, <1>2, <1>3, Bins DEF TypeOK, Init, Table, Entry
<1>5. \A b \in Bin : \A i \in 1 .. Len(bins[b]) : FALSE
  BY <1>1
<1>6. Unique(bins) /\ \A b \in Bin : \A i \in 1 .. Len(bins[b]) : AgeInv(bins[b][i])
  BY <1>5 DEF Unique
<1>7. AtRest /\ PurgeInTime
  BY <1>2 DEF AtRest, PurgeInTime, Init
<1> QED
  BY <1>4, <1>6, <1>7 DEF TableInv

\* A PV leaves the table, and its observers start afresh.
LEMMA ForgetOne ==
  ASSUME TableInv, NEW p \in PV, Dropped(bins, bins', p), Forget({p}),
         UNCHANGED <<currentBin, chanId, loop, requests>>
  PROVE  TableInv'
<1>1. TypeOK
  BY DEF TableInv
<1>2. Table(bins') /\ Unique(bins')
  BY DEF Dropped, Thinned
<1>3. UNCHANGED <<currentBin, chanId, warm, phase, sincePurge, iterated, lost, requests>>
  BY DEF loop
<1>4. \A q \in PV : /\ waited'[q] = IF q = p THEN 0 ELSE waited[q]
                    /\ promised'[q] = IF q = p THEN 0 ELSE promised[q]
                    /\ wanted'[q] = IF q = p THEN "no" ELSE wanted[q]
  BY DEF Forget
<1>5. TypeOK'
  <2>1. 0 \in 0 .. MaxWait
    BY Numbers
  <2>2. /\ waited' \in [PV -> 0 .. MaxWait] /\ promised' \in [PV -> Nat]
        /\ wanted' \in [PV -> {"no", "then", "early", "yes"}]
    BY <1>1, <2>1 DEF TypeOK, Forget
  <2> QED
    BY <1>1, <1>2, <1>3, <2>2 DEF TypeOK, Table, Entry
<1>6. AtRest'
  <2>1. ASSUME NEW q \in PV, q \notin Searched(bins') PROVE waited'[q] = 0 /\ promised'[q] = 0
    <3>1. q = p \/ q \notin Searched(bins)
      BY <2>1 DEF Dropped
    <3> QED
      BY <1>4, <3>1 DEF TableInv, AtRest
  <2> QED
    BY <2>1 DEF AtRest
<1>7. ASSUME NEW b \in Bin, NEW i \in 1 .. Len(bins'[b])
      PROVE  AgeInv(bins[b][i])'
  <2>1. PICK j \in 1 .. Len(bins[b]) : bins'[b][i] = bins[b][j]
    BY DEF Dropped, Thinned
  <2>2. bins'[b][i].pvname # p
    BY <1>2, SearchedMeans DEF Dropped
  <2>3. bins[b][j].pvname \in PV
    BY <1>1, TypeMeans, Entries1
  <2>4. AgeInv(bins[b][j])
    BY DEF TableInv
  <2> QED
    BY <1>3, <1>4, <2>1, <2>2, <2>3, <2>4 DEF AgeInv
<1>8. PurgeInTime'
  BY <1>3 DEF TableInv, PurgeInTime
<1>9. Unique(bins)'
  BY <1>2 DEF Unique
<1> QED
  BY <1>5, <1>6, <1>7, <1>8, <1>9 DEF TableInv

LEMMA DropKeeps ==
  ASSUME TableInv, NEW p \in PV, DropPV(p)
  PROVE  TableInv'
<1>1. Table(bins) /\ Unique(bins)
  BY TypeMeans DEF TableInv
<1>2. /\ bins' = RemovePV(bins, p) /\ Forget({p})
      /\ UNCHANGED <<currentBin, chanId, loop, requests>>
  BY DEF DropPV
<1>3. Dropped(bins, bins', p)
  BY <1>1, <1>2, RemovePVOne
<1> QED
  BY <1>2, <1>3, ForgetOne

LEMMA DroppedTwice ==
  ASSUME NEW t, Table(t), NEW u, NEW v, NEW p, Dropped(t, u, p), Dropped(u, v, p)
  PROVE  Dropped(t, v, p)
<1>1. \A b \in Bin : \A i \in 1 .. Len(v[b]) : \E j \in 1 .. Len(t[b]) : v[b][i] = t[b][j]
  <2> TAKE b \in Bin
  <2> TAKE i \in 1 .. Len(v[b])
  <2>1. PICK k \in 1 .. Len(u[b]) : v[b][i] = u[b][k]
    BY DEF Dropped, Thinned
  <2>2. PICK j \in 1 .. Len(t[b]) : u[b][k] = t[b][j]
    BY DEF Dropped, Thinned
  <2> QED
    BY <2>1, <2>2
<1> QED
  BY <1>1 DEF Dropped, Thinned

\* What an answer leaves of the table, whether the Dispatcher removes the PV
\* once more or fails before it.
LEMMA AnswerDrops ==
  ASSUME TableInv, NEW r, ProcessIncoming(r)
  PROVE  \E p \in PV : /\ p \in Searched(bins) /\ Dropped(bins, bins', p) /\ Forget({p})
                       /\ UNCHANGED <<currentBin, chanId, loop, requests>>
<1> DEFINE p == HitEntry(bins, currentBin, r.chanId).pvname
           rest == EraseHit(bins, currentBin, r.chanId)
<1>1. Table(bins) /\ Unique(bins) /\ currentBin \in Bin
  BY TypeMeans DEF TableInv
<1>2. /\ HitsOf(bins, currentBin, r.chanId) # {} /\ Forget({p})
      /\ bins' = RemovePV(rest, p) \/ bins' = rest
      /\ UNCHANGED <<currentBin, chanId, loop, requests>>
  BY DEF ProcessIncoming
<1>3. p \in PV /\ p \in Searched(bins) /\ Dropped(bins, rest, p)
  BY <1>1, <1>2, EraseHitOne
<1> HIDE DEF p, rest
<1>4. Dropped(rest, RemovePV(rest, p), p)
  BY <1>3, RemovePVOne DEF Dropped, Thinned
<1>5. Dropped(bins, bins', p)
  BY <1>1, <1>2, <1>3, <1>4, DroppedTwice
<1> QED
  BY <1>2, <1>3, <1>5

LEMMA AddKeeps ==
  ASSUME TableInv, NEW p \in PV, AddPV(p)
  PROVE  TableInv'
<1>1. /\ TypeOK /\ Table(bins) /\ Unique(bins) /\ currentBin \in Bin /\ sincePurge \in Nat
      /\ MaxStall \in Nat
  BY TypeMeans, Numbers DEF TableInv
<1>2. /\ UNCHANGED <<currentBin, warm, phase, sincePurge, iterated, lost>>
      /\ UNCHANGED <<requests, waited, promised>>
      /\ wanted' = [wanted EXCEPT ![p] = IF sincePurge = 0 THEN "then"
                                         ELSE IF sincePurge <= MaxStall THEN "early" ELSE "yes"]
  BY DEF AddPV, loop
<1>3. /\ wanted'[p] = IF sincePurge = 0 THEN "then"
                      ELSE IF sincePurge <= MaxStall THEN "early" ELSE "yes"
      /\ \A q \in PV : q # p => wanted'[q] = wanted[q]
      /\ wanted' \in [PV -> {"no", "then", "early", "yes"}]
  BY <1>1, <1>2 DEF TypeOK
<1>4. chanId' \in ChanId
  <2>1. chanId + 1 \in Nat /\ ChanIds \in Nat \ {0}
    BY <1>1, SearcherAssumption DEF TypeOK, ChanId
  <2>2. NextChanId(chanId) \in ChanId
    BY <2>1 DEF NextChanId, ChanId
  <2> QED
    BY <1>1, <2>2 DEF AddPV, TypeOK
<1>5. ASSUME Table(bins'), Unique(bins'),
             \A q \in Searched(bins) : q \in Searched(bins'),
             \A b \in Bin : \A i \in 1 .. Len(bins'[b]) :
               LET e == bins'[b][i]
               IN  \/ e.pvname = p /\ e.idle = 0
                   \/ \E j \in 1 .. Len(bins[b]) :
                        e.pvname # p /\ e.pvname = bins[b][j].pvname /\ e.idle = bins[b][j].idle
      PROVE  TableInv'
  <2>1. TypeOK'
    BY <1>1, <1>2, <1>3, <1>4, <1>5 DEF TypeOK, Table, Entry
  <2>2. AtRest'
    BY <1>2, <1>5 DEF TableInv, AtRest
  <2>3. ASSUME NEW b \in Bin, NEW i \in 1 .. Len(bins'[b])
        PROVE  AgeInv(bins[b][i])'
    <3> DEFINE e == bins'[b][i]
    <3>1. CASE e.pvname = p /\ e.idle = 0
      <4>1. PurgePeriod \in Nat \ {0}
        BY Numbers
      <4> QED
        BY <1>1, <1>2, <1>3, <3>1, <4>1 DEF AgeInv
    <3>2. CASE \E j \in 1 .. Len(bins[b]) :
                 e.pvname # p /\ e.pvname = bins[b][j].pvname /\ e.idle = bins[b][j].idle
      <4>1. PICK j \in 1 .. Len(bins[b]) :
               e.pvname # p /\ e.pvname = bins[b][j].pvname /\ e.idle = bins[b][j].idle
        BY <3>2
      <4>2. e.pvname \in PV
        BY <1>1, <4>1, Entries1
      <4>3. AgeInv(bins[b][j])
        BY DEF TableInv
      <4> QED
        BY <1>2, <1>3, <4>1, <4>2, <4>3 DEF AgeInv
    <3> QED
      BY <1>5, <3>1, <3>2
  <2>4. PurgeInTime'
    BY <1>2 DEF TableInv, PurgeInTime
  <2>5. Unique(bins)'
    BY <1>5 DEF Unique
  <2> QED
    BY <2>1, <2>2, <2>3, <2>4, <2>5 DEF TableInv
<1>6. CASE p \in Searched(bins) /\ bins' = Touch(bins, p)
  <2>1. /\ SamePlaces(bins, bins')
        /\ \A b \in Bin : \A i \in 1 .. Len(bins[b]) :
             bins'[b][i].idle = IF bins[b][i].pvname = p THEN 0 ELSE bins[b][i].idle
    BY <1>1, <1>6, TouchTable
  <2>2. Unique(bins') /\ \A q : q \in Searched(bins') <=> q \in Searched(bins)
    BY <1>1, <2>1, SamePlacesKeep
  <2>3. ASSUME NEW b \in Bin, NEW i \in 1 .. Len(bins'[b])
        PROVE  \/ bins'[b][i].pvname = p /\ bins'[b][i].idle = 0
               \/ \E j \in 1 .. Len(bins[b]) : /\ bins'[b][i].pvname # p
                                               /\ bins'[b][i].pvname = bins[b][j].pvname
                                               /\ bins'[b][i].idle = bins[b][j].idle
    BY <2>1 DEF SamePlaces
  <2> QED
    BY <1>5, <2>1, <2>2, <2>3 DEF SamePlaces
<1>7. CASE p \notin Searched(bins) /\ bins' = Insert(bins, currentBin, p, chanId)
  <2>1. chanId \in ChanId
    BY <1>1, TypeMeans
  <2>2. Added(bins, bins', currentBin, p)
    BY <1>1, <1>7, <2>1, InsertTable
  <2>3. ASSUME NEW b \in Bin, NEW i \in 1 .. Len(bins'[b])
        PROVE  \/ bins'[b][i].pvname = p /\ bins'[b][i].idle = 0
               \/ \E j \in 1 .. Len(bins[b]) : /\ bins'[b][i].pvname # p
                                               /\ bins'[b][i].pvname = bins[b][j].pvname
                                               /\ bins'[b][i].idle = bins[b][j].idle
    <3>1. \A j \in 1 .. Len(bins[b]) : bins[b][j].pvname # p
      BY <1>1, <1>7, SearchedMeans
    <3> QED
      BY <2>2, <3>1, SMTT(60) DEF Added
  <2> QED
    BY <1>5, <2>2, <2>3 DEF Added
<1> QED
  BY <1>6, <1>7 DEF AddPV

LEMMA AnswerKeeps ==
  ASSUME TableInv, NEW r, ProcessIncoming(r)
  PROVE  TableInv'
<1>1. PICK p \in PV : /\ p \in Searched(bins) /\ Dropped(bins, bins', p) /\ Forget({p})
                      /\ UNCHANGED <<currentBin, chanId, loop, requests>>
  BY AnswerDrops
<1> QED
  BY <1>1, ForgetOne

LEMMA NextSlotInRing == ASSUME NEW c \in Bin PROVE NextSlot(c) \in Bin
<1>1. c + 1 \in Nat
  BY Bins
<1> QED
  BY <1>1, Bins DEF NextSlot

\* The interval promised to a PV of the current bin is that of its entry.
LEMMA Promises ==
  ASSUME TypeOK, Unique(bins), NEW i \in 1 .. Len(bins[currentBin]),
         phase = "io", warm, ProcessOutgoing
  PROVE  LET e == bins[currentBin][i]
         IN  waited'[e.pvname] = 0 /\ promised'[e.pvname] = Intervals[e.next]
<1> DEFINE e == bins[currentBin][i]
           due == ToSet(bins[currentBin])
           asked == {f.pvname : f \in due}
           choice == CHOOSE f \in due : f.pvname = e.pvname
<1>1. Table(bins) /\ currentBin \in Bin
  BY TypeMeans
<1>2. \A f : f \in due <=> \E j \in 1 .. Len(bins[currentBin]) : f = bins[currentBin][j]
  BY <1>1, Entries1 DEF ToSet
<1>3. e \in due /\ e.pvname \in PV
  BY <1>1, <1>2, Entries1
<1>4. choice \in due /\ choice.pvname = e.pvname
  BY <1>3
<1>5. choice = e
  <2>1. PICK j \in 1 .. Len(bins[currentBin]) : choice = bins[currentBin][j]
    BY <1>2, <1>4
  <2> HIDE DEF choice
  <2>2. i = j
    BY <1>1, <1>4, <2>1, SamePlace
  <2> QED
    BY <2>1, <2>2
<1>6. e.pvname \in asked
  BY <1>3
<1>7. /\ waited' = [p \in PV |-> IF p \in Searched(bins) \ asked
                                 THEN Min({waited[p] + 1, MaxWait}) ELSE 0]
      /\ promised' = [p \in PV |-> IF p \in asked
                                   THEN Intervals[(CHOOSE f \in due : f.pvname = p).next]
                                   ELSE promised[p]]
  BY DEF ProcessOutgoing
<1> HIDE DEF due, asked
<1>8. waited'[e.pvname] = 0 /\ promised'[e.pvname] = Intervals[choice.next]
  BY <1>3, <1>6, <1>7
<1> HIDE DEF choice, e
<1>9. waited'[e.pvname] = 0 /\ promised'[e.pvname] = Intervals[e.next]
  BY <1>5, <1>8
<1> QED
  BY <1>9 DEF e

\* The others have waited for one more round, and those no bin holds have not.
LEMMA Waits ==
  ASSUME TypeOK, NEW p \in PV, phase = "io", warm, ProcessOutgoing,
         \A i \in 1 .. Len(bins[currentBin]) : bins[currentBin][i].pvname # p
  PROVE  /\ promised'[p] = promised[p]
         /\ waited'[p] = IF p \notin Searched(bins) THEN 0
                         ELSE IF waited[p] + 1 <= MaxWait THEN waited[p] + 1 ELSE MaxWait
<1> DEFINE due == ToSet(bins[currentBin])
           asked == {f.pvname : f \in due}
<1>1. /\ Table(bins) /\ currentBin \in Bin /\ waited[p] \in Nat /\ MaxWait \in Nat
      /\ waited[p] + 1 \in Nat
  BY TypeMeans, Numbers
<1>2. \A f : f \in due <=> \E j \in 1 .. Len(bins[currentBin]) : f = bins[currentBin][j]
  BY <1>1, Entries1 DEF ToSet
<1>3. p \notin asked
  BY <1>2
<1>4. /\ waited' = [q \in PV |-> IF q \in Searched(bins) \ asked
                                 THEN Min({waited[q] + 1, MaxWait}) ELSE 0]
      /\ promised' = [q \in PV |-> IF q \in asked
                                   THEN Intervals[(CHOOSE f \in due : f.pvname = q).next]
                                   ELSE promised[q]]
  BY DEF ProcessOutgoing
<1> HIDE DEF due, asked
<1>5. Min({waited[p] + 1, MaxWait}) = IF waited[p] + 1 <= MaxWait THEN waited[p] + 1 ELSE MaxWait
  BY <1>1, MinOfTwo
<1> QED
  BY <1>3, <1>4, <1>5

LEMMA RoundKeeps ==
  ASSUME TableInv, ProcessOutgoing
  PROVE  TableInv'
<1>1. TypeOK /\ Table(bins) /\ Unique(bins) /\ currentBin \in Bin
  BY TypeMeans DEF TableInv
<1>2. /\ UNCHANGED <<chanId, warm, sincePurge, iterated, lost, wanted>>
      /\ phase = "io" /\ phase' = "purge"
  BY DEF ProcessOutgoing
<1>3. PurgeInTime'
  BY <1>2 DEF TableInv, PurgeInTime
<1>4. CASE ~warm
  <2>1. UNCHANGED <<bins, currentBin, requests, waited, promised>>
    BY <1>4 DEF ProcessOutgoing
  <2> QED
    BY <1>2, <1>3, <2>1 DEF TableInv, TypeOK, Unique, AtRest, AgeInv
<1>5. CASE warm
  <2> DEFINE due == ToSet(bins[currentBin])
             made == {[pvname |-> e.pvname, chanId |-> e.chanId] : e \in due}
             held(p) == \E i \in 1 .. Len(bins[currentBin]) : bins[currentBin][i].pvname = p
  <2>1. /\ bins' = AfterRound(bins, currentBin) /\ currentBin' = NextSlot(currentBin)
        /\ requests' = requests \cup made
    BY <1>5 DEF ProcessOutgoing
  <2>2. /\ Table(bins') /\ Unique(bins')
        /\ \A b \in Bin : \A i \in 1 .. Len(bins'[b]) :
             \E a \in Bin : \E k \in 1 .. Len(bins[a]) :
               Route(bins, currentBin, a, k, b) /\ Same(bins'[b][i], bins[a][k])
        /\ \A p : p \in Searched(bins') <=> p \in Searched(bins)
    BY <1>1, <2>1, RoundTable, ZenonT(60)
  <2>3. currentBin' \in Bin
    BY <1>1, <2>1, NextSlotInRing
  <2>4. made \subseteq Request
    <3>1. \A e \in due : e.pvname \in PV /\ e.chanId \in ChanId
      BY <1>1, Entries1 DEF ToSet
    <3> QED
      BY <3>1 DEF Request
  <2>5. requests' \in SUBSET Request
    BY <1>1, <2>1, <2>4 DEF TypeOK
  <2>6. ASSUME NEW p \in PV PROVE waited'[p] \in 0 .. MaxWait /\ promised'[p] \in Nat
    <3>1. waited[p] \in 0 .. MaxWait /\ promised[p] \in Nat /\ MaxWait \in Nat
      BY <1>1, TypeMeans, Numbers
    <3>2. CASE held(p)
      <4>1. PICK i \in 1 .. Len(bins[currentBin]) : bins[currentBin][i].pvname = p
        BY <3>2
      <4>2. waited'[p] = 0 /\ promised'[p] = Intervals[bins[currentBin][i].next]
        BY <1>1, <1>2, <1>5, <4>1, Promises
      <4>3. bins[currentBin][i].next \in 1 .. Len(Intervals)
        BY <1>1, Entries1
      <4> QED
        BY <3>1, <4>2, <4>3, Numbers, SMTT(60)
    <3>3. CASE ~held(p)
      <4>1. /\ promised'[p] = promised[p]
            /\ waited'[p] = IF p \notin Searched(bins) THEN 0
                            ELSE IF waited[p] + 1 <= MaxWait THEN waited[p] + 1 ELSE MaxWait
        BY <1>1, <1>2, <1>5, <3>3, Waits
      <4> QED
        BY <3>1, <4>1
    <3> QED
      BY <3>2, <3>3
  <2>7. waited' \in [PV -> 0 .. MaxWait] /\ promised' \in [PV -> Nat]
    <3>1. waited' = [p \in PV |-> waited'[p]] /\ promised' = [p \in PV |-> promised'[p]]
      BY <1>5 DEF ProcessOutgoing
    <3> QED
      BY <2>6, <3>1
  <2>8. TypeOK'
    BY <1>1, <1>2, <2>2, <2>3, <2>5, <2>7 DEF TypeOK, Table, Entry
  <2>9. AtRest'
    <3>1. ASSUME NEW p \in PV, p \notin Searched(bins') PROVE waited'[p] = 0 /\ promised'[p] = 0
      <4>1. p \notin Searched(bins)
        BY <2>2, <3>1
      <4>2. ~held(p)
        BY <1>1, <4>1, SearchedMeans
      <4>3. promised'[p] = promised[p] /\ waited'[p] = 0
        BY <1>1, <1>2, <1>5, <4>1, <4>2, Waits
      <4> QED
        BY <4>1, <4>3 DEF TableInv, AtRest
    <3> QED
      BY <3>1 DEF AtRest
  <2>10. ASSUME NEW b \in Bin, NEW i \in 1 .. Len(bins'[b])
         PROVE  AgeInv(bins[b][i])'
    <3>1. PICK a \in Bin : \E k \in 1 .. Len(bins[a]) : Same(bins'[b][i], bins[a][k])
      BY <2>2
    <3>2. PICK k \in 1 .. Len(bins[a]) : Same(bins'[b][i], bins[a][k])
      BY <3>1
    <3>3. AgeInv(bins[a][k])
      BY DEF TableInv
    <3> QED
      BY <1>2, <3>2, <3>3 DEF AgeInv, Same
  <2>11. Unique(bins)'
    BY <2>2 DEF Unique
  <2> QED
    BY <1>3, <2>8, <2>9, <2>10, <2>11 DEF TableInv
<1> QED
  BY <1>4, <1>5

LEMMA DivAndRest ==
  ASSUME NEW n \in Nat, NEW d \in Nat \ {0}
  PROVE  n \div d \in Nat /\ n % d \in 0 .. d - 1 /\ n = d * (n \div d) + (n % d)
OBVIOUS

\* What is fresh at a purge is younger than a purge period.
LEMMA FreshIsYoung ==
  ASSUME NEW e, e.idle \in Nat
  PROVE  Fresh(e) <=> e.idle < PurgePeriod
<1> DEFINE n == e.idle
           d == TicksPerSecond
           q == n \div d
           r == n % d
<1>1. n \in Nat /\ d \in Nat \ {0} /\ PurgeDelay \in Nat
  BY Numbers
<1>2. q \in Nat /\ r \in 0 .. d - 1 /\ n = d * q + r
  <2> HIDE DEF n, d
  <2> QED
    BY <1>1, DivAndRest
<1>3. Fresh(e) <=> q <= PurgeDelay
  BY DEF Fresh
<1>4. PurgePeriod = (PurgeDelay + 1) * d
  BY DEF PurgePeriod
<1> HIDE DEF n, q, r, d
<1>5. ASSUME q <= PurgeDelay PROVE n < PurgePeriod
  <2>1. q * d <= PurgeDelay * d
    BY <1>1, <1>2, <1>5, TimesIsMonotonic
  <2>2. (PurgeDelay + 1) * d = PurgeDelay * d + d /\ d * q = q * d
    BY <1>1, <1>2
  <2> QED
    BY <1>1, <1>2, <1>4, <2>1, <2>2
<1>6. ASSUME ~(q <= PurgeDelay) PROVE ~(n < PurgePeriod)
  <2>1. PurgeDelay + 1 <= q /\ PurgeDelay + 1 \in Nat
    BY <1>1, <1>2, <1>6
  <2>2. (PurgeDelay + 1) * d <= q * d
    BY <1>1, <1>2, <2>1, TimesIsMonotonic
  <2>3. d * q = q * d
    BY <1>1, <1>2
  <2> QED
    BY <1>1, <1>2, <1>4, <2>2, <2>3
<1> QED
  BY <1>3, <1>5, <1>6 DEF n

\* What a purge does: the fresh entries stay, the others go.
LEMMA PurgeSifts ==
  ASSUME TypeOK, Unique(bins), PurgePVs
  PROVE  /\ sincePurge >= PurgePeriod /\ sincePurge' = 0 /\ currentBin' = 0 /\ lost' = 0
         /\ Table(bins') /\ Unique(bins')
         /\ \A b \in Bin : \A i \in 1 .. Len(bins'[b]) :
              \E a \in Bin : \E k \in 1 .. Len(bins[a]) :
                bins'[b][i] = bins[a][k] /\ bins[a][k].idle < PurgePeriod
         /\ \A p : p \in Searched(bins') <=>
                   \E a \in Bin : \E k \in 1 .. Len(bins[a]) :
                     bins[a][k].pvname = p /\ bins[a][k].idle < PurgePeriod
         /\ waited' = [p \in PV |-> IF p \in Searched(bins') THEN waited[p] ELSE 0]
         /\ promised' = [p \in PV |-> 0] /\ wanted' = [p \in PV |-> "no"]
<1> DEFINE kept == Survivors(bins)
<1>1. Table(bins)
  BY TypeMeans
<1>2. /\ sincePurge >= PurgePeriod /\ sincePurge' = 0 /\ currentBin' = 0 /\ lost' = 0
      /\ bins' = Deal(kept, NBins, SmallPacket)
      /\ waited' = [p \in PV |-> IF \E e \in ToSet(kept) : e.pvname = p THEN waited[p] ELSE 0]
      /\ promised' = [p \in PV |-> 0] /\ wanted' = [p \in PV |-> "no"]
  BY DEF PurgePVs
<1> HIDE DEF kept
<1>3. /\ Table(bins') /\ Unique(bins')
      /\ \A b \in Bin : \A i \in 1 .. Len(bins'[b]) :
           \E a \in Bin : \E k \in 1 .. Len(bins[a]) :
             bins'[b][i] = bins[a][k] /\ Fresh(bins[a][k])
      /\ \A p : p \in Searched(bins') <=>
                \E a \in Bin : \E k \in 1 .. Len(bins[a]) :
                  bins[a][k].pvname = p /\ Fresh(bins[a][k])
      /\ \A p : p \in Searched(bins') <=> \E e \in ToSet(kept) : e.pvname = p
  BY <1>1, <1>2, RedealTable, SMTT(60) DEF kept
<1>4. \A a \in Bin : \A k \in 1 .. Len(bins[a]) :
        Fresh(bins[a][k]) <=> bins[a][k].idle < PurgePeriod
  BY <1>1, Entries1, FreshIsYoung
<1>5. \A b \in Bin : \A i \in 1 .. Len(bins'[b]) :
        \E a \in Bin : \E k \in 1 .. Len(bins[a]) :
          bins'[b][i] = bins[a][k] /\ bins[a][k].idle < PurgePeriod
  BY <1>3, <1>4, SMTT(60)
<1>6. \A p : p \in Searched(bins') <=>
             \E a \in Bin : \E k \in 1 .. Len(bins[a]) :
               bins[a][k].pvname = p /\ bins[a][k].idle < PurgePeriod
  BY <1>3, <1>4
<1>7. waited' = [p \in PV |-> IF p \in Searched(bins') THEN waited[p] ELSE 0]
  <2>1. \A p : p \in Searched(bins') <=> \E e \in ToSet(kept) : e.pvname = p
    BY <1>3
  <2> QED
    BY <1>2, <2>1
<1> QED
  BY <1>1, <1>2, <1>3, <1>5, <1>6, <1>7

LEMMA FinishKeeps ==
  ASSUME TableInv, FinishRun
  PROVE  TableInv'
<1>1. TypeOK /\ Table(bins) /\ Unique(bins)
  BY TypeMeans DEF TableInv
<1>2. phase' = "io" /\ iterated' = TRUE /\ UNCHANGED <<chanId, warm, requests>>
  BY DEF FinishRun
<1>3. CASE PurgePVs
  <2>1. /\ sincePurge' = 0 /\ currentBin' = 0 /\ lost' = 0 /\ Table(bins') /\ Unique(bins')
        /\ \A b \in Bin : \A i \in 1 .. Len(bins'[b]) :
             \E a \in Bin : \E k \in 1 .. Len(bins[a]) :
               bins'[b][i] = bins[a][k] /\ bins[a][k].idle < PurgePeriod
        /\ waited' = [p \in PV |-> IF p \in Searched(bins') THEN waited[p] ELSE 0]
        /\ promised' = [p \in PV |-> 0] /\ wanted' = [p \in PV |-> "no"]
    BY <1>1, <1>3, PurgeSifts
  <2>2. /\ 0 \in Bin /\ 0 \in 0 .. PurgeLimit /\ 0 \in 0 .. MaxWait /\ 0 < PurgePeriod
        /\ 0 \in 0 .. MaxStall /\ 0 <= PurgePeriod + 0
    BY Numbers, Bins
  <2>3. TypeOK'
    BY <1>1, <1>2, <2>1, <2>2 DEF TypeOK, Table, Entry
  <2>4. AtRest'
    BY <2>1 DEF AtRest
  <2>5. ASSUME NEW b \in Bin, NEW i \in 1 .. Len(bins'[b])
        PROVE  AgeInv(bins[b][i])'
    <3>1. PICK a \in Bin : \E k \in 1 .. Len(bins[a]) :
                 bins'[b][i] = bins[a][k] /\ bins[a][k].idle < PurgePeriod
      BY <2>1
    <3>2. PICK k \in 1 .. Len(bins[a]) :
                 bins'[b][i] = bins[a][k] /\ bins[a][k].idle < PurgePeriod
      BY <3>1
    <3>3. bins'[b][i].pvname \in PV /\ bins'[b][i].idle \in Nat /\ PurgePeriod \in Nat
      BY <2>1, Entries1, Numbers
    <3>4. wanted'[bins'[b][i].pvname] = "no"
      BY <2>1, <3>3
    <3> QED
      BY <2>1, <3>2, <3>3, <3>4 DEF AgeInv
  <2>6. PurgeInTime'
    BY <1>2, <2>1, <2>2 DEF PurgeInTime
  <2>7. Unique(bins)'
    BY <2>1 DEF Unique
  <2> QED
    BY <2>3, <2>4, <2>5, <2>6, <2>7 DEF TableInv
<1>4. CASE /\ sincePurge < PurgePeriod
           /\ UNCHANGED <<bins, currentBin, sincePurge, lost, waited, promised, wanted>>
  <2>1. PurgeInTime'
    BY <1>2, <1>4 DEF TableInv, PurgeInTime
  <2> QED
    BY <1>2, <1>4, <2>1 DEF TableInv, TypeOK, Unique, AtRest, AgeInv
<1> QED
  BY <1>3, <1>4 DEF FinishRun

\* A tick before a purge that is due, or no later after it than stalls are
\* long: neither clock is at its bound yet.
LEMMA TickAges ==
  ASSUME TableInv, Tick
  PROVE  /\ ~iterated' /\ warm' /\ UNCHANGED <<currentBin, chanId, phase, seen>>
         /\ (iterated /\ lost' = lost) \/ (~iterated /\ lost' = lost + 1)
         /\ lost' \in 0 .. MaxStall
         /\ sincePurge' = sincePurge + 1 /\ sincePurge' <= PurgePeriod + lost'
         /\ SamePlaces(bins, bins')
         /\ Unique(bins') /\ \A q : q \in Searched(bins') <=> q \in Searched(bins)
         /\ \A b \in Bin : \A i \in 1 .. Len(bins[b]) : bins'[b][i].idle = bins[b][i].idle + 1
<1>1. /\ TypeOK /\ Table(bins) /\ Unique(bins) /\ sincePurge \in Nat
      /\ PurgePeriod \in Nat /\ MaxIdle = PurgePeriod + PurgeLimit
      /\ MaxStall \in Nat /\ PurgeLimit = PurgePeriod + MaxStall
      /\ lost \in 0 .. MaxStall /\ iterated \in BOOLEAN
  BY TypeMeans, Numbers DEF TableInv
<1>2. /\ iterated' = FALSE /\ warm' = TRUE
      /\ \/ iterated /\ lost' = lost
         \/ ~iterated /\ lost < MaxStall /\ lost' = lost + 1
      /\ sincePurge' = Min({sincePurge + 1, PurgeLimit})
      /\ bins' = Aged(bins) /\ UNCHANGED <<currentBin, chanId, phase, seen>>
  BY DEF Tick, TimePasses, Aged
<1>3. /\ sincePurge < PurgePeriod + MaxStall /\ lost' \in 0 .. MaxStall
      /\ sincePurge + 1 <= PurgePeriod + lost'
  <2>1. sincePurge <= PurgePeriod + lost /\ (iterated => sincePurge < PurgePeriod)
    BY DEF TableInv, PurgeInTime
  <2> QED
    BY <1>1, <1>2, <2>1
<1>4. sincePurge' = sincePurge + 1
  BY <1>1, <1>2, <1>3, MinOfTwo
<1>5. /\ SamePlaces(bins, bins')
      /\ \A b \in Bin : \A i \in 1 .. Len(bins[b]) :
           bins'[b][i].idle = Older(bins[b][i].idle)
  BY <1>1, <1>2, AgedTable
<1>6. Unique(bins') /\ \A q : q \in Searched(bins') <=> q \in Searched(bins)
  BY <1>1, <1>5, SamePlacesKeep
<1>7. ASSUME NEW b \in Bin, NEW i \in 1 .. Len(bins[b])
      PROVE  bins'[b][i].idle = bins[b][i].idle + 1
  <2>1. bins[b][i].idle < sincePurge + PurgePeriod
    BY DEF TableInv, AgeInv
  <2>2. bins[b][i].idle \in Nat
    BY <1>1, Entries1
  <2> QED
    BY <1>1, <1>3, <1>5, <2>1, <2>2 DEF Older
<1> QED
  BY <1>2, <1>3, <1>4, <1>5, <1>6, <1>7

LEMMA TickKeeps ==
  ASSUME TableInv, Tick
  PROVE  TableInv'
<1>1. /\ TypeOK /\ Table(bins) /\ sincePurge \in Nat /\ PurgePeriod \in Nat
      /\ MaxStall \in Nat /\ PurgeLimit = PurgePeriod + MaxStall
  BY TypeMeans, Numbers DEF TableInv
<1>2. /\ iterated' = FALSE /\ warm' = TRUE
      /\ UNCHANGED <<currentBin, chanId, phase, requests, waited, promised, wanted>>
  BY DEF Tick, TimePasses, seen
<1>3. /\ lost' \in 0 .. MaxStall
      /\ sincePurge' = sincePurge + 1 /\ sincePurge' <= PurgePeriod + lost'
      /\ SamePlaces(bins, bins')
      /\ Unique(bins') /\ \A q : q \in Searched(bins') <=> q \in Searched(bins)
      /\ \A b \in Bin : \A i \in 1 .. Len(bins[b]) : bins'[b][i].idle = bins[b][i].idle + 1
  BY TickAges
<1>4. TypeOK'
  <2>1. sincePurge' \in 0 .. PurgeLimit
    <3> DEFINE s == sincePurge'
               n == lost'
    <3>1. s = sincePurge + 1 /\ s <= PurgePeriod + n /\ n \in 0 .. MaxStall
      BY <1>3
    <3> HIDE DEF s, n
    <3>2. s \in 0 .. PurgeLimit
      BY <1>1, <3>1
    <3> QED
      BY <3>2 DEF s
  <2> QED
    BY <1>1, <1>2, <1>3, <2>1 DEF TypeOK, SamePlaces, Table, Entry
<1>5. AtRest'
  BY <1>2, <1>3 DEF TableInv, AtRest
<1>6. ASSUME NEW b \in Bin, NEW i \in 1 .. Len(bins'[b])
      PROVE  AgeInv(bins[b][i])'
  <2>1. /\ i \in 1 .. Len(bins[b]) /\ bins'[b][i].pvname = bins[b][i].pvname
        /\ bins'[b][i].idle = bins[b][i].idle + 1
    BY <1>3 DEF SamePlaces
  <2>2. AgeInv(bins[b][i]) /\ bins[b][i].idle \in Nat
    BY <1>1, <2>1, Entries1 DEF TableInv
  <2> DEFINE d == bins[b][i].idle
             w == wanted[bins[b][i].pvname]
  <2>3. /\ d \in Nat /\ d < sincePurge + PurgePeriod
        /\ w = "no" => d >= sincePurge
        /\ w = "early" => d < sincePurge
        /\ w = "yes" => d + MaxStall < sincePurge
    BY <2>2 DEF AgeInv
  <2>4. /\ bins'[b][i].idle = d + 1 /\ wanted'[bins'[b][i].pvname] = w
        /\ sincePurge' = sincePurge + 1
    BY <1>2, <1>3, <2>1
  <2> HIDE DEF d, w
  <2>5. /\ d + 1 < (sincePurge + 1) + PurgePeriod
        /\ w = "no" => d + 1 >= sincePurge + 1
        /\ w = "early" => d + 1 < sincePurge + 1
        /\ w = "yes" => (d + 1) + MaxStall < sincePurge + 1
    BY <1>1, <2>3
  <2> QED
    BY <2>4, <2>5 DEF AgeInv
<1>7. PurgeInTime'
  BY <1>2, <1>3 DEF PurgeInTime
<1>8. Unique(bins)'
  BY <1>3 DEF Unique
<1> QED
  BY <1>4, <1>5, <1>6, <1>7, <1>8 DEF TableInv

LEMMA StepTable == TableInv /\ [Next]_vars => TableInv'
<1> SUFFICES ASSUME TableInv, [Next]_vars PROVE TableInv'
  OBVIOUS
<1>1. CASE \E p \in PV : AddPV(p) \/ DropPV(p)
  BY <1>1, AddKeeps, DropKeeps
<1>2. CASE \E r \in requests : ProcessIncoming(r)
  BY <1>2, AnswerKeeps
<1>3. CASE ProcessOutgoing
  BY <1>3, RoundKeeps
<1>4. CASE FinishRun
  BY <1>4, FinishKeeps
<1>5. CASE Tick
  BY <1>5, TickKeeps
<1>6. CASE UNCHANGED vars
  BY <1>6 DEF vars, table, loop, seen, TableInv, TypeOK, Unique, AtRest, AgeInv, PurgeInTime
<1> QED
  BY <1>1, <1>2, <1>3, <1>4, <1>5, <1>6 DEF Next

LEMMA TableIsKept == Spec => []TableInv
<1> QED
  BY InitTable, StepTable, PTL DEF Spec

-----------------------------------------------------------------------------
\* The searched PVs are stored, timed and observed within their types.
THEOREM TypeCorrect == Spec => []TypeOK
<1>1. TableInv => TypeOK
  BY DEF TableInv
<1> QED
  BY <1>1, TableIsKept, PTL

\* No PV is ever in the bins of one searcher twice: neither the moves of a
\* round (processOutgoing), nor the new bins of a purge (purgePVs), nor the
\* insertions and removals between them make a second entry.
THEOREM EachPVOnce == Spec => []NoDuplicates
<1>1. TableInv => NoDuplicates
  <2> SUFFICES ASSUME TableInv PROVE NoDuplicates
    OBVIOUS
  <2>1. \A b \in Bin : DOMAIN bins[b] = 1 .. Len(bins[b])
    BY TypeMeans, Entries1 DEF TableInv
  <2> QED
    BY <2>1, SMTT(60) DEF TableInv, Unique, NoDuplicates
<1> QED
  BY <1>1, TableIsKept, PTL

\* A PV that no client asks for any more leaves the bins, with the next purge but
\* one at the latest: its time stamp never gets as old as two purge periods and
\* the time by which stalls may put a purge off.
THEOREM SearchesEnd == Spec => []NoForgottenSearch
<1>1. TableInv => NoForgottenSearch
  <2> SUFFICES ASSUME TableInv, NEW e \in Entries(bins) PROVE e.idle < MaxIdle
    BY DEF NoForgottenSearch
  <2>1. Table(bins) /\ sincePurge \in 0 .. PurgeLimit /\ PurgePeriod \in Nat /\ PurgeLimit \in Nat
    BY TypeMeans, Numbers DEF TableInv
  <2>2. PICK b \in Bin : e \in ToSet(bins[b])
    BY DEF Entries
  <2>3. PICK i \in 1 .. Len(bins[b]) : e = bins[b][i]
    BY <2>1, <2>2, Entries1 DEF ToSet
  <2>4. e.idle < sincePurge + PurgePeriod /\ e.idle \in Nat
    BY <2>1, <2>3, Entries1 DEF TableInv, AgeInv
  <2> QED
    BY <2>1, <2>4, Numbers
<1> QED
  BY <1>1, TableIsKept, PTL

\* However late stalls make a purge, it drops every PV that no client has asked
\* for since the one before it, and keeps those asked for in time: later than
\* MaxStall ticks after that purge or, if this one is not late, in any tick after
\* it.  (Those asked for earlier a late purge may drop.)
THEOREM PurgeDropsTheUnwanted == Spec => PurgeMatchesClients
<1>1. ASSUME TableInv, [Next]_vars, sincePurge' < sincePurge, NEW p \in Searched(bins)
      PROVE  /\ wanted[p] = "no" => p \notin Searched(bins')
             /\ wanted[p] = "yes" => p \in Searched(bins')
             /\ wanted[p] = "early" /\ sincePurge = PurgePeriod => p \in Searched(bins')
  <2>1. /\ TypeOK /\ Table(bins) /\ Unique(bins) /\ sincePurge \in 0 .. PurgeLimit
        /\ PurgePeriod \in Nat /\ MaxStall \in Nat /\ PurgeLimit = PurgePeriod + MaxStall
    BY <1>1, TypeMeans, Numbers DEF TableInv
  <2>2. ~Tick
    <3>1. Tick => sincePurge' = sincePurge + 1
      BY <1>1, TickAges
    <3> QED
      BY <1>1, <2>1, <3>1
  <2>3. sincePurge' # sincePurge
    BY <1>1, <2>1
  <2>4. PurgePVs
    BY <1>1, <2>2, <2>3
    DEF Next, AddPV, DropPV, ProcessIncoming, ProcessOutgoing, FinishRun, vars, loop
  <2>5. /\ sincePurge >= PurgePeriod
        /\ p \in Searched(bins') <=> \E a \in Bin : \E k \in 1 .. Len(bins[a]) :
              bins[a][k].pvname = p /\ bins[a][k].idle < PurgePeriod
    BY <2>1, <2>4, PurgeSifts
  <2>6. \A a \in Bin : \A k \in 1 .. Len(bins[a]) :
          bins[a][k].pvname = p =>
            /\ bins[a][k].idle \in Nat
            /\ wanted[p] = "no" => bins[a][k].idle >= PurgePeriod
            /\ wanted[p] = "yes" => bins[a][k].idle < PurgePeriod
            /\ wanted[p] = "early" /\ sincePurge = PurgePeriod => bins[a][k].idle < PurgePeriod
    <3> TAKE a \in Bin
    <3> TAKE k \in 1 .. Len(bins[a])
    <3> HAVE bins[a][k].pvname = p
    <3>1. AgeInv(bins[a][k]) /\ bins[a][k].idle \in Nat
      BY <1>1, <2>1, Entries1 DEF TableInv
    <3>2. /\ wanted[p] = "no" => bins[a][k].idle >= sincePurge
          /\ wanted[p] = "early" => bins[a][k].idle < sincePurge
          /\ wanted[p] = "yes" => bins[a][k].idle + MaxStall < sincePurge
      BY <3>1 DEF AgeInv
    <3> QED
      BY <2>1, <2>5, <3>1, <3>2
  <2>7. PICK a \in Bin : \E k \in 1 .. Len(bins[a]) : bins[a][k].pvname = p
    BY <1>1, <2>1, SearchedMeans
  <2>8. /\ wanted[p] = "yes" => p \in Searched(bins')
        /\ wanted[p] = "early" /\ sincePurge = PurgePeriod => p \in Searched(bins')
    BY <2>5, <2>6, <2>7
  <2>9. wanted[p] = "no" => p \notin Searched(bins')
    BY <2>1, <2>5, <2>6
  <2> QED
    BY <2>8, <2>9
<1>2. TableInv /\ [Next]_vars =>
        [sincePurge' < sincePurge =>
           \A p \in Searched(bins) :
             /\ wanted[p] = "no" => p \notin Searched(bins')
             /\ wanted[p] = "yes" => p \in Searched(bins')
             /\ wanted[p] = "early" /\ sincePurge = PurgePeriod => p \in Searched(bins')]_vars
  BY <1>1
<1> QED
  BY <1>2, TableIsKept, PTL DEF Spec, PurgeMatchesClients

-----------------------------------------------------------------------------
\* The ring.

\* One turn taken off a number below two turns.
LEMMA Modulo ==
  ASSUME NEW n \in Nat \ {0}, NEW x \in Nat, x < 2 * n
  PROVE  x % n = IF x < n THEN x ELSE x - n
<1> DEFINE q == x \div n
           r == x % n
<1>1. q \in Nat /\ r \in 0 .. n - 1 /\ x = n * q + r
  BY DivAndRest
<1> HIDE DEF q, r
<1>2. q = 0 => n * q = 0
  BY <1>1
<1>3. q = 1 => n * q = n
  BY <1>1
<1>4. q = 0 \/ q = 1
  <2> SUFFICES ASSUME 2 <= q PROVE FALSE
    BY <1>1
  <2>1. 2 * n <= q * n /\ q * n \in Nat
    BY <1>1, TimesIsMonotonic
  <2>2. n * q = q * n
    BY <1>1
  <2> QED
    BY <1>1, <2>1, <2>2
<1>5. r = IF x < n THEN x ELSE x - n
  BY <1>1, <1>2, <1>3, <1>4
<1> QED
  BY <1>5 DEF r

\* How far bin b is from bin c, in rounds.
From(c, b) == (b + NBins - c) % NBins

LEMMA Distance ==
  ASSUME NEW c \in Bin, NEW b \in Bin
  PROVE  /\ From(c, b) = IF c <= b THEN b - c ELSE b + NBins - c
         /\ From(c, b) \in 0 .. NBins - 1
<1>1. NBins \in Nat \ {0} /\ c \in 0 .. NBins - 1 /\ b \in 0 .. NBins - 1
  BY Numbers DEF Bin
<1> DEFINE x == b + NBins - c
<1>2. x \in Nat /\ x < 2 * NBins /\ (x < NBins <=> ~(c <= b))
  BY <1>1
<1>3. From(c, b) = IF x < NBins THEN x ELSE x - NBins
  <2> HIDE DEF x
  <2>1. x % NBins = IF x < NBins THEN x ELSE x - NBins
    BY <1>1, <1>2, Modulo
  <2> QED
    BY <2>1 DEF From, x
<1> QED
  BY <1>1, <1>2, <1>3

LEMMA NextSlotIs ==
  ASSUME NEW c \in Bin
  PROVE  /\ NextSlot(c) \in Bin
         /\ NextSlot(c) = IF c = NBins - 1 THEN 0 ELSE c + 1
<1>1. NBins \in Nat \ {0} /\ c \in 0 .. NBins - 1 /\ NBins > 2
  BY Numbers DEF Bin
<1> DEFINE x == c + 1
<1>2. x \in Nat /\ x < 2 * NBins
  BY <1>1
<1> HIDE DEF x
<1>3. x % NBins = IF x < NBins THEN x ELSE x - NBins
  BY <1>1, <1>2, Modulo
<1> QED
  BY <1>1, <1>3, NextSlotInRing DEF NextSlot, x

\* A bin the ring is not at is one round nearer after the round.
LEMMA Nearer ==
  ASSUME NEW c \in Bin, NEW b \in Bin, b # c
  PROVE  /\ From(NextSlot(c), b) = From(c, b) - 1
         /\ c <= b => NextSlot(c) = c + 1 /\ c + 1 <= b
<1>1. NBins \in Nat \ {0} /\ c \in 0 .. NBins - 1 /\ b \in 0 .. NBins - 1
  BY Numbers DEF Bin
<1> DEFINE d == NextSlot(c)
<1>2. d \in Bin /\ d = IF c = NBins - 1 THEN 0 ELSE c + 1
  BY NextSlotIs
<1> HIDE DEF d
<1>3. /\ From(c, b) = IF c <= b THEN b - c ELSE b + NBins - c
      /\ From(d, b) = IF d <= b THEN b - d ELSE b + NBins - d
  BY <1>2, Distance
<1> QED
  BY <1>1, <1>2, <1>3 DEF d

\* The bin that lies n bins ahead is reached after n rounds, this one included.
LEMMA Promised ==
  ASSUME NEW c \in Bin, NEW n \in 1 .. NBins
  PROVE  (c + n) % NBins \in Bin /\ From(NextSlot(c), (c + n) % NBins) = n - 1
<1>1. NBins \in Nat \ {0} /\ c \in 0 .. NBins - 1 /\ n \in 1 .. NBins
  BY Numbers DEF Bin
<1> DEFINE x == c + n
           b == x % NBins
           d == NextSlot(c)
<1>2. x \in Nat /\ x < 2 * NBins /\ x = c + n
  BY <1>1
<1> HIDE DEF x
<1>3. b = IF x < NBins THEN x ELSE x - NBins
  BY <1>1, <1>2, Modulo
<1> HIDE DEF b
<1>4. b \in Bin
  BY <1>1, <1>2, <1>3 DEF Bin
<1>5. d \in Bin /\ d = IF c = NBins - 1 THEN 0 ELSE c + 1
  BY NextSlotIs
<1> HIDE DEF d
<1>6. From(d, b) = IF d <= b THEN b - d ELSE b + NBins - d
  BY <1>4, <1>5, Distance
<1>7. b \in Bin /\ From(d, b) = n - 1
  BY <1>1, <1>2, <1>3, <1>4, <1>5, <1>6
<1> QED
  BY <1>7 DEF d, b, x

-----------------------------------------------------------------------------
\* What the steps do to the bins and the observers, for the two invariants of
\* the schedule.

\* The ring does not turn: an entry stays in its bin, and a new one is to be
\* asked for at once.
StandStill ==
  /\ currentBin' = currentBin
  /\ \A b \in Bin : \A i \in 1 .. Len(bins'[b]) :
       LET p == bins'[b][i].pvname
       IN  \/ /\ \E j \in 1 .. Len(bins[b]) : bins[b][j].pvname = p
              /\ waited'[p] = waited[p] /\ promised'[p] = promised[p]
           \/ b = currentBin /\ waited'[p] = 0 /\ promised'[p] = 0

\* The ring turns: an entry of the current bin goes as far ahead as promised,
\* the others have waited for one more round.
TurnOn ==
  /\ currentBin' = NextSlot(currentBin)
  /\ \A b \in Bin : \A i \in 1 .. Len(bins'[b]) :
       LET p == bins'[b][i].pvname
       IN  \/ \E n \in 1 .. Len(Intervals) :
                /\ b = (currentBin + Intervals[n]) % NBins
                /\ waited'[p] = 0 /\ promised'[p] = Intervals[n]
           \/ /\ b # currentBin /\ \E j \in 1 .. Len(bins[b]) : bins[b][j].pvname = p
              /\ promised'[p] = promised[p]
              /\ waited'[p] = IF waited[p] + 1 <= MaxWait THEN waited[p] + 1 ELSE MaxWait

\* The ring starts over, with entries in any bins.
StartOver ==
  /\ currentBin' = 0 /\ sincePurge >= PurgePeriod /\ sincePurge' = 0 /\ lost' = 0
  /\ phase = "purge" /\ phase' = "io" /\ iterated' = TRUE /\ warm' = warm
  /\ \A b \in Bin : \A i \in 1 .. Len(bins'[b]) :
       LET p == bins'[b][i].pvname
       IN  /\ \E a \in Bin : \E k \in 1 .. Len(bins[a]) : bins[a][k].pvname = p
           /\ waited'[p] = waited[p] /\ promised'[p] = 0

LEMMA ForgetStands ==
  ASSUME TypeOK, NEW p \in PV, Dropped(bins, bins', p), Forget({p}),
         UNCHANGED <<currentBin, chanId, loop, requests>>
  PROVE  StandStill
<1>1. ASSUME NEW b \in Bin, NEW i \in 1 .. Len(bins'[b])
      PROVE  LET q == bins'[b][i].pvname
             IN  /\ \E j \in 1 .. Len(bins[b]) : bins[b][j].pvname = q
                 /\ waited'[q] = waited[q] /\ promised'[q] = promised[q]
  <2> DEFINE q == bins'[b][i].pvname
  <2>1. q # p /\ q \in PV
    BY SearchedMeans, Entries1 DEF Dropped, Thinned
  <2>2. \E j \in 1 .. Len(bins[b]) : bins[b][j].pvname = q
    BY DEF Dropped, Thinned
  <2> HIDE DEF q
  <2>3. waited'[q] = waited[q] /\ promised'[q] = promised[q]
    BY <2>1 DEF Forget
  <2> QED
    BY <2>2, <2>3 DEF q
<1> QED
  BY <1>1 DEF StandStill

LEMMA AddStands ==
  ASSUME TableInv, NEW p \in PV, AddPV(p)
  PROVE  StandStill
<1>1. TypeOK /\ Table(bins) /\ Unique(bins) /\ currentBin \in Bin /\ chanId \in ChanId
  BY TypeMeans DEF TableInv
<1>2. UNCHANGED <<currentBin, waited, promised>>
  BY DEF AddPV
<1>3. CASE p \in Searched(bins) /\ bins' = Touch(bins, p)
  <2>1. SamePlaces(bins, bins')
    BY <1>1, <1>3, TouchTable
  <2> QED
    BY <1>2, <2>1 DEF StandStill, SamePlaces
<1>4. CASE p \notin Searched(bins) /\ bins' = Insert(bins, currentBin, p, chanId)
  <2>1. Added(bins, bins', currentBin, p)
    BY <1>1, <1>4, InsertTable
  <2>2. waited[p] = 0 /\ promised[p] = 0
    BY <1>4 DEF TableInv, AtRest
  <2> QED
    BY <1>2, <2>1, <2>2 DEF StandStill, Added
<1> QED
  BY <1>3, <1>4 DEF AddPV

LEMMA RoundTurns ==
  ASSUME TableInv, ProcessOutgoing, warm
  PROVE  TurnOn
<1>1. TypeOK /\ Table(bins) /\ Unique(bins) /\ currentBin \in Bin /\ phase = "io"
  BY TypeMeans DEF TableInv, ProcessOutgoing
<1>2. bins' = AfterRound(bins, currentBin) /\ currentBin' = NextSlot(currentBin)
  BY DEF ProcessOutgoing
<1>3. \A b \in Bin : \A i \in 1 .. Len(bins'[b]) :
        \E a \in Bin : \E k \in 1 .. Len(bins[a]) :
          Route(bins, currentBin, a, k, b) /\ Same(bins'[b][i], bins[a][k])
  BY <1>1, <1>2, RoundTable, ZenonT(60)
<1>4. ASSUME NEW b \in Bin, NEW i \in 1 .. Len(bins'[b])
      PROVE  LET p == bins'[b][i].pvname
             IN  \/ \E n \in 1 .. Len(Intervals) :
                      /\ b = (currentBin + Intervals[n]) % NBins
                      /\ waited'[p] = 0 /\ promised'[p] = Intervals[n]
                 \/ /\ b # currentBin /\ \E j \in 1 .. Len(bins[b]) : bins[b][j].pvname = p
                    /\ promised'[p] = promised[p]
                    /\ waited'[p] = IF waited[p] + 1 <= MaxWait THEN waited[p] + 1 ELSE MaxWait
  <2>1. PICK a \in Bin : \E k \in 1 .. Len(bins[a]) :
               Route(bins, currentBin, a, k, b) /\ Same(bins'[b][i], bins[a][k])
    BY <1>3
  <2>2. PICK k \in 1 .. Len(bins[a]) :
               Route(bins, currentBin, a, k, b) /\ Same(bins'[b][i], bins[a][k])
    BY <2>1
  <2> DEFINE p == bins'[b][i].pvname
             e == bins[a][k]
  <2>3. p = e.pvname /\ p \in PV /\ e.next \in 1 .. Len(Intervals)
    BY <1>1, <2>2, Entries1 DEF Same
  <2>4. CASE a = currentBin
    <3>1. waited'[p] = 0 /\ promised'[p] = Intervals[e.next]
      BY <1>1, <2>3, <2>4, Promises
    <3>2. b = (currentBin + Intervals[e.next]) % NBins
      <4>1. CASE Moves(e)
        BY <2>2, <2>4, <4>1 DEF Route, NextBin
      <4>2. CASE ~Moves(e)
        <5>1. b = currentBin
          BY <2>2, <2>4, <4>2 DEF Route
        <5>2. Intervals[e.next] = NBins
          BY <2>3, <4>2, Numbers, SMTT(60) DEF Moves
        <5>3. (currentBin + NBins) % NBins = currentBin
          <6> DEFINE x == currentBin + NBins
          <6>1. NBins \in Nat \ {0} /\ currentBin \in 0 .. NBins - 1
            BY <1>1, Numbers DEF Bin
          <6>2. x \in Nat /\ x < 2 * NBins /\ ~(x < NBins) /\ x - NBins = currentBin
            BY <6>1
          <6> HIDE DEF x
          <6>3. x % NBins = currentBin
            BY <6>1, <6>2, Modulo
          <6> QED
            BY <6>3 DEF x
        <5> QED
          BY <5>1, <5>2, <5>3
      <4> QED
        BY <4>1, <4>2
    <3> QED
      BY <2>3, <3>1, <3>2, Zenon
  <2>5. CASE a # currentBin
    <3>1. b = a
      BY <2>2, <2>5 DEF Route
    <3>2. \A j \in 1 .. Len(bins[currentBin]) : bins[currentBin][j].pvname # p
      BY <1>1, <2>3, <2>5, SamePlace
    <3>3. p \in Searched(bins)
      BY <1>1, <2>3, SearchedMeans
    <3> HIDE DEF p
    <3>4. /\ promised'[p] = promised[p]
          /\ waited'[p] = IF waited[p] + 1 <= MaxWait THEN waited[p] + 1 ELSE MaxWait
      BY <1>1, <2>3, <3>2, <3>3, Waits
    <3> QED
      BY <2>3, <2>5, <3>1, <3>4 DEF p
  <2> QED
    BY <2>4, <2>5
<1> QED
  BY <1>2, <1>4 DEF TurnOn

LEMMA PurgeStartsOver ==
  ASSUME TableInv, FinishRun, PurgePVs
  PROVE  StartOver
<1>1. TypeOK /\ Unique(bins)
  BY DEF TableInv
<1>2. /\ sincePurge >= PurgePeriod /\ sincePurge' = 0 /\ currentBin' = 0 /\ lost' = 0
      /\ Table(bins')
      /\ \A b \in Bin : \A i \in 1 .. Len(bins'[b]) :
           \E a \in Bin : \E k \in 1 .. Len(bins[a]) :
             bins'[b][i] = bins[a][k] /\ bins[a][k].idle < PurgePeriod
      /\ waited' = [p \in PV |-> IF p \in Searched(bins') THEN waited[p] ELSE 0]
      /\ promised' = [p \in PV |-> 0]
  BY <1>1, PurgeSifts
<1>3. phase = "purge" /\ phase' = "io" /\ iterated' = TRUE /\ warm' = warm
  BY DEF FinishRun
<1>4. ASSUME NEW b \in Bin, NEW i \in 1 .. Len(bins'[b])
      PROVE  LET p == bins'[b][i].pvname
             IN  /\ \E a \in Bin : \E k \in 1 .. Len(bins[a]) : bins[a][k].pvname = p
                 /\ waited'[p] = waited[p] /\ promised'[p] = 0
  <2> DEFINE p == bins'[b][i].pvname
  <2>1. p \in PV /\ p \in Searched(bins')
    BY <1>2, Entries1, SearchedMeans
  <2>2. \E a \in Bin : \E k \in 1 .. Len(bins[a]) : bins[a][k].pvname = p
    <3>1. \A c \in Bin : \A j \in 1 .. Len(bins'[c]) :
            \E a \in Bin : \E k \in 1 .. Len(bins[a]) :
              bins'[c][j] = bins[a][k] /\ bins[a][k].idle < PurgePeriod
      BY <1>2
    <3>2. \E a \in Bin : \E k \in 1 .. Len(bins[a]) :
            bins'[b][i] = bins[a][k] /\ bins[a][k].idle < PurgePeriod
      BY <3>1
    <3> QED
      BY <3>2
  <2> HIDE DEF p
  <2>3. waited'[p] = waited[p] /\ promised'[p] = 0
    BY <1>2, <2>1
  <2> QED
    BY <2>2, <2>3 DEF p
<1> QED
  BY <1>2, <1>3, <1>4 DEF StartOver

\* Every step is one of the three, and a purge in any case the third.
LEMMA StepOfRing ==
  ASSUME TableInv, [Next]_vars
  PROVE  \/ StandStill /\ ~(ProcessOutgoing /\ warm) /\ sincePurge' >= sincePurge
         \/ TurnOn /\ ProcessOutgoing /\ warm
         \/ StartOver
<1>1. TypeOK /\ sincePurge \in Nat
  BY TypeMeans DEF TableInv
<1>2. CASE \E p \in PV : AddPV(p)
  <2>1. PICK p \in PV : AddPV(p)
    BY <1>2
  <2>2. StandStill
    BY <2>1, AddStands
  <2>3. phase' = phase /\ sincePurge' = sincePurge
    BY <2>1 DEF AddPV, loop
  <2>4. ~ProcessOutgoing
    BY <2>1, <2>3 DEF AddPV, ProcessOutgoing
  <2> QED
    BY <1>1, <2>2, <2>3, <2>4
<1>3. CASE \E p \in PV : DropPV(p)
  <2>1. PICK p \in PV : DropPV(p)
    BY <1>3
  <2>2. Dropped(bins, bins', p)
    BY <1>1, <2>1, RemovePVOne, TypeMeans DEF DropPV, TableInv
  <2>3. StandStill
    BY <1>1, <2>1, <2>2, ForgetStands DEF DropPV
  <2> QED
    BY <1>1, <2>1, <2>3 DEF DropPV, ProcessOutgoing, loop
<1>4. CASE \E r \in requests : ProcessIncoming(r)
  <2>1. PICK r \in requests : ProcessIncoming(r)
    BY <1>4
  <2>2. PICK p \in PV : /\ p \in Searched(bins) /\ Dropped(bins, bins', p) /\ Forget({p})
                        /\ UNCHANGED <<currentBin, chanId, loop, requests>>
    BY <2>1, AnswerDrops
  <2>3. StandStill
    BY <1>1, <2>2, ForgetStands
  <2> QED
    BY <1>1, <2>1, <2>3 DEF ProcessIncoming, ProcessOutgoing, loop
<1>5. CASE ProcessOutgoing
  <2>1. CASE warm
    BY <1>5, <2>1, RoundTurns
  <2>2. CASE ~warm
    <3>1. UNCHANGED <<bins, currentBin, waited, promised, sincePurge>>
      BY <1>5, <2>2 DEF ProcessOutgoing
    <3> QED
      BY <1>1, <2>2, <3>1 DEF StandStill
  <2> QED
    BY <2>1, <2>2
<1>6. CASE FinishRun
  <2>1. CASE PurgePVs
    BY <1>6, <2>1, PurgeStartsOver
  <2>2. CASE UNCHANGED <<bins, currentBin, sincePurge, waited, promised>>
    BY <1>1, <1>6, <2>2 DEF StandStill, FinishRun, ProcessOutgoing
  <2> QED
    BY <1>6, <2>1, <2>2 DEF FinishRun
<1>7. CASE Tick
  <2>1. /\ SamePlaces(bins, bins') /\ UNCHANGED <<currentBin, waited, promised, phase>>
        /\ sincePurge' = sincePurge + 1
    BY <1>7, TickAges DEF seen
  <2>2. StandStill
    BY <2>1 DEF StandStill, SamePlaces
  <2>3. ~ProcessOutgoing
    BY <2>1 DEF ProcessOutgoing
  <2> QED
    BY <1>1, <2>1, <2>2, <2>3
<1>8. CASE UNCHANGED vars
  BY <1>1, <1>8 DEF vars, table, loop, seen, StandStill, ProcessOutgoing
<1> QED
  BY <1>2, <1>3, <1>4, <1>5, <1>6, <1>7, <1>8 DEF Next

LEMMA Observed ==
  ASSUME TypeOK, NEW b \in Bin, NEW i \in 1 .. Len(bins[b])
  PROVE  LET p == bins[b][i].pvname
         IN  /\ p \in PV /\ waited[p] \in Nat /\ promised[p] \in Nat
<1>1. bins[b][i].pvname \in PV
  BY TypeMeans, Entries1
<1>2. MaxWait \in Nat
  BY Numbers
<1> QED
  BY <1>1, <1>2, TypeMeans

LEMMA AheadIs == \A b : Ahead(b) = From(currentBin, b)
BY DEF Ahead, From

LEMMA StepSchedule ==
  ASSUME \A i \in 1 .. Len(Intervals) : Intervals[i] <= NBins
  PROVE  TableInv /\ ScheduleInv /\ [Next]_vars => ScheduleInv'
<1> SUFFICES ASSUME TableInv, ScheduleInv, [Next]_vars,
                    NEW b \in Bin, NEW i \in 1 .. Len(bins'[b]),
                    promised'[bins'[b][i].pvname] # 0
             PROVE  LET p == bins'[b][i].pvname
                    IN  promised'[p] <= NBins /\ From(currentBin', b) = promised'[p] - waited'[p] - 1
  BY DEF ScheduleInv, Ahead, From
<1> DEFINE p == bins'[b][i].pvname
<1>1. /\ TypeOK /\ TypeOK' /\ currentBin \in Bin /\ NBins \in Nat /\ NBins > 2
      /\ MaxWait = 2 * NBins
  BY StepTable, TypeMeans, Numbers DEF TableInv
<1>2. ASSUME NEW c \in Bin, NEW j \in 1 .. Len(bins[c]), bins[c][j].pvname = p,
             promised[p] # 0
      PROVE  /\ promised[p] <= NBins /\ From(currentBin, c) = promised[p] - waited[p] - 1
             /\ waited[p] \in Nat /\ promised[p] \in Nat
  BY <1>1, <1>2, Observed, AheadIs DEF ScheduleInv
<1> HIDE DEF p
<1>3. promised'[p] # 0
  BY DEF p
<1>4. CASE StandStill
  <2>1. /\ \E j \in 1 .. Len(bins[b]) : bins[b][j].pvname = p
        /\ waited'[p] = waited[p] /\ promised'[p] = promised[p] /\ currentBin' = currentBin
    BY <1>3, <1>4 DEF StandStill, p
  <2> QED
    BY <1>2, <1>3, <2>1 DEF p
<1>5. CASE TurnOn
  <2>1. CASE \E n \in 1 .. Len(Intervals) :
               /\ b = (currentBin + Intervals[n]) % NBins
               /\ waited'[p] = 0 /\ promised'[p] = Intervals[n]
    <3>1. PICK n \in 1 .. Len(Intervals) :
               /\ b = (currentBin + Intervals[n]) % NBins
               /\ waited'[p] = 0 /\ promised'[p] = Intervals[n]
      BY <2>1
    <3> DEFINE m == Intervals[n]
    <3>2. m \in Nat /\ m <= NBins /\ m # 0
      BY <1>3, <3>1, Numbers
    <3>3. b = (currentBin + m) % NBins /\ promised'[p] = m
      BY <3>1
    <3> HIDE DEF m
    <3>4. m \in 1 .. NBins
      BY <1>1, <3>2
    <3>5. From(NextSlot(currentBin), b) = m - 1
      BY <1>1, <3>3, <3>4, Promised
    <3>6. currentBin' = NextSlot(currentBin)
      BY <1>5 DEF TurnOn
    <3> QED
      BY <3>1, <3>2, <3>3, <3>5, <3>6 DEF p
  <2>2. CASE /\ b # currentBin /\ \E j \in 1 .. Len(bins[b]) : bins[b][j].pvname = p
             /\ promised'[p] = promised[p]
             /\ waited'[p] = IF waited[p] + 1 <= MaxWait THEN waited[p] + 1 ELSE MaxWait
    <3>1. /\ promised[p] <= NBins /\ From(currentBin, b) = promised[p] - waited[p] - 1
          /\ waited[p] \in Nat /\ promised[p] \in Nat
      BY <1>2, <1>3, <2>2
    <3>2. From(NextSlot(currentBin), b) = From(currentBin, b) - 1 /\ b \in Bin
      BY <1>1, <2>2, Nearer
    <3>3. From(currentBin, b) \in 0 .. NBins - 1
      BY <1>1, Distance
    <3>4. waited'[p] = waited[p] + 1
      BY <1>1, <2>2, <3>1, <3>3
    <3>5. currentBin' = NextSlot(currentBin)
      BY <1>5 DEF TurnOn
    <3>6. From(currentBin', b) = promised'[p] - waited'[p] - 1
      BY <1>1, <2>2, <3>1, <3>2, <3>3, <3>4, <3>5, SMTT(60)
    <3> QED
      BY <2>2, <3>1, <3>6 DEF p
  <2> QED
    BY <1>5, <2>1, <2>2 DEF TurnOn, p
<1>6. CASE StartOver
  BY <1>3, <1>6 DEF StartOver, p
<1> QED
  BY <1>4, <1>5, <1>6, StepOfRing

\* Until the next purge the backoff is exact: a PV sits in the bin that the ring
\* reaches after the rounds that are left of the interval processOutgoing took
\* from the front of its list, if no interval is longer than the last one (a
\* longer one is reduced modulo the size of the ring).
THEOREM BackoffIsExact ==
  ASSUME \A i \in 1 .. Len(Intervals) : Intervals[i] <= NBins
  PROVE  Spec => []OnSchedule
<1>1. Init => ScheduleInv
  <2> SUFFICES ASSUME Init PROVE ScheduleInv
    OBVIOUS
  <2>1. \A b \in Bin : Len(bins[b]) = 0
    BY DEF Init, EmptyBins
  <2>2. \A b \in Bin : \A i \in 1 .. Len(bins[b]) : FALSE
    BY <2>1
  <2> QED
    BY <2>2 DEF ScheduleInv
<1>2. TableInv /\ ScheduleInv /\ [Next]_vars => ScheduleInv'
  BY StepSchedule
<1>3. TableInv /\ ScheduleInv => OnSchedule
  <2> SUFFICES ASSUME TableInv, ScheduleInv, NEW b \in Bin, NEW e \in ToSet(bins[b]),
                      promised[e.pvname] # 0
               PROVE  (b + NBins - currentBin) % NBins
                        = promised[e.pvname] - waited[e.pvname] - 1
    BY DEF OnSchedule
  <2>1. PICK i \in 1 .. Len(bins[b]) : e = bins[b][i]
    BY TypeMeans, Entries1 DEF TableInv, ToSet
  <2> QED
    BY <2>1 DEF ScheduleInv, Ahead
<1> QED
  BY <1>1, <1>2, <1>3, TableIsKept, PTL DEF Spec

\* The ticks since the last purge gain on the rounds since, and on those that
\* stalls have cost, by no step.
LEMMA LeadIsKept ==
  ASSUME TableInv, [Next]_vars, warm
  PROVE  /\ warm' /\ sincePurge \in Nat /\ sincePurge' \in Nat /\ Lead \in Int /\ Lead' \in Int
         /\ ProcessOutgoing => sincePurge' = sincePurge /\ Lead' = Lead - 1
         /\ ~ProcessOutgoing /\ sincePurge' >= sincePurge =>
              sincePurge' - Lead' <= sincePurge - Lead
<1>1. /\ TypeOK /\ TypeOK' /\ sincePurge \in Nat /\ lost \in Nat
      /\ PurgePeriod \in Nat \ {0} /\ iterated \in BOOLEAN
  BY StepTable, TypeMeans, Numbers DEF TableInv
<1>2. sincePurge' \in Nat /\ lost' \in Nat
  <2>1. /\ sincePurge' \in 0 .. PurgeLimit /\ PurgeLimit \in Nat
        /\ lost' \in 0 .. MaxStall /\ MaxStall \in Nat
    BY <1>1, Numbers DEF TypeOK
  <2> QED
    BY <2>1
<1>3. Lead \in Int /\ Lead' \in Int
  BY <1>1, <1>2 DEF Lead
<1>4. CASE ProcessOutgoing
  <2>1. phase = "io" /\ phase' = "purge" /\ UNCHANGED <<warm, sincePurge, iterated, lost>>
    BY <1>4 DEF ProcessOutgoing
  <2>2. Lead' = Lead - 1
    <3>1. CASE iterated
      BY <1>1, <2>1, <3>1 DEF Lead
    <3>2. CASE ~iterated
      BY <1>1, <2>1, <3>2 DEF Lead
    <3> QED
      BY <3>1, <3>2
  <2> QED
    BY <1>1, <1>2, <1>3, <1>4, <2>1, <2>2
<1>5. CASE FinishRun
  <2>1. /\ phase = "purge" /\ phase' = "io" /\ iterated' = TRUE /\ warm' = warm
        /\ \/ sincePurge' = sincePurge /\ lost' = lost
           \/ sincePurge' = 0 /\ sincePurge >= PurgePeriod
    BY <1>5 DEF FinishRun, PurgePVs
  <2>2. ~ProcessOutgoing
    BY <2>1 DEF ProcessOutgoing
  <2>3. Lead' = lost' + 0
    BY <2>1 DEF Lead
  <2>4. CASE sincePurge' = sincePurge /\ lost' = lost
    <3>1. Lead <= lost
      BY <1>1, <2>1 DEF Lead
    <3>2. Lead' = lost
      BY <1>1, <2>3, <2>4
    <3> QED
      BY <1>1, <1>2, <1>3, <2>1, <2>2, <2>4, <3>1, <3>2
  <2>5. CASE sincePurge' = 0 /\ sincePurge >= PurgePeriod
    <3>1. ~(sincePurge' >= sincePurge)
      BY <1>1, <2>5
    <3> QED
      BY <1>1, <1>2, <1>3, <2>1, <2>2, <3>1
  <2> QED
    BY <2>1, <2>4, <2>5
<1>6. CASE Tick
  <2>1. /\ ~iterated' /\ warm' /\ phase' = phase /\ sincePurge' = sincePurge + 1
        /\ (iterated /\ lost' = lost) \/ (~iterated /\ lost' = lost + 1)
    BY <1>6, TickAges
  <2>2. ~ProcessOutgoing
    BY <2>1 DEF ProcessOutgoing
  <2>3. Lead' = Lead + 1
    <3>1. CASE iterated /\ lost' = lost
      BY <1>1, <1>2, <2>1, <3>1 DEF Lead
    <3>2. CASE ~iterated /\ lost' = lost + 1
      BY <1>1, <1>2, <2>1, <3>2 DEF Lead
    <3> QED
      BY <2>1, <3>1, <3>2
  <2> QED
    BY <1>1, <1>2, <1>3, <2>1, <2>2, <2>3
<1>7. CASE UNCHANGED loop
  <2>1. UNCHANGED <<warm, phase, sincePurge, iterated, lost>>
    BY <1>7 DEF loop
  <2>2. ~ProcessOutgoing
    BY <2>1 DEF ProcessOutgoing
  <2>3. sincePurge' - Lead' <= sincePurge - Lead
    BY <1>1, <1>2, <2>1 DEF Lead
  <2> QED
    BY <1>1, <1>2, <1>3, <2>1, <2>2, <2>3
<1> QED
  BY <1>4, <1>5, <1>6, <1>7 DEF Next, AddPV, DropPV, ProcessIncoming, vars

LEMMA StepWait ==
  ASSUME PurgePeriod >= NBins + MaxStall
  PROVE  TableInv /\ WaitInv /\ [Next]_vars => WaitInv'
<1> SUFFICES ASSUME TableInv, WaitInv, [Next]_vars,
                    NEW b \in Bin, NEW i \in 1 .. Len(bins'[b])
             PROVE  LET p == bins'[b][i].pvname
                    IN  \/ waited'[p] + From(currentBin', b) <= NBins - 1
                        \/ /\ waited'[p] + From(currentBin', b) <= 2 * NBins - 2
                           /\ warm' /\ currentBin' <= b /\ sincePurge' <= currentBin' + Lead'
  BY DEF WaitInv, Ahead, From
<1> DEFINE p == bins'[b][i].pvname
<1>1. /\ TypeOK /\ TypeOK' /\ currentBin \in Bin /\ NBins \in Nat /\ NBins > 2
      /\ MaxWait = 2 * NBins /\ PurgePeriod \in Nat \ {0} /\ MaxStall \in Nat
  BY StepTable, TypeMeans, Numbers DEF TableInv
<1>2. b \in 0 .. NBins - 1 /\ currentBin \in 0 .. NBins - 1
  BY <1>1 DEF Bin
<1>3. ASSUME NEW c \in Bin, NEW j \in 1 .. Len(bins[c]), bins[c][j].pvname = p
      PROVE  /\ \/ waited[p] + From(currentBin, c) <= NBins - 1
                \/ /\ waited[p] + From(currentBin, c) <= 2 * NBins - 2
                   /\ warm /\ currentBin <= c /\ sincePurge <= currentBin + Lead
             /\ waited[p] \in Nat /\ From(currentBin, c) \in 0 .. NBins - 1
  BY <1>1, <1>3, Observed, AheadIs, Distance DEF WaitInv
<1> HIDE DEF p
<1>4. CASE StandStill /\ ~(ProcessOutgoing /\ warm) /\ sincePurge' >= sincePurge
  <2>1. currentBin' = currentBin
    BY <1>4 DEF StandStill
  <2>2. CASE b = currentBin /\ waited'[p] = 0
    <3>1. From(currentBin', b) = 0
      BY <1>1, <1>2, <2>1, <2>2, Distance
    <3> QED
      BY <1>1, <2>2, <3>1 DEF p
  <2>3. CASE /\ \E j \in 1 .. Len(bins[b]) : bins[b][j].pvname = p
             /\ waited'[p] = waited[p]
    <3>1. /\ \/ waited[p] + From(currentBin, b) <= NBins - 1
             \/ /\ waited[p] + From(currentBin, b) <= 2 * NBins - 2
                /\ warm /\ currentBin <= b /\ sincePurge <= currentBin + Lead
      BY <1>3, <2>3
    <3>2. warm => /\ warm' /\ sincePurge' - Lead' <= sincePurge - Lead
                  /\ sincePurge \in Nat /\ sincePurge' \in Nat /\ Lead \in Int /\ Lead' \in Int
      BY <1>4, LeadIsKept
    <3>3. warm /\ sincePurge <= currentBin + Lead => sincePurge' <= currentBin' + Lead'
      BY <1>2, <2>1, <3>2
    <3> QED
      BY <2>1, <2>3, <3>1, <3>2, <3>3 DEF p
  <2> QED
    BY <1>4, <2>2, <2>3 DEF StandStill, p
<1>5. CASE TurnOn /\ ProcessOutgoing /\ warm
  <2>1. currentBin' = NextSlot(currentBin) /\ currentBin' \in Bin
    BY <1>1, <1>5, NextSlotIs DEF TurnOn
  <2>2. CASE waited'[p] = 0
    <3>1. From(currentBin', b) \in 0 .. NBins - 1
      BY <2>1, Distance
    <3> QED
      BY <1>1, <2>2, <3>1 DEF p
  <2>3. CASE /\ b # currentBin /\ \E j \in 1 .. Len(bins[b]) : bins[b][j].pvname = p
             /\ waited'[p] = IF waited[p] + 1 <= MaxWait THEN waited[p] + 1 ELSE MaxWait
    <3>1. /\ \/ waited[p] + From(currentBin, b) <= NBins - 1
             \/ /\ waited[p] + From(currentBin, b) <= 2 * NBins - 2
                /\ warm /\ currentBin <= b /\ sincePurge <= currentBin + Lead
          /\ waited[p] \in Nat /\ From(currentBin, b) \in 0 .. NBins - 1
      BY <1>3, <2>3
    <3>2. /\ From(currentBin', b) = From(currentBin, b) - 1
          /\ currentBin <= b => currentBin' = currentBin + 1 /\ currentBin' <= b
      BY <1>1, <2>1, <2>3, Nearer
    <3>3. waited'[p] = waited[p] + 1
      BY <1>1, <2>3, <3>1
    <3>4. /\ warm' /\ sincePurge' = sincePurge /\ Lead' = Lead - 1
          /\ sincePurge \in Nat /\ Lead \in Int
      BY <1>5, LeadIsKept
    <3>5. \/ waited'[p] + From(currentBin', b) <= NBins - 1
          \/ /\ waited'[p] + From(currentBin', b) <= 2 * NBins - 2
             /\ warm' /\ currentBin' <= b /\ sincePurge' <= currentBin' + Lead'
      BY <1>1, <1>2, <3>1, <3>2, <3>3, <3>4, SMTT(60)
    <3> QED
      BY <3>5 DEF p
  <2> QED
    BY <1>5, <2>2, <2>3 DEF TurnOn, p
<1>6. CASE StartOver
  <2>1. /\ currentBin' = 0 /\ sincePurge >= PurgePeriod /\ sincePurge' = 0 /\ lost' = 0
        /\ phase = "purge" /\ phase' = "io" /\ iterated' = TRUE /\ warm' = warm
        /\ \E a \in Bin : \E k \in 1 .. Len(bins[a]) : bins[a][k].pvname = p
        /\ waited'[p] = waited[p]
    BY <1>6 DEF StartOver, p
  <2>2. PICK a \in Bin : \E k \in 1 .. Len(bins[a]) : bins[a][k].pvname = p
    BY <2>1
  <2>3. /\ \/ waited[p] + From(currentBin, a) <= NBins - 1
           \/ sincePurge <= currentBin + Lead
        /\ waited[p] \in Nat /\ From(currentBin, a) \in 0 .. NBins - 1
    BY <1>3, <2>2
  <2>4. Lead <= MaxStall /\ Lead \in Int /\ Lead' = 0 /\ sincePurge \in Nat
    <3>1. lost \in 0 .. MaxStall /\ sincePurge \in Nat
      BY <1>1, TypeMeans
    <3> QED
      BY <1>1, <2>1, <3>1 DEF Lead
  <2>5. waited[p] <= NBins - 1
    BY <1>1, <1>2, <2>1, <2>3, <2>4
  <2>6. From(currentBin', b) = b
    BY <1>2, <2>1, Bins, Distance
  <2>7. warm
    BY <1>1, <2>1 DEF TableInv, PurgeInTime
  <2> QED
    BY <1>1, <1>2, <2>1, <2>3, <2>4, <2>5, <2>6, <2>7, SMTT(60) DEF p
<1> QED
  BY <1>4, <1>5, <1>6, StepOfRing

\* No PV is forgotten by the ring: it is asked for again within two of its turns,
\* although every purge deals the PVs to new bins and starts the ring over, if
\* the ring gets around between two purges in spite of the stalls.
THEOREM NoneWaitsForLong ==
  ASSUME PurgePeriod >= NBins + MaxStall
  PROVE  Spec => []BoundedWait
<1>1. Init => WaitInv
  <2> SUFFICES ASSUME Init PROVE WaitInv
    OBVIOUS
  <2>1. \A b \in Bin : Len(bins[b]) = 0
    BY DEF Init, EmptyBins
  <2>2. \A b \in Bin : \A i \in 1 .. Len(bins[b]) : FALSE
    BY <2>1
  <2> QED
    BY <2>2 DEF WaitInv
<1>2. TableInv /\ WaitInv /\ [Next]_vars => WaitInv'
  BY StepWait
<1>3. TableInv /\ WaitInv => BoundedWait
  <2> SUFFICES ASSUME TableInv, WaitInv, NEW p \in Searched(bins) PROVE waited[p] < MaxWait
    BY DEF BoundedWait
  <2>1. TypeOK /\ currentBin \in Bin /\ NBins \in Nat /\ NBins > 2 /\ MaxWait = 2 * NBins
    BY TypeMeans, Numbers, SMTT(60) DEF TableInv
  <2>2. PICK b \in Bin : \E i \in 1 .. Len(bins[b]) : bins[b][i].pvname = p
    BY <2>1, TypeMeans, SearchedMeans
  <2>3. waited[p] \in Nat /\ From(currentBin, b) \in 0 .. NBins - 1
    BY <2>1, <2>2, Observed, Distance
  <2>4. \/ waited[p] + From(currentBin, b) <= NBins - 1
        \/ waited[p] + From(currentBin, b) <= 2 * NBins - 2
    BY <2>2, AheadIs, Zenon DEF WaitInv
  <2> QED
    BY <2>1, <2>3, <2>4
<1> QED
  BY <1>1, <1>2, <1>3, TableIsKept, PTL DEF Spec

-----------------------------------------------------------------------------
\* The server at work: the same table, with the cache and the guards around it.

\* MisledOnlyUnnoticed needs no strengthening but the types: it speaks of an
\* entry of the cache, its PV's home and its guard, and every action that
\* changes one of them changes the others with it.
ServerInv == AnswersTypeOK /\ MisledOnlyUnnoticed

LEMMA ServerStarts == ServerInit => ServerInv
BY NameServerAssumption DEF ServerInit, ServerInv, AnswersTypeOK, MisledOnlyUnnoticed

\* A PV is found: the guard at the address has a connection, which may be broken
\* by now, and keeps it for the PVs found there before.
LEMMA FoundKeeps ==
  ASSUME ServerInv, NEW p \in Hosted, NEW i \in Ioc, Found(p, i)
  PROVE  ServerInv'
<1> USE NameServerAssumption DEF ServerInv, AnswersTypeOK
<1>1. /\ UNCHANGED <<running, home, told>>
      /\ link' = [link EXCEPT ![i] = IF @ # "none" THEN @
                                     ELSE IF i \in running THEN "up" ELSE "broken"]
      /\ cache' = [cache EXCEPT ![p] = i]
      /\ late' = IF home[p] = i THEN late \ {p} ELSE late \cup {p}
  BY DEF Found, ResponseRead, iocs
<1>2. AnswersTypeOK'
  BY <1>1
<1>3. MisledOnlyUnnoticed'
  BY <1>1 DEF MisledOnlyUnnoticed
<1> QED
  BY <1>2, <1>3

\* A guard closes: what it vouched for leaves the cache.
LEMMA GuardClosesKeeps ==
  ASSUME ServerInv, NEW i \in Ioc, GuardCloses(i)
  PROVE  ServerInv'
<1> USE NameServerAssumption DEF ServerInv, AnswersTypeOK
<1>1. /\ UNCHANGED <<running, home, told>>
      /\ link' = [link EXCEPT ![i] = "none"]
      /\ cache' = [p \in PV |-> IF cache[p] = i THEN None ELSE cache[p]]
      /\ late' = {p \in late : cache[p] # i}
  BY DEF GuardCloses, Invalidate, iocs
<1>2. AnswersTypeOK'
  BY <1>1
<1>3. MisledOnlyUnnoticed'
  BY <1>1 DEF MisledOnlyUnnoticed
<1> QED
  BY <1>2, <1>3

\* An IOC goes: its guard is left with a broken connection.
LEMMA IocStopsKeeps ==
  ASSUME ServerInv, NEW i \in Ioc, IocStops(i)
  PROVE  ServerInv'
<1> USE NameServerAssumption DEF ServerInv, AnswersTypeOK
<1>1. /\ UNCHANGED <<cache, late, told>>
      /\ running' = running \ {i}
      /\ home' = [p \in Hosted |-> IF home[p] = i THEN None ELSE home[p]]
      /\ link' = [link EXCEPT ![i] = IF @ = "up" THEN "broken" ELSE @]
  BY DEF IocStops
<1>2. AnswersTypeOK'
  BY <1>1
<1>3. MisledOnlyUnnoticed'
  BY <1>1 DEF MisledOnlyUnnoticed
<1> QED
  BY <1>2, <1>3

\* An IOC comes: no PV that a guard rightly vouches for changes its home.
LEMMA IocStartsKeeps ==
  ASSUME ServerInv, NEW i \in Ioc, NEW pvs \in SUBSET Hosted,
         IocStarts(i, pvs)
  PROVE  ServerInv'
<1> USE NameServerAssumption DEF ServerInv, AnswersTypeOK
<1>1. /\ UNCHANGED <<link, cache, late, told>>
      /\ \A p \in pvs : home[p] = None
      /\ running' = running \cup {i}
      /\ home' = [p \in Hosted |-> IF p \in pvs THEN i ELSE home[p]]
  BY DEF IocStarts, known
<1>2. AnswersTypeOK'
  BY <1>1
<1>3. MisledOnlyUnnoticed'
  BY <1>1 DEF MisledOnlyUnnoticed
<1> QED
  BY <1>2, <1>3

\* A client is led to an IOC that does not host its PV only as long as the guard
\* has not noticed that the IOC went, or if the response was read too late: for
\* any number of PVs, IOCs, restarts and moves from IOC to IOC, and responses
\* read in any order, any time after they were sent, or never.
THEOREM Trustworthy == ServerSpec => []MisledOnlyUnnoticed
<1>1. ServerInv /\ [ServerNext]_serverVars => ServerInv'
  <2> SUFFICES ASSUME ServerInv, [ServerNext]_serverVars PROVE ServerInv'
    OBVIOUS
  <2> USE NameServerAssumption
  <2>1. ASSUME UNCHANGED <<iocs, link, cache, late>>, told' \in [PV -> Ioc \cup {None}]
        PROVE  ServerInv'
    BY <2>1 DEF ServerInv, AnswersTypeOK, MisledOnlyUnnoticed, iocs
  <2>2. ASSUME NEW p \in PV, ClientAsks(p) PROVE ServerInv'
    <3>1. told' \in [PV -> Ioc \cup {None}]
      BY <2>2 DEF ClientAsks, ServerInv, AnswersTypeOK
    <3> QED
      BY <2>1, <2>2, <3>1 DEF ClientAsks
  <2>3. ASSUME UNCHANGED <<iocs, known>> PROVE ServerInv'
    BY <2>1, <2>3 DEF ServerInv, AnswersTypeOK, known
  <2>4. ASSUME NEW p \in Hosted, NEW i \in Ioc, FoundButUnguarded(p, i) PROVE ServerInv'
    BY <2>3, <2>4 DEF FoundButUnguarded, ResponseRead, known
  <2>5. CASE Iterate \/ ServerTick
    BY <2>3, <2>5 DEF Iterate, ServerTick
  <2>6. CASE \/ \E p \in Hosted : IocResponds(p)
             \/ \E r \in responses : ResponseLost(r)
    BY <2>3, <2>6 DEF IocResponds, ResponseLost
  <2>7. CASE UNCHANGED serverVars
    BY <2>3, <2>7 DEF serverVars
  <2> QED
    BY <2>2, <2>4, <2>5, <2>6, <2>7, FoundKeeps, GuardClosesKeeps,
       IocStopsKeeps, IocStartsKeeps DEF ServerNext
<1>2. ServerInv => MisledOnlyUnnoticed
  BY DEF ServerInv
<1> QED
  BY ServerStarts, <1>1, <1>2, PTL DEF ServerSpec

-----------------------------------------------------------------------------
\* The index of the ring.
LEMMA SomeBins == NBins \in Nat \ {0}
BY Numbers

LEMMA Mod ==
  ASSUME NEW n \in Nat \ {0}, NEW r \in 0 .. n - 1, NEW a \in {r, r + n}
  PROVE  a % n = r
OBVIOUS

\* Step i of the scan is at bin b, if b is not the last bin or the scan does not
\* start at bin 0.
LEMMA ScanReaches ==
  ASSUME NEW cur \in Bin, NEW b \in Bin, cur # 0 \/ b # NBins - 1
  PROVE  \E i \in Bin : ScanBin(cur, i) = b
<1> USE SomeBins DEF Bin
<1>1. ASSUME NEW i \in Bin, cur + i - 1 \in {b, b + NBins} PROVE ScanBin(cur, i) = b
  <2>1. cur + i # 0 /\ (cur + i - 1) % NBins = b
    BY <1>1, Mod
  <2> QED
    BY <2>1 DEF ScanBin
<1>2. CASE b - cur + 1 < 0
  <2> DEFINE i == b - cur + 1 + NBins
  <2>1. i \in Bin /\ cur + i - 1 = b + NBins
    BY <1>2
  <2> HIDE DEF i
  <2> QED
    BY <1>1, <2>1
<1>3. CASE b - cur + 1 >= 0
  <2> DEFINE i == b - cur + 1
  <2>1. i \in Bin /\ cur + i - 1 = b
    BY <1>3
  <2> HIDE DEF i
  <2> QED
    BY <1>1, <2>1
<1> QED
  BY <1>2, <1>3

\* No prompt answer is overlooked but for the last bin while bin 0 is current,
\* for a ring of any length and any contents of its bins.
THEOREM ScanOverlooksLastBinOnly == ServerSpec => []ScanMissesOnlyLastBin
<1> DEFINE CurOK == currentBin \in Bin
<1>1. ServerInit => CurOK
  BY SomeBins DEF ServerInit, Bin
<1>2. CurOK /\ [ServerNext]_serverVars => CurOK'
  <2> SUFFICES ASSUME CurOK, [ServerNext]_serverVars PROVE CurOK'
    OBVIOUS
  <2>1. CASE Iterate
    <3>1. currentBin' = (currentBin + 1) % NBins \/ currentBin' = 0
      BY <2>1 DEF Iterate, NextSlot
    <3> QED
      BY <3>1, SomeBins DEF Bin
  <2>2. ASSUME UNCHANGED currentBin PROVE CurOK'
    BY <2>2
  <2> QED
    BY <2>1, <2>2 DEF ServerNext, ClientAsks, Found, FoundButUnguarded, ResponseRead,
       ServerTick, GuardCloses, IocStops, IocStarts, IocResponds, ResponseLost,
       search, serverVars
<1>3. CurOK => ScanMissesOnlyLastBin
  <2> SUFFICES ASSUME CurOK, NEW e \in Entries(bins),
                      HitsOf(bins, currentBin, e.chanId) = {}
               PROVE  currentBin = 0 /\ e \in ToSet(bins[NBins - 1])
    BY DEF ScanMissesOnlyLastBin, ToSet
  <2>1. PICK b \in Bin : e \in ToSet(bins[b])
    BY DEF Entries, ToSet
  <2>2. ASSUME NEW i \in Bin PROVE ScanBin(currentBin, i) # b
    BY <2>1, <2>2 DEF HitsOf, ToSet
  <2> QED
    BY <2>1, <2>2, ScanReaches
<1> QED
  BY <1>1, <1>2, <1>3, PTL DEF ServerSpec
=============================================================================
