----------------------------- MODULE SearchBins -----------------------------
(***************************************************************************)
(* The table of searched PVs inside a Searcher: a ring of bins, one for    *)
(* every 0.1s slot of the longest search interval, each bin a list of the  *)
(* PVs to ask for when the ring reaches it.  The operators here are the    *)
(* pure part of the methods of the class: each returns the table that the  *)
(* method leaves behind.  Searcher turns them into a state machine.        *)
(*                                                                         *)
(* Time stamps appear as ages: `idle' is the number of 0.1s ticks since    *)
(* lastSearched.  The vector of intervals still ahead of a PV is always a  *)
(* suffix of the configured one, and is represented by the index `next' of *)
(* its front.                                                              *)
(***************************************************************************)
EXTENDS Dealing

CONSTANTS
  PV,               \* the PV names
  SearchIntervals,  \* SEARCH_INTERVALS of the configuration, in seconds
  TicksPerSecond,   \* slots per second: 10 in the code
  SmallPacket,      \* PVs worth one packet when balancing: 10 in the code
  PurgeDelay        \* PURGE_DELAY of the configuration, in seconds

\* One search right away and two more in the next slots, then the
\* configured delays, in slots.
Intervals == <<1, 2>> \o [i \in DOMAIN SearchIntervals |->
                            TicksPerSecond * SearchIntervals[i]]

NBins == Last(Intervals)
Bin == 0 .. NBins - 1

ASSUME SearchBinsAssumption ==
  /\ TicksPerSecond \in Nat \ {0}
  /\ SmallPacket \in Nat \ {0}
  /\ PurgeDelay \in Nat \ {0}
  /\ SearchIntervals \in Seq(Nat) \ {<<>>}
  /\ NBins > 2

-----------------------------------------------------------------------------
SearchedPV(ids, ages) ==
  [pvname: PV, chanId: ids, idle: ages, next: DOMAIN Intervals]

EmptyBins == [b \in Bin |-> <<>>]

Entries(bins) == UNION {ToSet(bins[b]) : b \in Bin}

\* Bug: only the first bin is looked through.
SearchedInFirstBin(bins) == {e.pvname : e \in ToSet(bins[0])}

Searched(bins) == {e.pvname : e \in Entries(bins)}

MapEntries(bins, f(_)) ==
  [b \in Bin |-> [i \in DOMAIN bins[b] |-> f(bins[b][i])]]

\* Bug: the time stamp of a PV already in a bin is left alone.
NoTouch(bins, pv) == bins

\* addPV: a PV already in a bin only has its time stamp refreshed, a new one
\* goes to the front of the bin that is sent next.
Touch(bins, pv) ==
  MapEntries(bins, LAMBDA e : IF e.pvname = pv THEN [e EXCEPT !.idle = 0] ELSE e)

Insert(bins, cur, pv, id) ==
  [bins EXCEPT ![cur] =
     Cons([pvname |-> pv, chanId |-> id, idle |-> 0, next |-> 1], @)]

\* removePV: the first entry of that name, in bin order.
RemovePV(bins, pv) ==
  LET holding == {b \in Bin : \E e \in ToSet(bins[b]) : e.pvname = pv}
  IN  IF holding = {} THEN bins
      ELSE [bins EXCEPT ![Min(holding)] =
              RemoveFirstMatch(@, LAMBDA e : e.pvname = pv)]

-----------------------------------------------------------------------------
\* processIncoming looks for the channel id in bin (m_currentBin+i-1) % size
\* for i = 0, 1, ...  The subtraction is done in size_t, 64 bits wide: when
\* m_currentBin and i are both 0 it is 2^64-1 that is reduced.  TLC has no
\* integer of that size, so the remainder is computed from 2^16.
SizeMaxMod ==
  LET m16 == 65536 % NBins
      m32 == (m16 * m16) % NBins
  IN  (((m32 * m32) % NBins) + NBins - 1) % NBins

ScanBin(cur, i) == IF cur + i = 0 THEN SizeMaxMod ELSE (cur + i - 1) % NBins

\* Bug: the loop starts at 1.
HitsOfFromOne(bins, cur, id) ==
  {i \in Bin \ {0} : \E e \in ToSet(bins[ScanBin(cur, i)]) : e.chanId = id}

HitsOf(bins, cur, id) ==
  {i \in Bin : \E e \in ToSet(bins[ScanBin(cur, i)]) : e.chanId = id}

\* The bin whose entry answers to the channel id (only if HitsOf is not
\* empty), that entry, and the table without it.
HitBin(bins, cur, id) == ScanBin(cur, Min(HitsOf(bins, cur, id)))

HitEntry(bins, cur, id) ==
  LET bin == bins[HitBin(bins, cur, id)]
  IN  bin[SelectInSeq(bin, LAMBDA e : e.chanId = id)]

EraseHit(bins, cur, id) ==
  [bins EXCEPT ![HitBin(bins, cur, id)] =
     RemoveFirstMatch(@, LAMBDA e : e.chanId = id)]

-----------------------------------------------------------------------------
\* processOutgoing: every PV of the current bin is asked for.  One whose list
\* of intervals is not down to the last moves to the front of the bin that
\* many slots ahead; the others stay for the next turn of the ring.
Moves(e) == e.next < Len(Intervals)

\* Bug: m_currentBin is advanced before the PVs are moved.
NextBinLate(e, cur) == (cur + 1 + Intervals[e.next]) % NBins

NextBin(e, cur) == (cur + Intervals[e.next]) % NBins

AfterRound(bins, cur) ==
  LET bin      == bins[cur]
      moved(b) == SubSeqAt(bin, {i \in DOMAIN bin : Moves(bin[i]) /\ NextBin(bin[i], cur) = b})
      step(s)  == [i \in DOMAIN s |-> [s[i] EXCEPT !.next = @ + 1]]
      stay     == SubSeqAt(bin, {i \in DOMAIN bin : ~Moves(bin[i])})
  IN  [b \in Bin |-> Reverse(step(moved(b)))
                       \o (IF b = cur THEN stay ELSE bins[b])]

\* Bugs: the index is not reduced, is reduced by one too little, or not moved.
NextSlotUnreduced(cur) == cur + 1
NextSlotShort(cur) == (cur + 1) % (NBins - 1)
SameSlot(cur) == cur

NextSlot(cur) == (cur + 1) % NBins

-----------------------------------------------------------------------------
\* Bug: the age is compared in another unit than the limit.
FreshTooLong(e) == e.idle \div TicksPerSecond <= PurgeDelay * TicksPerSecond

\* purgePVs: PVs no client asked for in more than PurgeDelay seconds go, the
\* others are collected bin after bin, to be dealt again from bin 0.
Fresh(e) == e.idle \div TicksPerSecond <= PurgeDelay

FreshOf(bin) == SubSeqAt(bin, {i \in DOMAIN bin : Fresh(bin[i])})

Survivors(bins) == FlattenSeq([i \in 1 .. NBins |-> FreshOf(bins[i - 1])])
=============================================================================
