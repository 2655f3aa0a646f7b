---------------------------- MODULE PurgeBalance ----------------------------
(***************************************************************************)
(* The second half of Searcher::purgePVs, statement by statement: the loop *)
(* that deals the PVs that stay to the bins.  Dealing says what it         *)
(* computes in one expression, Deal; here the loop runs, one action per    *)
(* iteration, and its result is compared with that expression.             *)
(*                                                                         *)
(* The PVs are the numbers from 1 on, in the order in which they were      *)
(* collected.                                                              *)
(***************************************************************************)
EXTENDS Dealing

CONSTANTS
  BinCounts,    \* the sizes of ring looked at
  MaxPVs,       \* bound of the model: the most PVs looked at
  SmallPacket   \* PVs worth one packet: 10 in the code

ASSUME PurgeBalanceAssumption ==
  /\ BinCounts \in SUBSET (Nat \ 0 .. 2)
  /\ MaxPVs \in Nat
  /\ SmallPacket \in Nat \ {0}

VARIABLES
  nBins,   \* m_searchedPvs.size()
  given,   \* the PVs to deal
  bins,    \* m_searchedPvs
  pvs,     \* the list the PVs are taken from
  i,       \* the loop variable
  done     \* has the function returned?

vars == <<nBins, given, bins, pvs, i, done>>

PVsPerBin == CeilDiv(Len(given), nBins)

TypeOK ==
  /\ nBins \in BinCounts
  /\ given \in Seq(1 .. MaxPVs)
  /\ bins \in [0 .. nBins - 1 -> Seq(1 .. MaxPVs)]
  /\ pvs \in Seq(1 .. MaxPVs)
  /\ i \in Nat
  /\ done \in BOOLEAN

Init ==
  /\ nBins \in BinCounts
  /\ \E n \in 0 .. MaxPVs : given = [k \in 1 .. n |-> k]
  /\ bins = [b \in 0 .. nBins - 1 |-> <<>>]
  /\ pvs = given
  /\ i = 0
  /\ done = FALSE

Share == Min({PVsPerBin, Len(pvs)})

\* Bug: the share is increased by a packet instead of made up to one.
PacketMore(share) == Min({Len(pvs), share + SmallPacket})

\* The PVs the next bin takes: its share, or a packet if that is smaller.
Portion(share) == IF share < SmallPacket THEN Min({Len(pvs), SmallPacket}) ELSE share

\* Bug: one bin too many is skipped.
SkippedOneMore(share) == IF share < SmallPacket THEN SmallPacket - share ELSE 0

\* The bins left empty after it, as many as its share was short of a packet.
Skipped(share) == IF share < SmallPacket THEN SmallPacket - share - 1 ELSE 0

Iterate ==
  /\ i < nBins /\ pvs # <<>>
  /\ bins' = [bins EXCEPT ![i] = SubSeq(pvs, 1, Portion(Share)) \o @]
  /\ pvs' = SubSeq(pvs, Portion(Share) + 1, Len(pvs))
  /\ i' = i + 1 + Skipped(Share)
  /\ UNCHANGED <<nBins, given, done>>

\* Bug: nothing is done about what is left.
DropRest ==
  /\ ~(i < nBins /\ pvs # <<>>)
  /\ ~done
  /\ pvs' = <<>>
  /\ done' = TRUE
  /\ UNCHANGED <<nBins, given, bins, i>>

\* After the loop: what is left goes to the last bin.
AppendRest ==
  /\ ~(i < nBins /\ pvs # <<>>)
  /\ ~done
  /\ bins' = [bins EXCEPT ![nBins - 1] = @ \o pvs]
  /\ pvs' = <<>>
  /\ done' = TRUE
  /\ UNCHANGED <<nBins, given, i>>

Next == Iterate \/ AppendRest

Spec == Init /\ [][Next]_vars

-----------------------------------------------------------------------------
\* The loop computes Deal, which Searcher's purge is built on.
DealsAsStated == done => bins = Deal(given, nBins, SmallPacket)

\* No PV is lost, repeated or overtaken in any iteration: the bins in order,
\* then what is still in hand, are the PVs as they were collected.
NothingLost ==
  FlattenSeq([b \in 1 .. nBins |-> bins[b - 1]]) \o pvs = given

\* Every bin but the last gets at most its share, or one packet.
NoBinOverloaded ==
  \A b \in 0 .. nBins - 2 : Len(bins[b]) <= Max({PVsPerBin, SmallPacket})

\* The comment on the loop: "Balance the PVs in bins evenly, allowing some
\* bins to be empty if the total number of PVs is small".  If it is not small
\* (no less than one per bin) no bin gets more than its share, or one packet.
BalancesEvenly ==
  Len(given) >= nBins =>
    \A b \in 0 .. nBins - 1 : Len(bins[b]) <= Max({PVsPerBin, SmallPacket})
=============================================================================
