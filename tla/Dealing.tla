------------------------------- MODULE Dealing -------------------------------
(***************************************************************************)
(* How the loops over the lists of a Searcher take entries from one list   *)
(* and put them into others.                                               *)
(***************************************************************************)
EXTENDS Integers, SequencesExt

\* The n-th smallest of a finite set of numbers, and what stands at the
\* positions of such a set in a list: what a loop takes that does not take all.
Nth(K, n) == CHOOSE i \in K : Cardinality({k \in K : k <= i}) = n

SubSeqAt(s, K) == [n \in 1 .. Cardinality(K) |-> s[Nth(K, n)]]

\* SelectSeq, by the positions of what it selects.
Select(s, Test(_)) == SubSeqAt(s, {i \in DOMAIN s : Test(s[i])})

CeilDiv(n, d) == (n + d - 1) \div d

\* n PVs go to bins in portions of `Chunk' PVs to every `Stride'-th bin, a small
\* portion being rounded up to `packet' PVs and followed by that many empty bins.
Chunk(n, nBins, packet) == Max({CeilDiv(n, nBins), packet})

Stride(n, nBins, packet) ==
  IF CeilDiv(n, nBins) < packet THEN packet - CeilDiv(n, nBins) ELSE 1

\* The PVs of a list that come after k portions, and the first portion of them.
After(pvs, chunk, k) == SubSeq(pvs, k * chunk + 1, Len(pvs))
Batch(pvs, chunk, k) == SubSeq(pvs, k * chunk + 1, Min({(k + 1) * chunk, Len(pvs)}))

\* The PVs that stay after a purge, dealt to the bins 0 .. nBins - 1.  What is
\* left when the bins run out is appended to the last one.
Deal(pvs, nBins, packet) ==
  LET chunk  == Chunk(Len(pvs), nBins, packet)
      stride == Stride(Len(pvs), nBins, packet)
  IN  [b \in 0 .. nBins - 1 |->
         (IF b % stride = 0 THEN Batch(pvs, chunk, b \div stride) ELSE <<>>)
           \o (IF b = nBins - 1 THEN After(pvs, chunk, CeilDiv(nBins, stride)) ELSE <<>>)]
=============================================================================
