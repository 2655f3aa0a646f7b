\* SEARCH_INTERVALS=1: a ring of ten bins.
CONSTANTS
  BinCounts <- TenBins
  MaxPVs = 60
  SmallPacket = 10
SPECIFICATION Spec
INVARIANT BalancesEvenly
CHECK_DEADLOCK FALSE
