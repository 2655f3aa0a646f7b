\* The constants of the code, SEARCH_INTERVALS=1: a ring of ten bins.
CONSTANTS
  p1 = p1
  p2 = p2
  PV <- OnePV
  SearchIntervals <- OneSecond
  TicksPerSecond = 10
  SmallPacket = 10
  PurgeDelay = 600
  MaxStall = 0
  ChanIds = 65536
  MaxSearches = 1
SPECIFICATION Spec
INVARIANT AnswerFindsItsPV
