\* A PV hosted by one IOC or the other, or by none; a ring of three bins, which
\* do not divide 2^64, and a purge period of one turn, of which a tick may be lost.
CONSTANTS
  p1 = p1
  i1 = i1
  i2 = i2
  nowhere = nowhere
  PV <- OnePV
  Hosted <- OnePV
  Ioc <- TwoIocs
  None = nowhere
  SearchIntervals <- ThreeSeconds
  TicksPerSecond = 1
  SmallPacket = 1
  PurgeDelay = 2
  MaxStall = 1
SPECIFICATION FairServerSpec
INVARIANTS
  MisledOnlyUnnoticed
  ScanMissesOnlyLastBin
PROPERTY FoundInTheEnd
