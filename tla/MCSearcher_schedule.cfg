\* Two PVs, two slots a second, a purge period of one turn of the ring.  Half of
\* it may be lost to stalls: the other half reaches just the two bins that a
\* purge deals two PVs to.
CONSTANTS
  p1 = p1
  p2 = p2
  PV <- TwoPVs
  SearchIntervals <- OneTwoSeconds
  TicksPerSecond = 2
  SmallPacket = 1
  PurgeDelay = 1
  MaxStall = 2
  ChanIds = 65536
  MaxSearches = 2
SYMMETRY Symmetry
SPECIFICATION Spec
INVARIANTS
  TypeOK
  NoDuplicates
  OnSchedule
  BoundedWait
  NoForgottenSearch
PROPERTY PurgeMatchesClients
