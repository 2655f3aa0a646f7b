\* The code's packet size; up to 250 PVs, more than eight for every bin.
CONSTANTS
  BinCounts <- Rings
  MaxPVs = 250
  SmallPacket = 10
SPECIFICATION Spec
INVARIANTS
  DealsAsStated
  NothingLost
  NoBinOverloaded
CHECK_DEADLOCK FALSE
