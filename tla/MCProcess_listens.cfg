\* A line that is dropped for want of a port leaves the default.
CONSTANTS
  peer = peer
  Pattern <- Patterns
  BadPattern <- Bad
  Ip <- Ips
  AnyIp = "any"
  Word = 1024
  File <- Files
  TicksPerSecond = 10
  LogIp <- LogIps
  NoIp = "none"
  MinTtl = 2
  DefaultTtl = 3
  RecordTtl <- Ttls
  MaxTtl = 4
  MaxStall = 1
SPECIFICATION Spec
CHECK_DEADLOCK FALSE
INVARIANT ListensOnlyWhereConfigured
