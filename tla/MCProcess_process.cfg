\* 1024 stands for 2^32 and seconds for hundreds of them; one address is looked up.
CONSTANTS
  peer = peer
  Pattern <- Patterns
  BadPattern <- Bad
  Ip <- Ips
  AnyIp = "any"
  Word = 1024
  File <- Files
  TicksPerSecond = 10
  LogIp <- LogIps
  NoIp = "none"
  MinTtl = 2
  DefaultTtl = 3
  RecordTtl <- Ttls
  MaxTtl = 4
  MaxStall = 1
SPECIFICATION Spec
CHECK_DEADLOCK FALSE
INVARIANTS
  SettingsUsable
  ServedOrReported
  AtLeastConfigured
  NamesAreRecent
PROPERTY StallsOncePerTtl
