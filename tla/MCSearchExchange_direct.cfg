\* IOCs respond themselves.
CONSTANTS
  p1 = p1
  p2 = p2
  p3 = p3
  p4 = p4
  h1 = h1
  c1 = c1
  c2 = c2
  PV <- PVs
  NameLength <- Lengths
  PacketLimit = 1000
  Client = {c1, c2}
  NoName = NoName
  PvRules <- TestRules
  ClientRules <- ClientTestRules
  Ip = {h1}
  SenderIp = SenderIp
  Host <- Hosts
  Datagrams <- Searches
  MaxSearches = 3
  MaxInFlight = 2
SPECIFICATION Spec
INVARIANTS
  RoundIsSent
  PacketsAreSmall
  GuardedWhereHosted
  RepliesLeadHome
PROPERTY DeniedLeaveNoTrace
