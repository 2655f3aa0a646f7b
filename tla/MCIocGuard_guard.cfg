\* The limits of the code, and iterations that take up to two seconds longer
\* than they should.
CONSTANTS
  ConnectTimeout = 5
  HeartbeatInterval = 10
  MaxStall = 2
SPECIFICATION FairSpec
INVARIANTS
  TypeOK
  ToldOnce
  DetectsInTime
PROPERTIES
  NoFalseDisconnect
  NeverStuck
CHECK_DEADLOCK FALSE
