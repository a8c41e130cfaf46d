SPECIFICATION FairSpec
CONSTANTS
  here = here
  there = there
  k1 = k1
  k2 = k2
  Servers <- Addresses
  FirstServers <- FirstAddress
  Conns <- TwoConns
  Nobody = nobody
  QMax = 1
  MaxStarts = 2
  MaxBreaks = 1
  MaxTroubles = 2
INVARIANTS
  LinkHasWriter
  DeadlockIsWedged
PROPERTIES
  CallbackReturns
  GameGoesOn
  PacketsAreWritten
CHECK_DEADLOCK FALSE
