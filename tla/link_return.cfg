SPECIFICATION FairSpec
CONSTANTS
  here = here
  there = there
  k1 = k1
  k2 = k2
  Servers <- Addresses
  FirstServers <- FirstAddress
  Conns <- TwoConns
  Nobody = nobody
  QMax = 1
  MaxStarts = 2
  MaxBreaks = 0
  MaxTroubles = 2
PROPERTIES
  LinkComesBack
CHECK_DEADLOCK FALSE
