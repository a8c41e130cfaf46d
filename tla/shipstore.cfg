SPECIFICATION FairSpec
CONSTANTS
  h1 = h1
  h2 = h2
  s1 = s1
  Hashes <- TwoShips
  Systems <- OneSystem
  NoSystem = nosys
  NoFile = nofile
  MaxShips = 2
  MaxState = 1
  MaxTime = 2
  MaxCrashes = 1
INVARIANTS
  StoreTypeOK
  CleanIsSaved
PROPERTIES
  ImplementsTable
  SavesMoveOn
  EveryEntryGetsItsTurn
CHECK_DEADLOCK FALSE
