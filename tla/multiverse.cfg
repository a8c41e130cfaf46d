SPECIFICATION Spec
CONSTANTS
  h1 = h1
  h2 = h2
  s1 = s1
  s2 = s2
  nosys = nosys
  nobody = nobody
  Hashes <- OneShip
  Systems <- TwoSystems
  NoSystem = nosys
  Nobody = nobody
  MaxShips = 1
  MaxState = 0
  MaxQueue = 2
  MaxBoards = 2
  MaxFaults = 2
INVARIANTS
  MultiverseTypeOK
  VerifiedMeansRecorded
  UpdatesNameRecordedShips
  TableFits
SYMMETRY SystemSymmetry
PROPERTIES
  DesyncOnlyAfterLoss
CHECK_DEADLOCK FALSE
