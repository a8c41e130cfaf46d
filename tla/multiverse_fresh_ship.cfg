SPECIFICATION Spec
CONSTANTS
  h1 = h1
  h2 = h2
  s1 = s1
  s2 = s2
  nosys = nosys
  nobody = nobody
  Hashes <- OneShip
  Systems <- OneSystem
  NoSystem = nosys
  Nobody = nobody
  MaxShips = 1
  MaxState = 1
  MaxQueue = 2
  MaxBoards = 2
  MaxFaults = 0
PROPERTIES
  StateCarriedOver
CHECK_DEADLOCK FALSE
