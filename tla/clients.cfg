SPECIFICATION Spec
CONSTANTS
  c1 = c1
  c2 = c2
  c3 = c3
  eagle = eagle
  heron = heron
  reader = reader
  writer = writer
  Connections <- ThreeConnections
  Ships <- TwoShips
  Roles <- TwoRoles
  MaxClients = 3
  Nobody = nobody
SYMMETRY ClientSymmetry
INVARIANTS
  ClientsTypeOK
  RefcountIsUsers
  CrewsAreRight
  AbortsOnlyAfterEarlyReaping
PROPERTIES
  ImplementsCrews
CHECK_DEADLOCK FALSE
